# A verification project for SuperShuckie

SuperShuckie is an emulator frontend with replays and *Play Together*: several
players share a session, follow each other's games live, pause together, race,
and plug link cables between their consoles. This directory holds TLA+ models
of the code, the TLC runs that check them, and theorems checked by TLAPS.
Paths below are relative to `src/`.

- [1. The system](#1-the-system)
- [2. The modules](#2-the-modules)
- [3. The runs](#3-the-runs)
- [4. Fairness](#4-fairness)
- [5. What is proved](#5-what-is-proved)
- [6. Disagreements](#6-disagreements)
- [7. What is abstracted](#7-what-is-abstracted)
- [8. Not modelled, and what remains](#8-not-modelled-and-what-remains)

## 1. The system

### 1.1 Threads

A hosted session has one **accept thread**, a **tick thread** (pings, timeouts),
and per connection a **reader** and a **writer**. The application's own thread
ticks the frontend (`play_together.rs`), which polls a queue of session events.
Each client has a reader, a writer and its application thread. Each console
runs on a **core thread**, the player's own as well as each followed game's; a
recorder, a replay's decompression, a memory monitor and a frame server have
threads of their own.

They share:

- `HostShared::inner`, one mutex over connections, ids, follows, the link roster;
- each connection's outbound queue (a mutex and a condition variable) and its
  atomics (`closing`, `peer_id`, `writer_done`, ...);
- the event queue of the session, filled by readers, emptied by a frontend tick;
- command channels and mailboxes between the frontend and the core threads,
  with the two channels of a lent loop (forwarded commands, and the way home);
- a link's inbox, filled by the frontend and emptied by the core thread;
- a recorder's command channel, its count of keyframes in flight and its errors.

### 1.2 Components

| Component | State | Operations | Interacts with | Hard, and what makes it correct |
|---|---|---|---|---|
| **Host session roster** `supershuckie-play-together/src/session/host.rs` | connections, next id, follows, each connection's id and closing flag | accept, admit, close, leave, broadcast | queue of every connection; events to the host's frontend | admission, closing and broadcasts overlap: limit kept, every roster told ends right, Welcome first |
| **Connection queue and writer** `conn.rs` | two lanes, byte count, closing and shutdown flags, the batch being written | push, push urgent, begin close, write loop | roster, socket | merging and overtaking without loss; exact counts; somebody always shuts the socket |
| **Following and snapshot requests** `session/follow.rs`, `session/client.rs`, core `live_replay.rs` | subscriptions, rate limits, expected frames, the feeder's queue | publish, request, forward, note a gap, feed, load | queue, coalescer, core | two rate limits, requests lost, restarts: a follower without a snapshot always gets one |
| **Sync pause and race reset** `session/host.rs`, `play_together.rs` | setting and pause at the host, agreed pause in each frontend | pick, pause, relay, adopt, put back, count down | event order | crossing messages, stale notes: all end paused alike, no echo |
| **Link roster at the host** `session/host.rs` | pending requests, links | route request/response/start/unlink, forget a departed player | readers, closers | check and record in separate steps: one cable each, survivor told in order |
| **Link handshake** `play_together/link.rs` | phase and plug of each frontend, incoming requests | request, answer, hold, start, pull, time out | link roster, core threads | both ends act alone: no record outlives its cable |
| **Link lockstep** core `link.rs`, `emulator/link.rs`, `thread.rs` | inbox per link frame, delay window, hashes, interleave of two consoles | send, take, run, stall, hash, end | link frames, core thread | two machines run one pair in step, or notice; neither starves the other |
| **Threaded core** core `thread.rs` | command channels, lent follower, what is left over | command, call, lend, link, unlink, forward, close | frontend, lockstep | one holder of a loop, order of commands, every call answered, whoever panics |
| **Live replay feeder** core `live_replay.rs` | queue, have-snapshot flag | push, pop, reset | Following | overflow between a snapshot and its frames |
| **Recorder thread** `supershuckie-replay-recorder/.../record/thread.rs` | channel, keyframes in flight, errors | report, handle, poll, close | recorder, core | error paths count down; closing returns after a panic |
| **Recorder and resume** `.../record.rs`, `.../record/resume.rs` | blobs, delta keyframes, temporary copy | write, close, resume | files | two sinks fail apart; what a crash leaves tells the truth and can be resumed |
| **Playback** `.../playback.rs`, core `lib.rs` | position in a file, keyframe chain, decompression worker, stop and resume point | next packet, seek, stop, resume | file, core | a late worker, damage, failed seeks: state and frame are the recorded ones |
| **Client session** `session/client.rs` | handshake state, connection | join, leave, read, send | host | streams and requests are in `Following`; the lifecycle is not |
| **Events, stats, coalescer** `session/mod.rs` | event queue, coalescing buffers | push, flush | everyone | order; used in `Following` and `SharedPause` |
| **Play Together frontend** `supershuckie-frontend/src/play_together.rs` | publisher, requesters, peers, race, windows | tick | session, core | requests and snapshots in separate steps |
| **Emulation core** `supershuckie-core/src/lib.rs` | console, counters, replay, pending snapshots | run, load, record, restart | recorder, publisher | counters that start over |
| **Application frontend** `supershuckie-frontend/src/lib.rs` | settings, pause, windows | commands | core | only `set_paused` is used |
| **Memory monitor, memory tools** core `memory_monitor.rs`, frontend `memory_tools.rs` | the mailboxes between them, what each has seen, the undo stack, the search worker's jobs | request, edit, sample, answer, snapshot, scan, replace a core | core thread, search worker | nobody waits for a lock (`try_lock`) and cores are replaced underneath: nothing stale shown, nothing done twice or to the wrong core, nothing waits for ever |
| **Frame server**, **wire protocol**, **codes, colours, compatibility, transport**, **bookmarks, comparison, conversion**, **external control**, **audio and video**, **bindings and user interface** | | | | not modelled ([section 8](#8-not-modelled-and-what-remains)) |

`PROJECT.json` lists the same components with their sources and says for each
what is modelled and why the rest is not. Its *hazards* name, line by line, what
a test would hardly reach, with the properties aimed at each.

## 2. The modules

Each module is one component, its constants the sizes and bounds; the `MC*`
module of the same name only adds the symmetry set and the values of constants
that are not numbers or sets of names, and the `.cfg` files give the rest. A mutant
of a definition stands directly before it or before its use and is not part of
the specification.

| Module | Code | State ↔ code | Actions ↔ code |
|---|---|---|---|
| `HostRoster` | `session/host.rs`: `add_connection`, `admit`, `broadcast`, `close_connection`, `HostSession::leave` | `conns`, `nextPeerId`, `follows` are the fields of `HostInner`; `peerId`, `closing` the atomics of `ConnShared`; `told[c]` the roster spelled by the messages queued on c, `hostTold` the one spelled by events | one per stretch between two locks: spawn, register, check and admit under the lock, each `PeerJoined`, marking closed, reading the id, each `PeerLeft`, taking the connections, closing each |
| `OutboundQueue` | `conn.rs`: `try_push`, `try_push_urgent`, `begin_close`, the writer | `items`, `urgent`, `bytes`, `closed` of `QueueState`; `closing` and `writerDone` of `ConnShared`; where the writer is in its batch | push and urgent push, `begin_close` in its steps, the drain with its ping, each run (merging and skipping), urgent messages taken between runs, flush, a failing write, the end of the writer and its report |
| `TwoLanes` | abstract: what the comments of `conn.rs` promise a sender | what waits in each lane, what was sent, how many urgent messages no further run may overtake, the phase of closing | accept, send the first urgent message, send a bounded run, close flushing or dropping, finish, break |
| `Following` | `session/follow.rs`, `session/client.rs`, `session/mod.rs`, `play_together.rs`, core `live_replay.rs`, `lib.rs` | the publisher's frame and lineage, requesters, pending snapshot, coalescer, queue to each follower, each follower's expected frame, rate limits, feeder queue and console; `missed` is a history | run a frame, begin a recording, replace the core, publish, forward a request, flush, deliver, notice a gap, feed, overflow, load, fail, request again |
| `SharedPause` | `session/host.rs` (`SyncPause`, `Pause`, `admit`), `play_together.rs` (tick, adoption, race) | the setting and pause noted at the host; each player's pause, agreed pause, events; messages on their way; a relay under way | pick a setting, change a pause, tick, note, relay to each, receive, join, count down |
| `LinkCable` | `session/host.rs` (`route_link`, `unlink_departed`, `deliver_link`, closing) and `play_together/link.rs` | requests and links under the lock; the reader and closer of each player; two FIFO lanes to each; phase, plug and incoming requests of each frontend | request, answer, hold, start, plug, pull, time out, route each kind, deliver, close, hear of a departure |
| `LinkLockstep` | core `link.rs`, `emulator/link.rs`, the `link_*` functions of core `lib.rs`, `run_one_linked` | `link[m]` is machine m's `LinkState` (phase, next frame to send, events scheduled, hashes computed and received), `partner[m]` its `LinkInbox` and `LinkPartnerState`, `time[m]` the link time of both consoles there, `trace[m]` all that happened to them | plug in, the own console's turn (a frame prepared, sent, run, hashed), the partner's (a frame taken and begun, or continued), stall, its timeout, a message delivered, a departure heard, unplug, leave; the players press, write, reset, pause |
| `CoreLending` | core `thread.rs`: the wrapper's `send`, `call`, `lend`, `link`, `unlink`, `drop`; `run_thread`, `forward_while_lent`, `end_link`, `run_one_linked`; the frontend's use of them in `play_together/link.rs` | `queue[t]` the command channels, `pending` and `hasLoop` are `pending_command` and `loop_`, `forward` and `returned` the channels of a `LentCore`, `own` the own thread's `LinkPhase` and status, `app` what the frontend's thread waits in and believes | a command taken and handled by each thread, forwarding one, the loop coming home or gone, a pass of the linked pair, both halves of `end_link`, a panic; each call of the frontend and its return |
| `Recorder` | `record.rs`, `record/thread.rs`, `record/resume.rs`; the core's side in core `lib.rs` | `rec` is `ReplayFileRecorder` with its two files, `queue` and `inFlight` the thread's channel and `keyframes_in_flight`, `errors` those not polled yet; `lived` what really happened to the console | every report of the core, the thread handling it (writing a packet, a keyframe, a blob, with either sink failing at each write), polling (an error of the file drops the recorder, and its thread gives up what is queued), closing, a panic; crash and resumption are asked of every state (`ResumedTells`) |
| `ReplayPlayer` | `playback.rs`: `next_packet`, `hand_out`, `go_to_keyframe`, the chain of deltas, stored keyframes, the worker | the player as a record (list, index, chain, buffers, worker) | operators: each call of `ReplayFilePlayer` takes a player and returns it as the call leaves it |
| `Playback` | core `lib.rs`: `handle_replay`, `do_run_fn`, `seek_in_replay`, `go_to_replay_frame*`, `stop_replay_playback`, `resume_replay_playback` | `player` and the core's replay fields: frame, resume point, stopped, stalled | play a frame, seek exactly or coarsely, stop, live frames, resume, go to the resume point; the worker is late, done or dead at each |
| `MemoryMonitor` | core `memory_monitor.rs` (`MemoryMonitorShared`, `MemoryMonitorLocal::service`), frontend `memory_tools.rs`, `search_worker`, the `SetMemoryMonitor` command of core `thread.rs` | `request`, `edits`, `slot`, `slotGen`, `ring`, `job` are the shared fields; `local` is `MemoryMonitorLocal`, `tools` `MemoryTools`, `search` `SearchShared` with the worker; `pc` and `corePc` where the two threads are between locks | push the request, attach or detach, write and undo (push, then count), scan and cancel, tick (take a sample, drain the answers), replace the core; a command, and the steps of a pass (pull the request, apply edits and sample, publish, flush, snapshot), each of which may miss its lock; the worker takes a job, receives a snapshot, gives up |

The components interact as in the code: the roster's `told` relies on the FIFO
order of a lane, which `OutboundQueue` establishes (`KeepsLanes`); `LinkCable`
relies on two FIFO lanes of which the urgent one may overtake; `Following`,
`SharedPause` and `LinkLockstep` on the order of one lane. What `LinkCable` calls
plugging in is `CoreLending`'s lending and linking, and a link `CoreLending`
just runs or fails is `LinkLockstep`'s. `Playback` EXTENDS `ReplayPlayer`, whose files
have the shape `Recorder` gives them. `MemoryMonitor` stands by itself: the core it is
served by is one that takes commands and may be replaced. `OutboundQueue` implements `TwoLanes` under
the refinement mapping in its `INSTANCE TwoLanes WITH ...`.

`HostRoster_proofs`, `Following_proofs`, `SharedPause_proofs`, `LinkCable_proofs`,
`LinkLockstep_proofs`, `CoreLending_proofs`, `MemoryMonitor_proofs` and
`OutboundQueue_proofs` extend their module and hold its theorems. The invariants of
`LinkCable_proofs` are many, and have a module of their own, `LinkCable_invariants`.

## 3. The runs

| Run | Question | Bounds | Distinct states |
|---|---|---|---|
| `HostRoster` | Is the limit kept, does each roster told end right, is nobody told of others before its Welcome, what does leaving leave open? (`Capacity`, `EveryoneIsTold`, `NoGhosts`, `WelcomeFirst`, `LeaveLeavesAtMostOne`) | 3 connections, limit 3 (two clients fit), one closed, leaving allowed | 7,064,940 |
| `OutboundQueue` | Are bytes exact, do lanes keep order, does a connection that closes or fails end closed with its socket shut? (`BytesExact`, `KeepsLanes`, `ClosingEnds`) | kinds stream, snapshot, huge; 4 pushes, 1 ping, 3 items or 5 bytes queued, runs of 2, merges of 2; fair | 669,467 |
| `Following` | Is somebody forgotten, is a requester served, a gap noticed, and does a follower without a snapshot eventually have one, loads failing? (`NobodyForgotten`, `RequestersServed`, `GapIsNoticed`, `Recovers`) | 2 followers, feeder of 1, 2 turns (frames, restarts, requests for no reason, failing loads); fair | 813,087 |
| `SharedPause` | Do all end in the host's pause, or with the last; is an adopted pause, or the reset, ever published back? (`PausesAgree`, `NoEcho`) | 2 clients, all 3 settings of which one is picked anew, 2 changes, 1 reset | 1,188,708 |
| `LinkCable` | One cable each, no record without a cable, unplugged before told, plugged in together? (`OneCable`, `RecordsHold`, `UnlinkFirst`, `PluggedTogether`) | host and 2 clients, three of: request, pull, close | 2,009,034 |
| `LinkLockstep` | Do both machines simulate the same pair, is every frame kept that is needed, is a difference noticed and only a difference, do both go on or both end? (`InStep`, `HashesTell`, `NothingDropped`, `NeverStuck`) | delay 1, 5 frames ahead, a hash every frame of which 2 are remembered, 6 frames, frames of 2 ticks and 1, one of: press, write, reset, pause, stray; fair | 336,038 |
| `CoreLending` | Is the lent loop in one pair of hands, do commands keep their order, is nothing left held, does every call return? (`OneHolder`, `InOrder`, `LeftClean`, `CallsReturn`) | 8 commands, 1 panic of the own thread; fair | 461,923 |
| `Recorder` | Does what is on disk, at any moment and however writing failed, tell what was recorded; is a closed file complete; does a resumed one go on telling the same; does closing return? (`NeverLies`, `NothingLost`, `BookmarksFound`, `ResumedTells`, `InFlightExact`, `CloseReturns`) | 5 reports, blobs of 1 frame, channel of 2, 1 failing write of the file, 1 panic; fair | 187,319 |
| `RecorderTempFails` | *violated*: is the recording unaffected by a failing temporary copy? (`RecordingUnaffected`) | 5 reports, blobs of 3 frames, 1 failing write of the copy | |
| `Playback` | Is the console where the recording was whenever the replay drives it, do seeks land, is a sound file played to its end? (`Faithful`, `PlaysToItsEnd`, `SeeksLand`) | four files, 5 frames or less; fallbacks of 1 and 2 keyframes; 1 frame after a load, 1 to settle, 2 live | 6,646 |
| `MemoryMonitor` | Is what is shown what was asked for, of the core that runs; is an edit applied once, in order, by its core; is a search's memory no older than the scan; are viewers, edits and scans served in the end? (`ShowsWhatItSays`, `EditsOnce`, `ScanIsFresh`, `ViewerCatchesUp`, `NothingWaits`) | one game or none, ring of 1, 3 acts (user's changes, writes, undos and scans, states loaded, cores replaced, frames with a sample due, locks missed); fair | 1,110,557 |
| `MemoryMonitorUndo` | *violated*: is a write only undone in the memory it was made in? (`UndoneWhereMade`) | as before | |

Six properties are conjunctions, whose parts have names and comments of their own:
`PausesAgree` of `HostRules` and `LastPauseWins`, `HashesTell` of `MismatchMeansStray`
and `DivergenceCaught`, `NeverStuck` of `KeepsGoing` and
`BothEnd`, `NothingLost` of `CopyIsComplete` and `ClosedIsComplete`, `Faithful` of `ConsoleTrue` and `ChainTrue`, `NothingWaits` of
`EditsArrive` and `ScansEnd`.

**Why the bounds are enough to be interesting.** Every hazard of the session
needs at most two threads at odds and a third party that is told: three
connections (or three players) have all three roles at once, and a limit of 3 is
reached and refused. Two pushes fill a batch and a run, a third waits, a fourth
overflows; `huge` exceeds the merge limit; 5 bytes are reached before 3 items and
the other way round. A restart and a
missed stretch are what makes a follower stale while the other is served; a feeder of one
frame overflows on the second. Two turns, a recording and then another core at frame 0,
also make the restart that `missed` is about. (With 3 turns the invariants hold in 8,393,132 states up to
symmetry; with 1 follower and 4 turns `Recovers` holds as well.) A pause change, a contrary
one and a change of setting between them are what the pause rules are about. A
request, its cross-request and a departure are what the link roster has to
survive. In the lockstep, frames of 2 ticks and 1 make the interleave uneven; six
frames are enough for the delay, a hash, its comparison on the other side and a
stall on each; 5 frames ahead is the least that `AheadAssumption` allows at this delay
and these frames. Eight commands are hold, lend, link, unlink and release with
three more to be forwarded, left over or raced by a close. Five reports fill two
blobs, a bookmark table and a keyframe between frames, with delta on delta. The
four replay files are one closed, one cut off by a crash, one damaged in a blob, and
one of a Nintendo 3DS with stored keyframes of three levels; a seek can go from
each frame of them to each other, twice and more in a row, since a position is a
state and nothing counts the calls. Three acts in `MemoryMonitor` are a write, the core
replaced and an undo, two writes with a lock missed, or a viewer, a core replaced and a
lock missed; a ring of one loses an answer to the second edit, and cancelling a scan
costs nothing, so a stale snapshot can meet the next scan. Each mutant in `PROJECT.json` is a plausible
bug in one of the mapped definitions and is found within these bounds, so no
property holds because its case never occurs.

**Symmetry** permutes the connections, followers or clients, which no
definition tells apart, and is used in safety runs only. **Deadlock** is checked in
`Playback`, where the application can always call. Elsewhere `CHECK_DEADLOCK
FALSE`: all inputs (connections, frames, pushes, changes, turns, commands) are
bounded, and a session in which everybody has left or nobody does anything is a
legitimate end. What must not stop is stated as liveness (next section).

## 4. Fairness

Six specifications assume weak fairness, of the steps of a thread that has begun
something. The code justifies it: these steps are plain statements of an OS
thread and none waits for a lock that another holds over I/O. `HostRoster`,
`SharedPause`, `LinkCable` and `Playback` are checked for safety; what "ends right" and
"ends alike" mean there is stated of states in which nothing is on its way any more.

- `OutboundQueue`: the writer and `begin_close` are carried on. A peer may stall
  a write for as long as it likes, until the connection is closing: then the
  write's timeout turns it into an error.
- `Following`: the publisher's core, the frontend's ticks, the network and the
  feeder's requests carry on. Nobody has to play, to ask or to fail, and no
  rate limit has to run out.
- `LinkLockstep`: each core thread takes a step that advances a console or changes
  its phase when it can (a frame that is not due comes due), and what was sent
  is delivered, or its sender's departure heard. No paused player has to resume:
  of the two parts of `NeverStuck`, `KeepsGoing` excepts a player who stays paused,
  `BothEnd` does not.
- `CoreLending`: both threads are scheduled, the follower's also while it only
  polls (`LENT_POLL`); the frontend goes on when its call returned, and links what it
  was lent, as `plug_in` does in one go. Which calls it makes is its choice, and
  neither a link's failure nor a panic has to happen.
- `Recorder`: the recorder thread handles, finishes or gives up, and the core polls
  (its frame loop does) or waits in `close`. No write has to succeed.
- `MemoryMonitor`: the frontend ticks and finishes the operation it began, the core
  thread's loop goes round also while its game is paused (it is parked for 100 ms at
  most), the search worker works. The user does nothing that has to be done, no frame has
  to fall due, and a lock is not missed for ever: missing one takes a frontend that is at
  that critical section just then, and each is one of the acts the bound counts.

## 5. What is proved

For every value of the constants satisfying the named assumptions (finite sets
of connections, followers or clients; bounds that are naturals), and with
`Spec` the specification the runs check:

| Theorem | States | Inductive invariant and why it is needed |
|---|---|---|
| `HostRoster_proofs!Typing` | `[]TypeOK` | itself |
| `HostRoster_proofs!CapacityKept` | `[]Capacity` | `CapacityInv`: typing, only spawned connections are registered, set up, read from or admitted (`Started`), and the one being set up is not registered yet and, if admitted already, is on record as `untimely` (`Unregistered`). Counting under the lock bounds those registered when they were admitted; the extra conjuncts see to it that registering never adds one that was not counted |
| `HostRoster_proofs!WelcomeIsFirst` | `WelcomeFirst`, an action property | `WelcomedOrClosing`: whoever has an id was sent its Welcome, unless its queue was closed to it, and nobody without an id is on a list of those to be told |
| `HostRoster_proofs!LeaveLeaves` | `[]LeaveLeavesAtMostOne` | `Accounted`: an open connection is registered, being set up, or on leave's list, and once leave has taken `conns`, these hold one besides its list at most |
| `HostRoster_proofs!AllAreTold` | `[]EveryoneIsTold` | `Base` (typing, `Started`, `Unregistered`, `Accounted`; `Ids`: an id belongs to one connection and a closer holds its connection's; `Registered`: while the session is up, whoever is here is registered) with `Announced`: of two that are here, each was told of the other, or the other's reader is still to tell it |
| `HostRoster_proofs!NoGhostsLeft` | `[]NoGhosts` | `Base` with `Forgotten`: who closes a participant erases it place by place, and whoever still lists it is on what that closer has yet to work off |
| `OutboundQueue_proofs!BytesCounted` | `[](TypeOK /\ BytesExact)` | the first part of `QueueInv`, with `Counted`: the queue holds no more than was pushed. That a partial drain gives back exactly the cost of the urgent lane needs the count to be exact before it |
| `OutboundQueue_proofs!LanesKept` | `KeepsLanes`: `Spec` implements `TwoLanes!Spec`, safety being all that promises | `QueueInv`. `Holds` says what the writer still has at each point of its loop, so that handing the queue to the writer moves nothing in `TwoLanes`, and that after the last drain nothing is left; `Owes` that the urgent messages a run has passed are all written before the next run begins. That a run is bounded is a lemma about every batch (`RunBound`): before its last message it is below `WRITE_RUN`, and the items of that message but the last are below `STREAM_MERGE_LIMIT` |
| `Following_proofs!FollowingTypes` | strengthened typing: ranges of frames and lineages | itself |
| `Following_proofs!RequestersAreServed` | `[]RequestersServed` | itself, with the typing: the list of requesters is emptied only by a snapshot, and a command follows every addition |
| `Following_proofs!NobodyIsForgotten` | `[]NobodyForgotten` | `Remembered`: neither rate limit holds a request of a follower back unless another of its requests stands. `NobodyForgotten` alone says nothing of a follower that is well but whose limit is running |
| `Following_proofs!GapsAreNoticed` | `[]GapIsNoticed` | `Numbered /\ \A f : Counted(f)`. `Numbered`: the publisher's next number is its frame, and no less than it while a restart is unpublished. `Counted`: what a follower will have counted when it has received its channel arrives at the publisher's next number if the lineages agree, and past it otherwise; only one in `missed` may have come to it in an older lineage. The property speaks of an empty channel only, so the count has to be carried through the messages on their way, from the last snapshot among them |
| `SharedPause_proofs!PauseTyping` | `[]TypeOK` | `TypeInv`: with `ToldAreAdmitted`: a relay goes only to the admitted |
| `SharedPause_proofs!NothingIsEchoed` | `[]NoEcho` | `EchoInv`: pauses sent plus players whose pause differs from the agreed one never exceed the changes made; adoption moves both together, so it adds nothing |
| `SharedPause_proofs!PlayersAgree` | `[]PausesAgree` | `AgreeInv`. `PausesAgree` speaks of rest only, so what is on its way has to be followed: `Heard` says that every frontend ends up with the host's setting, and `Heading(v)` that everything on its way makes for one state v: each player is in it, or its last message says it, or somebody owes it a message, or a pause that is to be relayed to it is still coming. A step that publishes or picks turns all to another v; `Orderly` keeps it from doing so while another is on its way |
| `LinkCable_proofs!OneCableEach` | `[]OneCable` | itself: links are only added in `RouteAccept`, which looks for both ends in the same critical section |
| `LinkCable_proofs!TypesHold` | `[]TypeOK` | `Types /\ Numbers` of the next row: that a recorded request has a number above 0 needs `Numbered` |
| `LinkCable_proofs!RecordsKept` | `[]RecordsHold` | `HandshakeKept`: `Types /\ Numbers /\ Views`. `RecordsHold` speaks of rest only, so the handshake is followed on its way. `Types` says what is in every queue, line of jobs and handshake. `Numbers`: the nonce of a request belongs to one request (`OneAsker`), which waits to be recorded once (`Once`) and moves on (`Fresh`), and an asker has one on record (`OneRequest`); so an accept cannot be taken for that of another attempt. `Views`: of two players that stay, either one's own `Unlink` is on its way to the host, which will end the record (`Pulled`), or the player sees the other as the record says (`Fine`): linked, it has the cable (`Has`) or the accept that gives it is on its way (`Gets`), and no `Unlink` on its way unties it (`Threat`), being behind what ties or stopped by the order of the queues (`Guarded`, `Ahead`). The same is asked of a request on record at each place it can be, since it may become a link |
| `LinkCable_proofs!UnplugsFirst` | `[]UnlinkFirst` | `Types /\ Numbers /\ Attempts /\ Partings /\ Cables`. `UnlinkFirst` speaks of the moment a survivor hears of a departure, when all that the closer did before is past. `Cables` follows what a plugged player that stays has to hold against it: it is on record with a partner that has not departed, or an `Unlink` of the partner's is with the partner's reader, its closer or in the inbox, or the player's own ended the record (`Covered`); and a request recorded after its player had departed finds nobody plugged (`Ghost`), so granting it takes no such reason away. `Partings`: a closer delivers before it announces, and once its farewell has reached anyone it has nothing left to deliver, which rules the closer out as the one that still owes the `Unlink`. `Attempts`: a request is in one place (`Single`) and untold there (`Untold`), a start bears the number of a turn that was taken (`Dated`), so a frontend that asks anew is not plugged by an old start |
| `LinkCable_proofs!PlugsTogether` | `[]PluggedTogether` | `Types /\ Numbers /\ Attempts /\ Views /\ Lanes /\ Lined /\ Pasts /\ Meets`. `PluggedTogether` compares two frontends that plug in at different moments, so it has to be known while the other's start is still on its way: `Meets` says of two that are plugged in, or about to be as both starts fly between players on record (`Joined`), that the other has stopped for this attempt, or its `Unlink` is on its way, or the record was ended (`Met`). What could break that is a message of another attempt of the same two. `Lanes`: from one player to another order is kept, through outbox, reader and inbox, and an accept travels once and ahead of its start. `Lined`: of a player that is in for an attempt, nothing that opens another is behind what opened this one. `Pasts`: while anything of another attempt is left (asked, shown or answered), the other player is not in for this one (`Fore`), or its `Unlink` is on its way out |
| `LinkLockstep_proofs!MachinesInStep` | `[]InStep` | `LockstepInv` (`AlwaysScripted`): typing, and unless a console was changed otherwise than by the link, there are a script (the events of every frame of each console) and a walk through it such that both machines are somewhere on that walk, neither has begun a frame that was not sent, and all that is queued, on its way or in an inbox says what the script says. `InStep` compares two traces of different lengths and says nothing of what one of them will go on with; the script does, and it is settled frame by frame when a frame is sent (`SendsAgreed`), which nobody can have begun yet because each machine has sent `Delay` frames more than it ran (`Ready`) |
| `LinkLockstep_proofs!NothingIsDropped` | `[]NothingDropped` | `KeepingInv` (`AlwaysKeeping`): `Paced`: a machine is in the frame it sent last or done with it, and when it sent that one its copy of the partner's console had come as far; `Fed`: of the partner's console it runs only frames the partner sent, and its inbox knows how far. From both, each way round, how far ahead a frame on its way can be (`InboxFits`): 2 delays, and one more frame than the delay of the partner's console in frames of one's own. `AheadAssumption` says that the inbox holds that: 600 in the code, against 15 frames of delay at most |
| `LinkLockstep_proofs!PairHashesTell` | `[]HashesTell` | `HashesInv`: the invariants of the two rows above, `AllTelling` and `MismatchMeansStray` (a link ends in a mismatch only after a stray). `HashesTell` speaks of hashes as they are compared; `AllTelling` follows them from where they are taken. `Told` ties the trace of a machine to its link times, so that its number of hashes, and which it still remembers (`Hashing`), are known from them; `Reported`: every frame on its way brings the hash of its sender that goes with the frame's number, and no other; `Checked`: a machine that has run past the frame that brought a hash has compared it, so what strayed before that hash would have ended the link. Hashes that agree say that nothing strayed on either machine, as strays of the two are different changes. That a hash is neither forgotten nor still to be taken when the partner's arrives is arithmetic about the delay, the frame lengths and the interval: `HashesAssumption`, which 60 frames, 8 hashes and a delay of 15 keep |
| `CoreLending_proofs!LendingTypes` | `[]TypeOK` | itself |
| `CoreLending_proofs!LoopHasOneHolder` | `[]OneHolder` | `LendingInv`. The loop travels *in* commands and answers, so one has to know which are on their way: `Whereabouts` says where the loop is and what each thread does meanwhile; `Answers` that nobody was answered while its command is on its way (or a lend could be answered twice); `Closing` that nothing is sent behind a Close and an unlink is answered once |
| `CoreLending_proofs!CommandsInOrder` | `[]InOrder` | `LendingInv` again: `Lines` says that tickets rise along every line and from one line to the next (what was forwarded is older than what is left over, that older than what is queued), `Order` that all handled so far are older than all of them |
| `CoreLending_proofs!NothingLeftHeld` | `[]LeftClean` | `LendingInv /\ Tidy`: `LeftClean` speaks of a frontend that waits for nothing; `Tidy` of how far the call it waits in has come in the own thread (a release not handled yet may still find the console held, an unlink answered may not) |
| `MemoryMonitor_proofs!MonitorTypes` | `[]TypeOK` | itself |
| `MemoryMonitor_proofs!OnceEach` | `[]EditsOnce` | `Sent`: what waits is meant for the core that runs, in the order made, and made after all that was applied; `Made` is one less than the counter while an edit is counted but not pushed |
| `MemoryMonitor_proofs!HonestSamples` | `[]ShowsWhatItSays` | `Sampled`: wherever a sample is, its claim to the newest request is true, or a request for a new core is still to be pushed; and what the core thread has pulled under the newest generation is the newest request, though it loads the generation before it takes the lock |
| `MemoryMonitor_proofs!FreshScans` | `[]ScanIsFresh` | `Searched`: jobs are counted up, the worker has the newest at most once, and only snapshots taken after the scan began bear its number |

`Types /\ Numbers /\ Views`, the largest invariant, was run by TLC as an invariant of two
instances (one client and four turns, two clients and two turns) before it was proved;
that of `UnplugsFirst` of one of them (two clients and two turns), and in random runs of
two clients and five turns; those of `PlugsTogether` of two clients and two turns, and in
random runs of two clients and six turns.

Each theorem is laid out as Init, one step per action, and a temporal step;
lemmas carry what several actions share, and what lines of commands do when one is
appended or taken (`LineAppend`, `LineTail`, `TicketsOf`; `Queued`, `QueueSteps`, `Batch`).
What `OutboundQueue` counts and writes of a batch are recursive functions: their equations,
and what they say of a batch that grows, are derived from the least element of a set of
numbers (`Least`, `UpTo`, `Growing`, `Recursion`), as the library's induction theorems
cannot be instantiated here.

**Only model-checked:** all liveness (`Recovers`, `ClosingEnds`, `NeverStuck`,
`CallsReturn`, `CloseReturns`, `ViewerCatchesUp`, `NothingWaits`), which TLAPS does not
reach; the recorder, whose file is read back by folds and selections over whole sequences, so that
its properties need an induction over data; and the playback, whose operators are
recursive, which the prover cannot unfold (`ReplayPlayer` and `Playback` declare
`RECURSIVE` operators on purpose: they are only run).

## 6. Disagreements

Two are kept as runs whose property is violated; `PROJECT.json` "findings" quotes
the lines. `RecorderTempFails`: a write of the temporary copy that fails is to be
reported once "and otherwise has no effect: the recording continues normally and
the final file is unaffected" (`record.rs:2451`). But `insert_keyframe_with`
(`record.rs:741`) returns that error with `?` after the keyframe went into the
blob and before it becomes what the next delta is taken against; the next delta
keyframe is then against an older state than the player has, and the file plays a
wrong state from there. `next_blob` returns the same error after the blob is
stored, and the keyframe to begin the next blob with is not written although the
caller counts it as written.

`MemoryMonitorUndo`: a write is not to be undone after the epoch changed (`memory_tools.rs:298`,
`ram-tools-spec.md:695`). The epoch of the write is compared with that of the newest
sample (`memory_tools.rs:1172`), but a new core counts its epochs from 0 again, and the
undo stack is only cleared when the *game* changed: after the same game is loaded anew a
write to the old console is undone in the new one.

Established while modelling, each by a run that has since made room or by the
shape of a property that excepts it:

- **Departures.** A connection closed between its reader's look at `closing` and
  `peer_id.store` in `admit` is admitted after its closer has looked for an id; its
  departure is announced to nobody (`host.rs:356`). `NoGhosts` excepts it.
- **Restart.** After the core was replaced "the followers get a fresh snapshot"
  (`play_together.rs:1226`), and of a recording's new counters "anyone following this session
  picks that up from a snapshot" (core `lib.rs:1701`). But the next snapshot, whatever it was
  taken for, goes to the pending requester alone if there is one only (`play_together.rs:266`).
  The others are saved by the numbers, which start over: they notice a gap and ask. A console
  at its first frame has no gap to notice: with one player waiting for a snapshot when it is
  replaced, the others expect frame 0 and get it, of a console they have no snapshot of, and
  none is to come. A differing work RAM is found by a later sync hash that is checked, counters
  by nothing. The history variable `missed` names who was left out of such a restart, and
  `GapIsNoticed` says that nobody else follows another lineage unawares; without the exception
  it fails within one turn from frame 0.
- **Race.** A race reset unpauses everyone but not the pause noted at the host, which a
  later joiner adopts (`play_together.rs:1685`, against
  `docs/play-together-protocol.md:88`).
- **Departed requester.** A request being routed while its requester's connection
  closes is recorded after the departed was forgotten; accepting it leaves a link
  nobody removes (`host.rs:447`, `:521`). `RecordsHold` excepts it.
- **A follower's emulator "stopped".** A command forwarded to the borrower but not
  taken before the link ends is dropped with the channel (`LentCore`'s wrapper "keeps
  working meanwhile", `thread.rs:1192`); if it was a call, the wrapper takes the
  missing reply for a dead thread and the frontend shows "Their emulator thread
  stopped." (`play_together.rs:1740`). `lost` in `CoreLending` holds these.
- **Delay.** `plug_in` uses the delay set at that moment (`play_together/link.rs:442`), not
  the one it announced; after a change in between the two machines do not "both
  compute the same delay" (core `link.rs:16`). `LinkLockstep` takes the delay as agreed.
- **Resuming a recording.** "Re-feeding from it loses nothing observable"
  (`resume.rs:331`): what was recorded between two keyframes on the frame the feed
  starts at is not fed again. `ResumedTells` excepts it (`BetweenKeyframes`). And
  `resume_recording_replay` (core `lib.rs:1717`) keeps in the file what was recorded on
  the target frame but does not apply it to the console that plays on.
- **Auto-resync on a 3DS.** A keyframe under auto-resync loads the state held, which on
  a file of stored keyframes is an earlier one until the chain is materialised
  (core `lib.rs:1197`, `playback.rs:834`, `:1469`). `Faithful` excepts it.
- **An edit whose answer misses the ring.** "The monitor stays attached until the edit is
  answered" (`memory_tools.rs:1035`). An edit applied in the last pass of a monitor that is
  being replaced or detached, whose answer missed the ring's lock in that pass, has its
  answer dropped with the `MemoryMonitorLocal` that held it: it stays pending, and the
  monitor attached, until a later edit is answered. `EditsArrive` speaks of the edit, not
  of its answer.
- **The first scan across a change of game.** A search that is still at its first scan is not
  reset when the game changes (`core_switched` resets only an active one), and the scan
  goes on with the new core's memory under the old game's name (`ram-tools-spec.md:432`).
  `ScanIsFresh` allows a later core.
- **Stopped replays and damage.** A seek that fails on a stopped replay leaves the live
  frame counter as its resume point. A seek that walks into damage returns `Ok` though it
  ended short. A damaged blob decompressed by the worker fails as a whole, while one
  decompressed on demand is played up to the damage. `SeeksLand` and `PlaysToItsEnd` speak
  of files without damage.

Met while reading, where the case is small or the text is loose:

- A connection's threads run before it is registered (`host.rs:270`), so
  sessions may for an instant exceed the limit by connections not yet in
  `conns`; `Capacity` counts those apart. `conns` may hold closed connections
  (`host.rs:88`) when one is closed before it is registered, and leaving may
  miss the one being set up (`session/mod.rs:343`).
- `try_push` does not count the urgent lane towards its cap of items
  (`conn.rs:19`, `conn.rs:188`).
- When "anyone may pause", a pause and an unpause that cross leave the players
  different (`docs/play-together-protocol.md:100`); a client's `Pause` can be relayed behind the
  `SyncPause` that took its right away (`:90`). `LastPauseWins` and `HostRules` say so.
- The survivor of a link "always" hears Unlink before the departure
  (`host.rs:371`); when the leaver had itself unplugged, its reader's Unlink
  may be overtaken by the closer's `PeerLeft`. The `Unlink` is then still owed by that reader,
  never by the closer.
- `PeerLinked` and `PeerUnlinked` are broadcast after the lock, by two readers;
  a third player may see them swapped and show a stale `linked_with`.
- `Unlink` carries no nonce: one sent for an old attempt can end a newer one,
  and the end that sent it, which keeps its own link (`link.rs:562`), stays half plugged
  until its stall timeout. If the other end leaves before that, the host has no pair left
  to end, and the player hears of the departure while plugged in. The attempt at an
  inductive invariant for `UnlinkFirst` showed this, at four turns, one more than the run
  has; the history variable `endedBy` names it, and `UnlinkFirst` says that it and the
  `Unlink` owed by a reader are the only two exceptions.

## 7. What is abstracted

Throughout, messages are records of what the properties tell apart; encoding,
logging, wording, statistics and latency are left out. Histories (`untimely`,
`overtaken`, `fed`, `missed`, `lived`, `trace`, ...) are never read by guards.

- **HostRoster.** `admit` refuses only for the limit; its other refusals end in
  the same close. Whatever closes a connection (tick, kick, overflow, a failing
  writer) is `OtherCloses`, asynchronous, so an overflow met while broadcasting
  is covered by every interleaving of it.
- **OutboundQueue.** Sizes are small numbers; timeouts of the condition
  variable are choices. A flush that fails after a round that wrote nothing is
  left out, as there is nothing to lose.
- **Following.** One publisher, the host. Publishing never fails to start,
  nobody unsubscribes, queues to a client have no limit (64 MiB in the code).
  Emulated state is its lineage and frame: a new core and a new recording begin one,
  at frame 0, whichever frame the console was at.
- **SharedPause.** A setting is one of off, host only, everyone. Export, which
  suspends `set_paused`, link speed, the start state and leaving are left out.
- **LinkCable.** `PeerLinked`/`PeerUnlinked` and `linked_with`, console
  families, `LinkFrame` and the lockstep are left out; whether the other game
  is followed closely enough to plug in is a free choice. The nonces of two
  requests are distinct (the code counts odd numbers up from a random start).
- **LinkLockstep.** An emulator is deterministic, so the state of a pair is the
  list of what happened to it, and a hash of the pair is that list. Serial bytes are
  part of both consoles' steps. The Game Boy Advance's coordinator, which puts a
  console to sleep within a transfer, clocks, audio, and what is recorded and
  streamed while linked are left out. A *stray* is anything but the link that changes a console
  on one machine; it stands for a bug elsewhere and shows that hashes notice it. Strays
  of the two machines are different changes: where both changed in the same way, their
  hashes would agree, and rightly so. `HashesAssumption` says how far apart hashes are
  and how many are remembered, against the delay; the code's 60 frames, 8 and 15 keep it.
- **CoreLending.** The commands a loop handles by itself are one, `run`. One
  follower; the order of the frontend's calls is that of `play_together/link.rs`
  (with one follower there is never a second link). A pair that is linked just runs or
  fails. `LINK_START_TIMEOUT` may pass at any time.
- **Recorder.** A console's state is the number of things that happened to it. The byte
  limit of a blob, compression, masks of transient buffers, the 3DS's stored keyframes on
  the writing side, times and speed are left out. A failing write of the file is tried
  again as in the code; a crash is the question what any reachable pair of files
  plays, so it needs no action. After an error of the file that the core has polled, the
  recorder is dropped: the file stays without its last blob, the end in its header and its
  section, and what was queued is given up; only the copy may tell the rest. A command under
  way at that moment is taken as handled before.
- **MemoryMonitor.** A request is its generation and whether it samples; a sample is what it
  was taken for and from; memory has no contents. Traces and freezes (handled within one
  pass on the core thread), passes in the middle of a running frame (they do nothing), redo, and undoing or resetting a search are left
  out. Sections that meet no one between two locks are one step. Atomics are taken in the
  order of the program; the ones that are relaxed only spare a lock.
  A pass begins with no command waiting (the loop handles them first; one that comes in
  between is as one that comes after the pass began), and the request the frontend pushes
  anew when a search's rows changed (`memory_tools.rs:575-583`) is left out: it is one more
  change of what is watched.
- **ReplayPlayer, Playback.** Pictures, sound, speed, times and counters are left out;
  that a picture may need a fallback keyframe is a choice. A decompression begun within
  a call is still under way at its end. Bytes do not fail to parse except in a damaged
  blob.

## 8. Not modelled, and what remains

- **Wire protocol, codes, colours, compatibility, transport, bookmarks, replay
  comparison and conversion, settings, and within the memory tools value formats, watch
  files and the comparisons of a search**: sequential conversions
  and pure functions, with unit and round-trip tests; there is nothing to interleave.
- **Frame server**: one thread that seeks a replay core (the seeking is `Playback`) and
  abandons work that a later request supersedes.
- **External control, audio and video export, emulator bindings, user interface**: I/O,
  encoding pipelines, generated or foreign code.

Open, in the order in which they would add most:

1. `ClientSession`: joining and leaving against a host that closes; the start
   state in `HostRoster` (`host.rs:587`).
2. A second follower in `CoreLending`, so that a link can find another one going on
   (`begin_linking` refuses it).
3. The frame server's superseded requests, with `Playback`'s seeks as its work.
4. Nintendo 3DS keyframes on the writing side of `Recorder`, and the resumed
   console beside the resumed file.
