------------------------------ MODULE Following ------------------------------
(***************************************************************************)
(* One Play Together host publishing its game and the clients that follow  *)
(* it: how a follower that has nothing to play gets a snapshot.            *)
(*                                                                         *)
(* A request passes two rate limits (the follower's feeder and its         *)
(* FollowSlot) and two mailboxes (the publisher's Coalescer and the        *)
(* frontend's pending_requesters) before the publishing core takes a       *)
(* snapshot, for the one requester or for everyone. What is published goes *)
(* through each client's ordinary lane, in order (module OutboundQueue),   *)
(* where the writer may merge consecutive Stream messages into one.        *)
(*                                                                         *)
(* A lineage is what one snapshot starts: frame numbers, counters and, if  *)
(* the console was replaced, its state. It is a ghost: no message says it. *)
(***************************************************************************)
EXTENDS Integers, Sequences, SequencesExt, FiniteSets, FiniteSetsExt

CONSTANTS
    Follower,    \* the clients, each subscribed to the host
    MaxQueued,   \* MAX_QUEUED_FRAMES
    FirstFrame,  \* total_frames when publishing starts
    MaxTurns     \* bound: frames emulated, recordings started and consoles replaced,
                 \* requests made of a follower's own accord, snapshots that will not load

ASSUME FollowerAssumption == IsFiniteSet(Follower)
ASSUME QueueAssumption == MaxQueued \in Nat \ {0}
ASSUME FrameAssumption == FirstFrame \in Nat
ASSUME BoundsAssumption == MaxTurns \in Nat

\* FollowState::live of a slot that awaits a snapshot.
Awaiting == -1

VARIABLES
    frame,       \* SuperShuckieCore::total_frames of the publisher
    lineage,     \* ghost: what the publisher's next snapshot will start
    published,   \* ghost: what its last snapshot started
    missed,      \* history: who was not shown a restart that goes on at the next number
    nextFirst,   \* SessionPublisher::first_frame
    snapPending, \* SuperShuckieCore::stream_snapshot_pending
    commands,    \* RequestStreamSnapshot commands on their way to the core
    forwarding,  \* the frontend is between extending requesters and the command
    requesters,  \* PlayTogetherSession::pending_requesters
    coalescer,   \* Coalescer::pending
    channel,     \* what is on its way to each follower
    requests,    \* RequestSnapshot messages on their way from each follower
    live,        \* FollowState::live
    asked,       \* FollowState::last_request is less than two seconds ago
    have,        \* Queue::have_snapshot
    queue,       \* Queue::items
    held,        \* Queue::request_allowed_at is still to come
    upstream,    \* reasons sent through Shared::upstream, not yet forwarded
    loading,     \* the follower's core has popped a snapshot and is loading it
    applied,     \* FollowerStats::snapshots_applied > 0
    fed,         \* ghost: the lineage of the last snapshot handed to the sink
    turns

publisherVars == <<frame, lineage, published, missed, nextFirst, snapPending, commands,
                   requesters>>
hostVars      == <<forwarding, coalescer>>
slotVars      == <<live, asked, requests>>
feederVars    == <<have, queue, held, upstream, fed>>
coreVars      == <<loading, applied>>
vars == <<publisherVars, hostVars, channel, slotVars, feederVars, coreVars, turns>>

\* The bound on what nobody has to do.
Turn == turns < MaxTurns /\ turns' = turns + 1

Snapshot(f, l) == [kind |-> "snapshot", first |-> f, lineage |-> l]
Stream(f, l)   == [kind |-> "stream", first |-> f, lineage |-> l]

-----------------------------------------------------------------------------

\* Everyone has subscribed: an empty slot and a forced request each.
Init ==
    /\ frame = FirstFrame /\ lineage = 0 /\ published = 0 /\ nextFirst = FirstFrame
    /\ snapPending = FALSE /\ commands = 0 /\ requesters = <<>> /\ missed = {}
    /\ forwarding = FALSE /\ coalescer = {}
    /\ channel = [f \in Follower |-> <<>>]
    /\ live = [f \in Follower |-> Awaiting]
    /\ asked = [f \in Follower |-> TRUE]
    /\ requests = [f \in Follower |-> 1]
    /\ have = [f \in Follower |-> FALSE]
    /\ queue = [f \in Follower |-> <<>>]
    /\ held = [f \in Follower |-> FALSE]
    /\ upstream = [f \in Follower |-> FALSE]
    /\ fed = [f \in Follower |-> 0]
    /\ loading = [f \in Follower |-> FALSE]
    /\ applied = [f \in Follower |-> FALSE]
    /\ turns = 0

-----------------------------------------------------------------------------
(* The publishing core's thread.                                           *)

\* SessionPublisher::snapshot: for the lone pending requester, or for everyone.
Targets == IF Len(requesters) = 1 THEN {requesters[1]} ELSE Follower

\* History of a snapshot numbered `at` where `next` was due. A restart that begins at the
\* very number that was due shows itself to nobody but the targets.
Miss(at, next) ==
    missed' = IF at # next THEN {}
              ELSE IF lineage' # published THEN Follower \ Targets
              ELSE missed \ Targets

\* A mutant of the next definition: a snapshot does not restart the numbering.
PublishOn(streams, snapped, at) ==
    /\ channel' = [f \in Follower |->
            channel[f] \o streams
                       \o IF snapped /\ f \in Targets THEN <<Snapshot(at, lineage')>> ELSE <<>>]
    /\ published' = IF snapped THEN lineage' ELSE published
    /\ requesters' = IF snapped THEN <<>> ELSE requesters
    /\ nextFirst' = nextFirst + Len(streams)
    /\ IF snapped THEN Miss(at, nextFirst + Len(streams)) ELSE UNCHANGED missed

\* The messages of one step, in order: a frame's stream, a snapshot at `at`.
Publish(streams, snapped, at) ==
    /\ channel' = [f \in Follower |->
            channel[f] \o streams
                       \o IF snapped /\ f \in Targets THEN <<Snapshot(at, lineage')>> ELSE <<>>]
    /\ published' = IF snapped THEN lineage' ELSE published
    /\ requesters' = IF snapped THEN <<>> ELSE requesters
    /\ nextFirst' = IF snapped THEN at ELSE nextFirst + Len(streams)
    /\ IF snapped THEN Miss(at, nextFirst + Len(streams)) ELSE UNCHANGED missed

\* A frame: next_frame, then service_stream sends the pending snapshot.
EmulateFrame ==
    /\ Turn
    /\ frame' = frame + 1
    /\ snapPending' = FALSE
    /\ UNCHANGED lineage
    /\ Publish(<<Stream(nextFirst, published)>>, snapPending, frame')
    /\ UNCHANGED <<commands, hostVars, slotVars, feederVars, coreVars>>

\* publish_pending_stream_snapshot, while paused.
PublishPending ==
    /\ snapPending
    /\ snapPending' = FALSE
    /\ UNCHANGED lineage
    /\ Publish(<<>>, TRUE, frame)
    /\ UNCHANGED <<frame, commands, hostVars, slotVars, feederVars, coreVars, turns>>

\* ThreadCommand::RequestStreamSnapshot.
HandleCommand ==
    /\ commands > 0
    /\ commands' = commands - 1
    /\ snapPending' = TRUE
    /\ UNCHANGED <<frame, lineage, published, missed, nextFirst, requesters, hostVars, channel,
                   slotVars, feederVars, coreVars, turns>>

\* start_recording_replay: the frame count and the counters start over, which
\* whoever follows is to learn from a snapshot.
StartRecording ==
    /\ Turn
    /\ lineage' = lineage + 1
    /\ frame' = 0
    /\ snapPending' = TRUE
    /\ UNCHANGED <<published, missed, nextFirst, commands, requesters, hostVars, channel,
                   slotVars, feederVars, coreVars>>

\* A mutant of the next action: the new publisher waits to be asked.
ReplaceCoreQuietly ==
    /\ ~forwarding
    /\ Turn
    /\ lineage' = lineage + 1
    /\ frame' = 0
    /\ nextFirst' = 0
    /\ snapPending' = FALSE
    /\ commands' = 0
    /\ UNCHANGED <<published, missed, requesters, channel, hostVars, slotVars, feederVars,
                   coreVars>>

\* republish_after_core_switch, on the frontend's thread: a new core and a new publisher,
\* whose snapshot is taken at once; the old core's commands are gone with it.
ReplaceCore ==
    /\ ~forwarding
    /\ Turn
    /\ lineage' = lineage + 1
    /\ frame' = 0
    /\ snapPending' = FALSE
    /\ commands' = 0
    /\ Publish(<<>>, TRUE, 0)
    /\ UNCHANGED <<hostVars, slotVars, feederVars, coreVars>>

-----------------------------------------------------------------------------
(* The host's session and frontend.                                        *)

\* A RequestSnapshot arrives: Coalescer::request.
RequestArrives(f) ==
    /\ requests[f] > 0
    /\ requests' = [requests EXCEPT ![f] = @ - 1]
    /\ coalescer' = coalescer \union {f}
    /\ UNCHANGED <<publisherVars, forwarding, channel, live, asked, feederVars, coreVars, turns>>

\* Coalescer::flush and the SnapshotRequested event: the requesters are noted ...
NoteRequesters ==
    /\ ~forwarding
    /\ coalescer # {}
    /\ forwarding' = TRUE
    /\ coalescer' = {}
    /\ requesters' = requesters \o SetToSeq(coalescer)
    /\ UNCHANGED <<frame, lineage, published, missed, nextFirst, snapPending, commands,
                   channel, slotVars, feederVars, coreVars, turns>>

\* ... and then the core is asked for a snapshot.
CommandSnapshot ==
    /\ forwarding
    /\ forwarding' = FALSE
    /\ commands' = commands + 1
    /\ UNCHANGED <<frame, lineage, published, missed, nextFirst, snapPending, requesters,
                   coalescer, channel, slotVars, feederVars, coreVars, turns>>

-----------------------------------------------------------------------------
(* A follower's reader thread.                                             *)

\* request_snapshot_from(publisher, false): FollowSlot::may_request.
AskHost(f) ==
    /\ asked' = [asked EXCEPT ![f] = TRUE]
    /\ requests' = IF asked[f] THEN requests ELSE [requests EXCEPT ![f] = @ + 1]

\* A mutant of the next definition: the rate limit outlives its answer.
KeepAsked(f) == UNCHANGED asked

\* FollowSlot::on_snapshot's answer to whatever was asked.
ClearAsked(f) == asked' = [asked EXCEPT ![f] = FALSE]

\* Shared::request_snapshot.
AskUpstream(f) ==
    /\ held' = [held EXCEPT ![f] = TRUE]
    /\ upstream' = [upstream EXCEPT ![f] = @ \/ ~held[f]]

\* Everything queued is useless until the next snapshot.
Discard(f) ==
    /\ queue' = [queue EXCEPT ![f] = <<>>]
    /\ have' = [have EXCEPT ![f] = FALSE]
    /\ AskUpstream(f)

FramesQueued(f) == Len(SelectSeq(queue[f], LAMBDA item : item.kind = "stream"))

\* push_packet of the packets of one message; past the cap, the backlog goes.
Feed(f, packets) ==
    IF ~have[f] THEN UNCHANGED <<queue, have, held, upstream>>
    ELSE IF FramesQueued(f) + Len(packets) > MaxQueued THEN Discard(f)
    ELSE /\ queue' = [queue EXCEPT ![f] = @ \o packets]
         /\ UNCHANGED <<have, held, upstream>>

\* A Stream message, of k frames if the host's writer merged as many.
ReceiveStream(f, k) ==
    /\ k <= Len(channel[f])
    /\ \A i \in 1..k : channel[f][i].kind = "stream"
    /\ channel' = [channel EXCEPT ![f] = SubSeq(@, k + 1, Len(@))]
    /\ LET first == channel[f][1].first IN
        \/ /\ live[f] = Awaiting
           /\ UNCHANGED <<slotVars, feederVars>>
        \/ /\ live[f] \notin {Awaiting, first}
           /\ live' = [live EXCEPT ![f] = Awaiting]
           /\ AskHost(f)
           /\ UNCHANGED feederVars
        \/ /\ live[f] = first
           /\ live' = [live EXCEPT ![f] = first + k]
           /\ Feed(f, SubSeq(channel[f], 1, k))
           /\ UNCHANGED <<asked, requests, fed>>
    /\ UNCHANGED <<publisherVars, hostVars, coreVars, turns>>

\* A Snapshot message: FollowSlot::on_snapshot and push_packet of a keyframe.
ReceiveSnapshot(f) ==
    /\ channel[f] # <<>>
    /\ Head(channel[f]).kind = "snapshot"
    /\ channel' = [channel EXCEPT ![f] = Tail(@)]
    /\ live' = [live EXCEPT ![f] = Head(channel[f]).first]
    /\ ClearAsked(f)
    /\ have' = [have EXCEPT ![f] = TRUE]
    /\ queue' = [queue EXCEPT ![f] = <<Head(channel[f])>>]
    /\ held' = [held EXCEPT ![f] = FALSE]
    /\ fed' = [fed EXCEPT ![f] = Head(channel[f]).lineage]
    /\ UNCHANGED <<publisherVars, hostVars, requests, upstream, coreVars, turns>>

-----------------------------------------------------------------------------
(* A follower's core thread and frontend, and time.                        *)

\* LiveReplaySource::pop; a snapshot is then loaded with the queue unlocked.
Pop(f) ==
    /\ ~loading[f]
    /\ queue[f] # <<>>
    /\ queue' = [queue EXCEPT ![f] = Tail(@)]
    /\ loading' = [loading EXCEPT ![f] = Head(queue[f]).kind = "snapshot"]
    /\ UNCHANGED <<publisherVars, hostVars, channel, slotVars, have, held, upstream, fed,
                   applied, turns>>

Loaded(f) ==
    /\ loading[f]
    /\ loading' = [loading EXCEPT ![f] = FALSE]
    /\ applied' = [applied EXCEPT ![f] = TRUE]
    /\ UNCHANGED <<publisherVars, hostVars, channel, slotVars, feederVars, turns>>

\* apply_stream_snapshot fails: discard_until_snapshot, a newer one included.
LoadFails(f) ==
    /\ loading[f]
    /\ Turn
    /\ loading' = [loading EXCEPT ![f] = FALSE]
    /\ Discard(f)
    /\ UNCHANGED <<publisherVars, hostVars, channel, slotVars, fed, applied>>

\* The core is too far behind, or a sync hash differed.
CoreAsks(f) ==
    /\ Turn
    /\ AskUpstream(f)
    /\ UNCHANGED <<publisherVars, hostVars, channel, slotVars, have, queue, fed, coreVars>>

\* The frontend's tick forwards what the core asked ...
Forward(f) ==
    /\ upstream[f]
    /\ upstream' = [upstream EXCEPT ![f] = FALSE]
    /\ AskHost(f)
    /\ UNCHANGED <<publisherVars, hostVars, channel, live, have, queue, held, fed, coreVars,
                   turns>>

\* ... and asks again while there is no picture (FIRST_SNAPSHOT_RETRY).
AskAgain(f) ==
    /\ ~applied[f]
    /\ Turn
    /\ AskHost(f)
    /\ UNCHANGED <<publisherVars, hostVars, channel, live, feederVars, coreVars>>

\* SNAPSHOT_REQUEST_INTERVAL passes, in the slot or in the feeder.
IntervalPasses(f) ==
    /\ \/ asked[f] /\ asked' = [asked EXCEPT ![f] = FALSE] /\ UNCHANGED held
       \/ held[f] /\ held' = [held EXCEPT ![f] = FALSE] /\ UNCHANGED asked
    /\ UNCHANGED <<publisherVars, hostVars, channel, live, requests, have, queue, upstream,
                   fed, coreVars, turns>>

-----------------------------------------------------------------------------

Next ==
    \/ EmulateFrame \/ PublishPending \/ HandleCommand \/ StartRecording \/ ReplaceCore
    \/ NoteRequesters \/ CommandSnapshot
    \/ \E f \in Follower :
        \/ RequestArrives(f)
        \/ \E k \in 1..MaxTurns : ReceiveStream(f, k)
        \/ ReceiveSnapshot(f)
        \/ Pop(f) \/ Loaded(f) \/ LoadFails(f) \/ CoreAsks(f)
        \/ Forward(f) \/ AskAgain(f) \/ IntervalPasses(f)

Spec == Init /\ [][Next]_vars

\* The threads, the ticks and the network carry on; nobody has to play, ask or
\* fail, and no interval has to pass.
Fairness ==
    /\ WF_vars(PublishPending) /\ WF_vars(HandleCommand)
    /\ WF_vars(NoteRequesters) /\ WF_vars(CommandSnapshot)
    /\ \A f \in Follower :
        /\ WF_vars(RequestArrives(f))
        /\ WF_vars(ReceiveStream(f, 1) \/ ReceiveSnapshot(f))
        /\ WF_vars(Forward(f))

FairSpec == Spec /\ Fairness

-----------------------------------------------------------------------------
(* Properties.                                                             *)

Message == [kind : {"snapshot", "stream"}, first : Nat, lineage : Nat]

PublisherTypes ==
    /\ frame \in Nat /\ nextFirst \in Nat /\ lineage \in Nat /\ published \in 0..lineage
    /\ snapPending \in BOOLEAN /\ commands \in Nat
    /\ requesters \in Seq(Follower) /\ missed \subseteq Follower

LaneTypes ==
    /\ forwarding \in BOOLEAN /\ coalescer \subseteq Follower
    /\ channel \in [Follower -> Seq(Message)]

SlotTypes ==
    /\ live \in [Follower -> Nat \union {Awaiting}]
    /\ asked \in [Follower -> BOOLEAN]
    /\ requests \in [Follower -> Nat]

FeederTypes ==
    /\ have \in [Follower -> BOOLEAN]
    /\ queue \in [Follower -> Seq(Message)]
    /\ held \in [Follower -> BOOLEAN]
    /\ upstream \in [Follower -> BOOLEAN]
    /\ fed \in [Follower -> Nat]

CoreTypes ==
    /\ loading \in [Follower -> BOOLEAN]
    /\ applied \in [Follower -> BOOLEAN]

Types == PublisherTypes /\ LaneTypes /\ SlotTypes /\ FeederTypes /\ CoreTypes

\* The types, and the cap on a feeder's queue.
TypeOK == Types /\ \A f \in Follower : FramesQueued(f) <= MaxQueued

\* The follower's request is with the network or the publisher, or the
\* snapshot that answers it is on its way.
Asking(f) ==
    \/ requests[f] > 0
    \/ f \in coalescer
    \/ f \in ToSet(requesters)
    \/ \E i \in DOMAIN channel[f] : channel[f][i].kind = "snapshot"

\* Whoever has nothing to play (an overflow, a gap, a state that would not
\* load) has asked: neither rate limit ever swallows a request while no other
\* request of the same follower stands. Nothing would ask again.
NobodyForgotten ==
    \A f \in Follower : live[f] = Awaiting \/ ~have[f] => upstream[f] \/ Asking(f)

\* ... and gets a snapshot, as often as it needs one, however the requests of several
\* followers and the publisher's own reasons for a snapshot are folded into one.
Recovers ==
    \A f \in Follower : []<>(live[f] # Awaiting /\ have[f])

\* A requester that has been noted is answered: a snapshot command is always
\* still to come while anybody waits in pending_requesters.
RequestersServed ==
    requesters # <<>> => snapPending \/ commands > 0 \/ forwarding

\* A follower of another lineage than what is being published finds out: when it has
\* received everything, it is not waiting for the very frame that will come next, so the
\* next Stream message is a gap. The one exception: a restart (another core or a new
\* recording, of a console still at its first frame) that begins at the number that was
\* due anyway, while its snapshot goes to a lone requester.
GapIsNoticed ==
    \A f \in Follower :
        channel[f] = <<>> /\ live[f] = nextFirst => fed[f] = published \/ f \in missed
=============================================================================
