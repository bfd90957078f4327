---------------------------- MODULE LinkLockstep ----------------------------
(***************************************************************************)
(* Two linked consoles run on two machines (supershuckie-core, link.rs).   *)
(*                                                                         *)
(* Each machine runs both consoles: its own player's, and a copy of the    *)
(* partner's lent to the same thread. What crosses the network are the     *)
(* events of each frame (the input, RAM writes, resets), scheduled Delay   *)
(* frames ahead, and hashes of the pair. Machine m's own console is m: the *)
(* first or the second of the pair, by which the interleave is decided.    *)
(*                                                                         *)
(* The emulated state of a pair is everything that happened to it, in      *)
(* order (`trace`): an emulator is deterministic, so two machines hold the *)
(* same consoles just when their traces are the same, and a pair hash is   *)
(* the trace it was taken of. A console steps by one tick of its link time *)
(* and completes a frame every FrameTicks of them. Consoles that sleep in  *)
(* a transfer (the Game Boy Advance's coordinator) are not modelled, nor   *)
(* are clocks, audio, and what is recorded and streamed meanwhile.         *)
(***************************************************************************)
EXTENDS Integers, Sequences, SequencesExt, FiniteSets, Functions

CONSTANTS
    Delay,       \* LinkSettings::delay_frames, as both machines agreed
    MaxAhead,    \* MAX_INBOX_AHEAD_FRAMES
    Interval,    \* PAIR_HASH_INTERVAL_FRAMES
    Window,      \* PAIR_HASH_WINDOW
    FrameTicks,  \* ticks of link time in a frame of each console
    MaxFrames,   \* bound: link frames either console completes
    MaxTurns     \* bound: presses, writes, resets, pauses and strays, together

Console == {"first", "second"}
Machine == Console
Other(m) == IF m = "first" THEN "second" ELSE "first"

ASSUME DelayAssumption == Delay \in Nat \ {0}
ASSUME WindowsAssumption ==
    MaxAhead \in Nat /\ Interval \in Nat \ {0} /\ Window \in Nat \ {0}
ASSUME TicksAssumption == FrameTicks \in [Console -> Nat \ {0}]
\* A hash is sent before the next one is due, and remembered until the partner's comes
\* (a hash every 60 frames and 8 of them, where the delay is 15 frames at most).
ASSUME HashesAssumption ==
    \A m \in Machine : /\ Interval * FrameTicks["first"] >= FrameTicks[m]
                       /\ Window * Interval * FrameTicks["first"] >= (Delay + 1) * FrameTicks[m]
\* An inbox holds what can be sent ahead of it (600 frames where the delay is 15 at
\* most, and the frames of both are about as long).
ASSUME AheadAssumption ==
    \A m \in Machine : MaxAhead * FrameTicks[m] + 1 >=
                         2 * Delay * FrameTicks[m] + (Delay + 1) * FrameTicks[Other(m)]
ASSUME LockstepBoundsAssumption ==
    MaxFrames \in Nat /\ MaxTurns \in Nat

VARIABLES
    link,     \* LinkState of each machine, with the phase its thread is in
    partner,  \* LinkPartnerState and LinkInbox of each machine
    time,     \* link time of both consoles on each machine
    trace,    \* what happened to the pair on each machine
    pad,      \* the input each player holds
    paused,   \* the players who paused
    net,      \* what is on its way to each machine
    turns     \* how many of the bounded things happened

vars == <<link, partner, time, trace, pad, paused, net, turns>>

Frame(m, k) == time[m][k] \div FrameTicks[k]
MidFrame(m, k) == time[m][k] % FrameTicks[k] # 0

\* What a console held when the cable went in: known to both machines.
HeldInput == "held"
Pads == {HeldInput, "pressed"}

\* f with v at x, whether or not x is in its domain.
Put(f, x, v) == [y \in DOMAIN f \union {x} |-> IF y = x THEN v ELSE f[y]]

\* The queue filled at the plug-in for the first Delay frames.
Prefill == [f \in 0..(Delay - 1) |-> <<HeldInput>>]

TakeTurn == turns < MaxTurns /\ turns' = turns + 1

LinkIn(phase, failure) ==
    [phase |-> phase, failure |-> failure, queue |-> Prefill, nextSend |-> Delay,
     prepared |-> FALSE, computed |-> <<>>, received |-> {}, pending |-> {}, due |-> {}]

NoFrames == [frames |-> <<>>, applied |-> 0, ended |-> FALSE]

Init ==
    /\ link = [m \in Machine |-> LinkIn("starting", "none")]
    /\ partner = [m \in Machine |-> NoFrames]
    /\ time = [m \in Machine |-> [k \in Console |-> 0]]
    /\ trace = [m \in Machine |-> <<>>]
    /\ pad = [m \in Machine |-> HeldInput]
    /\ paused = {}
    /\ net = [m \in Machine |-> <<>>]
    /\ turns = 0

-----------------------------------------------------------------------------
(* Scheduling and sending.                                                 *)

Scheduled(l, f) == IF f \in DOMAIN l.queue THEN l.queue[f] ELSE <<>>

\* A mutant of the next definition: an event joins the frame sent last.
ScheduleLate(l, event) ==
    LET f == l.nextSend - 1
    IN  [l EXCEPT !.queue = Put(@, f, Append(Scheduled(l, f), event))]

\* LinkState::schedule: resets go before the input and the writes.
Schedule(l, event) ==
    LET there == Scheduled(l, l.nextSend)
    IN  [l EXCEPT !.queue = Put(@, l.nextSend, IF event = "reset" THEN <<event>> \o there
                                                                ELSE Append(there, event))]

\* What link_prepare_local_frame sends: the frame's fresh input goes last.
Outgoing(l, input) == Append(Scheduled(l, l.nextSend), input)

\* A mutant of the next definition: pair hashes stay at home.
FrameWithoutHash(l, input) ==
    [kind |-> "frame", frame |-> l.nextSend, events |-> Outgoing(l, input), hash |-> {}]

FrameMessage(l, input) ==
    [kind |-> "frame", frame |-> l.nextSend, events |-> Outgoing(l, input), hash |-> l.pending]
Plain(kind) == [kind |-> kind]

\* ...and what it leaves of the queue, once the frame about to run is taken.
AfterSending(l, input, frame) ==
    LET sent == Put(l.queue, l.nextSend, Outgoing(l, input))
    IN  [l EXCEPT !.queue = Restrict(sent, DOMAIN sent \ {frame}),
                  !.nextSend = @ + 1, !.pending = {}, !.prepared = TRUE]

-----------------------------------------------------------------------------
(* Pair hashes.                                                            *)

KeepNewest(s) == IF Len(s) > Window THEN SubSeq(s, Len(s) - Window + 1, Len(s)) ELSE s

\* The same of received_hashes, which come in the order of their frames.
Newest(hashes) == {h \in hashes : Cardinality({g \in hashes : g.frame > h.frame}) < Window}

Known(l, h) == \E i \in DOMAIN l.computed : l.computed[i].frame = h.frame

Mismatch(l) ==
    \E h \in l.received, i \in DOMAIN l.computed :
        h.frame = l.computed[i].frame /\ h.of # l.computed[i].of

\* link_match_hashes: what has met a computed hash is dropped, and what is older
\* than any this machine remembers.
Unmatched(l) ==
    LET oldest == IF l.computed = <<>> THEN 0 ELSE l.computed[1].frame
    IN  [l EXCEPT !.received = Newest({h \in @ : ~Known(l, h) /\ h.frame >= oldest})]

\* link_note_computed_hash, for the hash that is due if there is one.
WithComputed(l, of) ==
    IF l.due = {} THEN l
    ELSE LET hash == [frame |-> CHOOSE f \in l.due : TRUE, of |-> of]
         IN  [l EXCEPT !.pending = {hash}, !.due = {},
                       !.computed = KeepNewest(Append(@, hash))]

WithReceived(l, hashes) == [l EXCEPT !.received = @ \union hashes]

\* link_first_frame_completed, after a step of console k to time t.
WithDue(l, k, t) ==
    LET frame == t \div FrameTicks["first"]
    IN  IF k = "first" /\ t % FrameTicks[k] = 0 /\ frame % Interval = 0
        THEN [l EXCEPT !.due = {frame}] ELSE l

-----------------------------------------------------------------------------
(* SuperShuckieCore::run_linked, one turn of its loop an action.           *)

\* second_runs_next: the console that is behind, the first on a tie.
NextConsole(m) == IF time[m]["second"] < time[m]["first"] THEN "second" ELSE "first"

Runs(m, k) ==
    /\ link[m].phase = "running"
    /\ m \notin paused
    /\ NextConsole(m) = k
    /\ Frame(m, k) < MaxFrames

\* A mutant of the next definition: the hash is taken at once, before the second
\* console has caught up where it is the local one's turn.
HashedAtOnce(m) ==
    IF NextConsole(m) = m THEN WithComputed(link[m], trace[m]) ELSE link[m]

\* A hash that is due is taken right before the first console steps again. The check
\* of it there fails nowhere: the partner's hash for the frame comes with a later frame
\* (a conjunct of DivergenceCaught).
Hashed(m) == IF NextConsole(m) = "first" THEN WithComputed(link[m], trace[m]) ELSE link[m]

\* The link ends on machine m (end_link, unlink_cable): what was scheduled is
\* dropped, what still arrives has nowhere to go, and the partner is told.
Ends(m, failure, told) ==
    /\ link' = [link EXCEPT ![m] = LinkIn("ended", failure)]
    /\ partner' = [partner EXCEPT ![m] = NoFrames]
    /\ net' = [net EXCEPT ![m] = <<>>, ![Other(m)] = @ \o told]

\* A mutant of the next definition: the partner is not told.
FailsQuietly(m, failure) == Ends(m, failure, <<>>)

Fails(m, failure) == Ends(m, failure, <<Plain("unlink")>>)

\* Console k of machine m steps; `applied` is what was applied to it before.
Step(m, k, applied) ==
    /\ time' = [time EXCEPT ![m][k] = @ + 1]
    /\ trace' = [trace EXCEPT ![m] = @ \o applied \o <<[console |-> k, step |-> TRUE]>>]

CompletesFrame(m, k) == (time[m][k] + 1) % FrameTicks[k] = 0

Applied(k, events) == <<[console |-> k, events |-> events]>>

\* A paced console whose frame is not due is prepared, and does not step.
LocalTurn(m) ==
    /\ Runs(m, m)
    /\ LET matched == Unmatched(Hashed(m))
           prepares == ~MidFrame(m, m) /\ ~matched.prepared
           frame == Frame(m, m)
           l == IF prepares THEN AfterSending(matched, pad[m], frame) ELSE matched
           applied == IF prepares /\ Scheduled(matched, frame) # <<>>
                      THEN Applied(m, Scheduled(matched, frame)) ELSE <<>>
       IN  /\ net' = IF prepares
                     THEN [net EXCEPT ![Other(m)] = Append(@, FrameMessage(matched, pad[m]))]
                     ELSE net
           /\ \/ /\ Step(m, m, applied)
                 /\ link' = [link EXCEPT ![m] =
                       [WithDue(l, m, time'[m][m]) EXCEPT !.prepared = @ /\ ~CompletesFrame(m, m)]]
              \/ /\ ~MidFrame(m, m)
                 /\ trace' = [trace EXCEPT ![m] = @ \o applied]
                 /\ link' = [link EXCEPT ![m] = l]
                 /\ UNCHANGED time
    /\ UNCHANGED <<partner, pad, paused, turns>>

\* The partner's console steps, within a frame whose events were applied.
PartnerContinues(m) ==
    /\ Runs(m, Other(m))
    /\ MidFrame(m, Other(m))
    /\ Step(m, Other(m), <<>>)
    /\ link' = [link EXCEPT ![m] = WithDue(Unmatched(Hashed(m)), Other(m), time'[m][Other(m)])]
    /\ UNCHANGED <<partner, pad, paused, net, turns>>

\* A mutant of the next definition: the frame after the one taken is moot too.
TakenTooMany(inbox, frame) ==
    [inbox EXCEPT !.frames = Restrict(@, {f \in DOMAIN @ : f > frame + 1}), !.applied = frame + 1]

\* LinkInbox::take.
Taken(inbox, frame) ==
    [inbox EXCEPT !.frames = Restrict(@, {f \in DOMAIN @ : f > frame}), !.applied = frame + 1]

\* link_prepare_partner_frame found the events of the partner's next frame, and
\* the console steps: or the hash that came with them does not match.
PartnerBegins(m) ==
    LET k == Other(m)
        frame == Frame(m, k)
        filled == frame < Delay
        arrived == partner[m].frames[frame]
        events == IF filled THEN <<HeldInput>> ELSE arrived.events
        hashes == IF filled THEN {} ELSE arrived.hash
        l == WithReceived(Unmatched(Hashed(m)), hashes)
        p == IF filled THEN partner[m] ELSE Taken(partner[m], frame)
    IN  /\ Runs(m, k)
        /\ ~MidFrame(m, k)
        /\ filled \/ frame \in DOMAIN partner[m].frames
        /\ IF Mismatch(l)
           THEN /\ Fails(m, "mismatch")
                /\ trace' = [trace EXCEPT ![m] = @ \o Applied(k, events)]
                /\ UNCHANGED time
           ELSE /\ Step(m, k, Applied(k, events))
                /\ link' = [link EXCEPT ![m] =
                             WithDue(IF hashes = {} THEN l ELSE Unmatched(l), k, time'[m][k])]
                /\ partner' = [partner EXCEPT ![m] = p]
                /\ UNCHANGED net
        /\ UNCHANGED <<pad, paused, turns>>

\* The partner's next frame is not there.
Starved(m) ==
    /\ Runs(m, Other(m))
    /\ ~MidFrame(m, Other(m))
    /\ Frame(m, Other(m)) >= Delay
    /\ Frame(m, Other(m)) \notin DOMAIN partner[m].frames

\* LinkRunOutcome::Stalled: only the hash that was due is taken.
Stall(m) ==
    /\ Starved(m)
    /\ ~partner[m].ended
    /\ link' = [link EXCEPT ![m] = Unmatched(Hashed(m))]
    /\ UNCHANGED <<partner, time, trace, pad, paused, net, turns>>

PartnerEnded(m) ==
    /\ Starved(m)
    /\ partner[m].ended
    /\ Fails(m, "partner ended")
    /\ UNCHANGED <<time, trace, pad, paused, turns>>

\* LINK_STALL_TIMEOUT is two minutes: what a partner who runs sends arrives long
\* before.
StallTimesOut(m) ==
    /\ Starved(m)
    /\ ~partner[m].ended
    /\ Other(m) \in paused
    /\ Fails(m, "timeout")
    /\ UNCHANGED <<time, trace, pad, paused, turns>>

-----------------------------------------------------------------------------
(* The network, the players, and the rest of the program.                  *)

\* run_one_linked brought the lent follower to the agreed frame: begin_link.
PlugIn(m) ==
    /\ link[m].phase = "starting"
    /\ link' = [link EXCEPT ![m].phase = "running"]
    /\ UNCHANGED <<partner, time, trace, pad, paused, net, turns>>

\* A mutant of the next definition: the frame that is due counts as run.
PushedUnlessDue(inbox, msg) ==
    IF msg.frame <= inbox.applied \/ msg.frame > inbox.applied + MaxAhead THEN inbox
    ELSE [inbox EXCEPT !.frames = Put(@, msg.frame, msg)]

\* LinkInbox::push.
Pushed(inbox, msg) ==
    IF msg.frame < inbox.applied \/ msg.frame > inbox.applied + MaxAhead THEN inbox
    ELSE [inbox EXCEPT !.frames = Put(@, msg.frame, msg)]

\* The reader thread pushes a frame into the inbox, and ends it when the partner
\* has left; the application unplugs when the partner has.
Deliver(m) ==
    /\ net[m] # <<>>
    /\ LET msg == Head(net[m])
           arrives == /\ net' = [net EXCEPT ![m] = Tail(@)]
                      /\ UNCHANGED link
       IN  CASE link[m].phase = "ended" -> arrives /\ UNCHANGED partner
             [] OTHER ->
                CASE msg.kind = "frame" ->
                       arrives /\ partner' = [partner EXCEPT ![m] = Pushed(@, msg)]
                  [] msg.kind = "left" ->
                       arrives /\ partner' = [partner EXCEPT ![m].ended = TRUE]
                  [] msg.kind = "unlink" -> Ends(m, "none", <<>>)
    /\ UNCHANGED <<time, trace, pad, paused, turns>>

\* PeerLeft reaches the application.
HearLeft(m) ==
    /\ partner[m].ended
    /\ Ends(m, "none", <<>>)
    /\ UNCHANGED <<time, trace, pad, paused, turns>>

\* The player pulls the cable, or the follower did not reach the agreed frame.
Unplug(m) ==
    /\ link[m].phase # "ended"
    /\ Fails(m, "none")
    /\ UNCHANGED <<time, trace, pad, paused, turns>>

\* Machine m leaves the session, or its connection does.
Leave(m) ==
    /\ link[m].phase # "ended"
    /\ Ends(m, "none", <<Plain("left")>>)
    /\ UNCHANGED <<time, trace, pad, paused, turns>>

Press(m) ==
    /\ link[m].phase # "ended"
    /\ TakeTurn
    /\ \E input \in Pads \ {pad[m]} : pad' = [pad EXCEPT ![m] = input]
    /\ UNCHANGED <<link, partner, time, trace, paused, net>>

\* A write made while the console is held waits for the plug-in, which schedules
\* it: as if it had been made just after. A reset is ignored while held.
WriteOrReset(m) ==
    /\ \E event \in {"write", "reset"} :
        /\ link[m].phase \in (IF event = "write" THEN {"starting", "running"} ELSE {"running"})
        /\ link' = [link EXCEPT ![m] = Schedule(@, event)]
    /\ TakeTurn
    /\ UNCHANGED <<partner, time, trace, pad, paused, net>>

Pause(m) ==
    /\ m \notin paused /\ link[m].phase # "ended"
    /\ TakeTurn
    /\ paused' = paused \union {m}
    /\ UNCHANGED <<link, partner, time, trace, pad, net>>

Resume(m) ==
    /\ m \in paused
    /\ paused' = paused \ {m}
    /\ UNCHANGED <<link, partner, time, trace, pad, net, turns>>

\* Something other than the link changes a console on one machine, and not in the same
\* way on the other.
Stray(m) ==
    /\ link[m].phase = "running"
    /\ TakeTurn
    /\ trace' = [trace EXCEPT ![m] = Append(@, [stray |-> Frame(m, "first"), on |-> m])]
    /\ UNCHANGED <<link, partner, time, pad, paused, net>>

-----------------------------------------------------------------------------

\* The thread's next step, unless it waits.
ThreadStep(m) ==
    \/ PlugIn(m)
    \/ LocalTurn(m)
    \/ PartnerContinues(m)
    \/ PartnerBegins(m)
    \/ PartnerEnded(m)
    \/ StallTimesOut(m)

Next == \E m \in Machine :
    \/ ThreadStep(m)
    \/ Stall(m)
    \/ Deliver(m)
    \/ HearLeft(m)
    \/ Unplug(m)
    \/ Leave(m)
    \/ Press(m)
    \/ WriteOrReset(m)
    \/ Pause(m)
    \/ Resume(m)
    \/ Stray(m)

Spec == Init /\ [][Next]_vars

\* The core threads and the network run, and a frame that is not due comes due:
\* a console steps, or the phase changes. No player has to resume.
Fairness == \A m \in Machine :
    /\ WF_vars(ThreadStep(m) /\ (time' # time \/ link'[m].phase # link[m].phase))
    /\ WF_vars(Deliver(m) \/ HearLeft(m))

FairSpec == Spec /\ Fairness

-----------------------------------------------------------------------------
(* Properties.                                                             *)

Strays(m) == {i \in DOMAIN trace[m] : "stray" \in DOMAIN trace[m][i]}
Strayed == \E m \in Machine : Strays(m) # {}

\* Both machines run the pair from identical inputs: unless something else than
\* the link changed a console, what happened on one machine is the beginning of
\* what happened on the other, console by console and event by event.
InStep ==
    ~Strayed => \/ IsPrefix(trace["first"], trace["second"])
                \/ IsPrefix(trace["second"], trace["first"])

\* The pair is only declared to have diverged when it has: both machines take
\* their hashes at the same point of the interleave.
MismatchMeansStray ==
    \A m \in Machine : link[m].failure = "mismatch" => Strayed

\* A frame sent and still needed is on its way or in the inbox: none is dropped
\* for being old or far ahead, so a pair that runs is never starved for good.
Needed(m) == Frame(m, Other(m)) + (IF MidFrame(m, Other(m)) THEN 1 ELSE 0)
NothingDropped ==
    \A m \in Machine : link[m].phase # "ended" =>
        \A f \in Delay..(link[Other(m)].nextSend - 1) :
            f < Needed(m) \/ f \in DOMAIN partner[m].frames
            \/ \E i \in DOMAIN net[m] : net[m][i].kind = "frame" /\ net[m][i].frame = f

\* A divergence is caught at the next pair hash, which meets the other machine's
\* within the delay, when that comes: no machine runs on, and none finds the mismatch
\* on its own.
Longest == IF FrameTicks["first"] < FrameTicks["second"] THEN FrameTicks["second"]
                                                          ELSE FrameTicks["first"]
DivergenceCaught ==
    /\ \A m \in Machine : link[m].phase = "running" => ~Mismatch(Hashed(m))
    /\ \A m, s \in Machine : \A i \in Strays(s) : link[m].phase = "running" =>
            LET hashed == (trace[s][i].stray \div Interval + 1) * Interval
            IN  time[m]["first"] <= hashed * FrameTicks["first"] + (Delay + 1) * Longest

\* The pair's hashes tell the truth and all of it: only a pair that has diverged is
\* declared to, and one that has is, in time.
HashesTell == MismatchMeansStray /\ DivergenceCaught

AllDone == \A m \in Machine : Frame(m, NextConsole(m)) = MaxFrames

\* The machines never wait for each other for good: unless a player stays paused
\* or the link ends, the pair runs on.
KeepsGoing ==
    []<>(paused # {} \/ AllDone \/ \E m \in Machine : link[m].phase = "ended")

\* An end that comes out on one machine comes out on the other, paused or not.
BothEnd ==
    []<>(link["first"].phase = "ended" <=> link["second"].phase = "ended")

\* Whatever the threads and messages do, both machines get somewhere: on, or to the
\* end, together.
NeverStuck == KeepsGoing /\ BothEnd
=============================================================================
