----------------------------- MODULE CoreLending -----------------------------
(***************************************************************************)
(* Two emulator threads and the application that drives them               *)
(* (supershuckie-core, thread.rs).                                         *)
(*                                                                         *)
(* "own" runs the player's game, "follower" a copy of another player's.    *)
(* The application holds a wrapper of each: a queue of commands that are   *)
(* sent and forgotten, or called and waited for. To link the two, the      *)
(* follower's loop is lent: it travels to the application, from there in   *)
(* a Link command to the own thread, and home through a channel when the   *)
(* link ends. Meanwhile the follower's thread forwards its commands to     *)
(* whoever holds the loop. What the consoles do while linked is            *)
(* LinkLockstep's; here the pair just runs or fails.                       *)
(*                                                                         *)
(* The application is the frontend (play_together/link.rs): it holds the   *)
(* own console, lends and links, and unlinks before it closes anything.    *)
(***************************************************************************)
EXTENDS Integers, Sequences, SequencesExt, FiniteSets

CONSTANTS
    MaxCommands,  \* bound: commands the application sends
    MaxDeaths     \* bound: panics of the own thread

ASSUME LendingBoundsAssumption == MaxCommands \in Nat /\ MaxDeaths \in Nat

Thread == {"own", "follower"}
Ticket == 1..MaxCommands

\* ThreadCommand. "run" is any command the loop itself handles.
Op == {"run", "hold", "release", "lend", "link", "unlink", "close"}
Command == [ticket : Ticket, op : Op]

VARIABLES
    queue,     \* the wrappers' command channels
    pc,        \* where each thread is in its code
    hasLoop,   \* the follower thread has its loop (loop_ is Some)
    pending,   \* pending_command of the follower's thread, or <<>>
    forward,   \* the channel of forwarded commands: its items, and if it is open
    returned,  \* the channel home: loops on their way, with then_close, and if open
    own,       \* the own thread: held, its link, the shared LinkStatus
    app,       \* the application: what it waits for and where the link stands for it
    sent,      \* commands sent
    handled,   \* tickets of the follower's commands its loop handled, in order
    lost,      \* tickets of its commands dropped unhandled while both threads live
    deaths     \* panics of the own thread

vars == <<queue, pc, hasLoop, pending, forward, returned, own, app, sent,
          handled, lost, deaths>>

Link == {"none", "starting", "running"}
Status == {"idle", "holding", "starting", "linked", "failed"}
Phase == {"idle", "held", "carrying", "plugged"}
Answer == {"none", "ok", "refused", "dropped"}

TypeOK ==
    /\ queue \in [Thread -> Seq(Command)]
    /\ pc \in [own : {"commands", "forwarded", "step", "ending", "ended"},
               follower : {"commands", "forwarding", "checking", "awaiting", "ended"}]
    /\ hasLoop \in BOOLEAN
    /\ pending \in Seq(Command) /\ Len(pending) <= 1
    /\ forward \in [items : Seq(Command), open : BOOLEAN]
    /\ returned \in [items : Seq(BOOLEAN), open : BOOLEAN]
    /\ own \in [held : BOOLEAN, link : Link, status : Status, after : Status, reply : 0..MaxCommands]
    /\ app \in [waits : 0..MaxCommands, on : Thread, op : Op, answer : Answer,
                phase : Phase, alive : [Thread -> BOOLEAN], closed : SUBSET Thread]
    /\ sent \in 0..MaxCommands
    /\ handled \in Seq(Ticket)
    /\ lost \in SUBSET Ticket
    /\ deaths \in 0..MaxDeaths

Init ==
    /\ queue = [t \in Thread |-> <<>>]
    /\ pc = [own |-> "commands", follower |-> "commands"]
    /\ hasLoop = TRUE
    /\ pending = <<>>
    /\ forward = [items |-> <<>>, open |-> FALSE]
    /\ returned = [items |-> <<>>, open |-> FALSE]
    /\ own = [held |-> FALSE, link |-> "none", status |-> "idle", after |-> "idle", reply |-> 0]
    /\ app = [waits |-> 0, on |-> "own", op |-> "run", answer |-> "none", phase |-> "idle",
              alive |-> [t \in Thread |-> TRUE], closed |-> {}]
    /\ sent = 0
    /\ handled = <<>>
    /\ lost = {}
    /\ deaths = 0

Tickets(items) == {c.ticket : c \in ToSet(items)}

\* The reply of ticket t comes to whoever waits for it; a command dropped with
\* its reply channel answers "dropped". (Drop waits for the thread, not a reply.)
Answered(a, t, answer) == IF a.waits = t /\ t # 0 THEN [a EXCEPT !.answer = answer] ELSE a
Dropped(a, items) == IF a.waits \in Tickets(items) /\ a.op # "close" THEN [a EXCEPT !.answer = "dropped"] ELSE a

(***************************************************************************)
(* The application's thread: it does one thing at a time                   *)
(***************************************************************************)

Free == app.waits = 0

\* ThreadedSuperShuckieCore::send.
Put(t, op, a) ==
    /\ sent < MaxCommands
    /\ sent' = sent + 1
    /\ IF pc[t] = "ended"
       THEN /\ app' = [a EXCEPT !.alive[t] = FALSE]
            /\ UNCHANGED queue
       ELSE /\ app' = a
            /\ queue' = [queue EXCEPT ![t] = Append(@, [ticket |-> sent + 1, op |-> op])]
    /\ UNCHANGED <<pc, hasLoop, pending, forward, returned, own, handled, lost, deaths>>

\* ThreadedSuperShuckieCore::call: send, then wait for the reply.
CallFrom(t, op, a) ==
    Put(t, op, IF pc[t] = "ended" THEN a
               ELSE [a EXCEPT !.waits = sent + 1, !.on = t, !.op = op, !.answer = "none"])

Open(t) == Free /\ t \notin app.closed

\* Any command of the follower's wrapper: its RAM, audio, recording.
Send == Open("follower") /\ Put("follower", "run", app)
Call == Open("follower") /\ app.phase # "carrying" /\ CallFrom("follower", "run", app)

\* hold_for_link.
Hold ==
    /\ Open("own") /\ app.phase = "idle"
    /\ CallFrom("own", "hold", app)

\* unlink_cable before the loop was lent, or when it could not be.
Release ==
    /\ Open("own") /\ app.phase = "held"
    /\ CallFrom("own", "release", [app EXCEPT !.phase = "idle"])

\* plug_in: lend, then link with what was lent, at once.
Lend ==
    /\ Open("own") /\ Open("follower") /\ app.phase = "held"
    /\ CallFrom("follower", "lend", app)

LinkTogether ==
    /\ Free /\ app.phase = "carrying"
    /\ sent < MaxCommands
    /\ LET plugged == [app EXCEPT !.phase = "plugged"] IN
       IF pc["own"] # "ended"
       THEN Put("own", "link", plugged)
       ELSE \* The command is dropped unsent, and the lent loop with it.
            /\ sent' = sent + 1
            /\ app' = Dropped([plugged EXCEPT !.alive["own"] = FALSE], forward.items)
            /\ forward' = [items |-> <<>>, open |-> FALSE]
            /\ returned' = [returned EXCEPT !.open = FALSE]
            /\ UNCHANGED <<queue, pc, hasLoop, pending, own, handled, lost, deaths>>

\* unlink_cable of a cable plugged in: blocking, whatever became of the link.
Unlink ==
    /\ Open("own") /\ app.phase = "plugged"
    /\ CallFrom("own", "unlink", [app EXCEPT !.phase = "idle"])

\* Drop: Close, then wait for the thread to say it finished. A follower is
\* unlinked first, unless its wrapper is found dead or all of it is closing.
Drop(t) ==
    /\ Open(t) /\ app.phase # "carrying"
    /\ t = "follower" =>
        app.phase \in {"idle", "held"} \/ ~app.alive[t] \/ "own" \in app.closed
    /\ LET closing == [app EXCEPT !.closed = @ \cup {t}] IN
       CallFrom(t, "close", closing)

\* The reply (or its absence) reaches the application, which goes on.
GoOn ==
    /\ ~Free /\ app.answer # "none"
    /\ LET back == [app EXCEPT !.waits = 0, !.answer = "none",
                               !.alive[app.on] = @ /\ app.answer # "dropped"] IN
       app' = IF app.answer # "ok" THEN back
              ELSE [back EXCEPT !.phase = CASE app.op = "hold" -> "held"
                                            [] app.op = "lend" -> "carrying"
                                            [] OTHER -> @]
    /\ UNCHANGED <<queue, pc, hasLoop, pending, forward, returned, own, sent, handled, lost, deaths>>

\* receiver_close of Drop: sent when the thread finishes.
Closed(a, t) == IF a.waits # 0 /\ a.on = t /\ a.op = "close" THEN [a EXCEPT !.answer = "ok"] ELSE a

(***************************************************************************)
(* The follower's thread                                                   *)
(***************************************************************************)

\* finish, or finish_without_loop: what is still queued is dropped with the thread.
FollowerFinish(left) ==
    /\ pc' = [pc EXCEPT !.follower = "ended"]
    /\ pending' = <<>>
    /\ queue' = [queue EXCEPT !.follower = <<>>]
    /\ app' = Closed(Dropped(app, left), "follower")

\* MUTANT: the command left over waits for the queue.
PendingLast ==
    IF queue.follower = <<>>
    THEN [command |-> Head(pending), pending |-> Tail(pending), queue |-> queue.follower]
    ELSE [command |-> Head(queue.follower), pending |-> pending, queue |-> Tail(queue.follower)]

\* The next command of a thread: the one left over while the loop was lent first.
Taken ==
    IF pending # <<>>
    THEN [command |-> Head(pending), pending |-> Tail(pending), queue |-> queue.follower]
    ELSE [command |-> Head(queue.follower), pending |-> <<>>, queue |-> Tail(queue.follower)]

\* run_thread of a thread that has its loop.
FollowerCommand ==
    /\ pc.follower = "commands"
    /\ pending # <<>> \/ queue.follower # <<>>
    /\ LET c == Taken.command
           rest == Taken.queue
       IN
       \/ /\ c.op = "run"
          /\ pending' = Taken.pending
          /\ queue' = [queue EXCEPT !.follower = rest]
          /\ handled' = Append(handled, c.ticket)
          /\ app' = Answered(app, c.ticket, "ok")
          /\ UNCHANGED <<pc, hasLoop, forward, returned>>
       \/ /\ c.op = "lend"
          /\ pending' = Taken.pending
          /\ queue' = [queue EXCEPT !.follower = rest]
          /\ handled' = Append(handled, c.ticket)
          /\ hasLoop' = FALSE
          /\ forward' = [items |-> <<>>, open |-> TRUE]
          /\ returned' = [items |-> <<>>, open |-> TRUE]
          /\ pc' = [pc EXCEPT !.follower = "forwarding"]
          /\ app' = Answered(app, c.ticket, "ok")
       \/ /\ c.op = "close"
          /\ FollowerFinish(rest)
          /\ hasLoop' = FALSE
          /\ handled' = Append(handled, c.ticket)
          /\ UNCHANGED <<forward, returned>>
    /\ UNCHANGED <<own, sent, lost, deaths>>

\* MUTANT: the command the borrower no longer takes is dropped.
ForwardDropsLate ==
    /\ pc.follower = "forwarding"
    /\ pc' = [pc EXCEPT !.follower = "checking"]
    /\ LET next == IF queue.follower = <<>> THEN <<>> ELSE <<Head(queue.follower)>> IN
       /\ queue' = [queue EXCEPT !.follower = IF @ = <<>> THEN @ ELSE Tail(@)]
       /\ forward' = IF forward.open THEN [forward EXCEPT !.items = @ \o next] ELSE forward
       /\ app' = IF forward.open THEN app ELSE Dropped(app, next)
    /\ UNCHANGED <<hasLoop, pending, returned, own, sent, handled, lost, deaths>>

\* forward_while_lent: take a command within LENT_POLL and pass it on.
Forward ==
    /\ pc.follower = "forwarding"
    /\ IF queue.follower = <<>>
       THEN /\ pc' = [pc EXCEPT !.follower = "checking"]
            /\ UNCHANGED <<queue, forward, pending>>
       ELSE /\ queue' = [queue EXCEPT !.follower = Tail(@)]
            /\ IF forward.open
               THEN /\ forward' = [forward EXCEPT !.items = Append(@, Head(queue.follower))]
                    /\ pc' = [pc EXCEPT !.follower = "checking"]
                    /\ UNCHANGED pending
               ELSE \* SendError gives the command back: it is ours once the loop is.
                    /\ pending' = <<Head(queue.follower)>>
                    /\ pc' = [pc EXCEPT !.follower = "awaiting"]
                    /\ UNCHANGED forward
    /\ UNCHANGED <<hasLoop, returned, own, app, sent, handled, lost, deaths>>

\* The loop comes home; its borrower may have seen a Close for this thread.
Home ==
    /\ pc.follower \in {"checking", "awaiting"}
    /\ returned.items # <<>>
    /\ returned' = [returned EXCEPT !.items = <<>>]
    /\ IF Head(returned.items)
       THEN /\ FollowerFinish(queue.follower \o pending)
            /\ UNCHANGED hasLoop
       ELSE /\ hasLoop' = TRUE
            /\ pc' = [pc EXCEPT !.follower = "commands"]
            /\ UNCHANGED <<queue, pending, app>>
    /\ UNCHANGED <<forward, own, sent, handled, lost, deaths>>

\* Nothing returned yet: back to forwarding.
StillLent ==
    /\ pc.follower = "checking"
    /\ returned.items = <<>> /\ returned.open
    /\ pc' = [pc EXCEPT !.follower = "forwarding"]
    /\ UNCHANGED <<queue, hasLoop, pending, forward, returned, own, app, sent, handled, lost, deaths>>

\* The borrower is gone with the loop, or did not return it in LINK_START_TIMEOUT.
LoopGone ==
    /\ pc.follower = "checking" => ~returned.open
    /\ pc.follower \in {"checking", "awaiting"}
    /\ returned.items = <<>>
    /\ FollowerFinish(queue.follower \o pending)
    /\ UNCHANGED <<hasLoop, forward, returned, own, sent, handled, lost, deaths>>

(***************************************************************************)
(* The own thread                                                          *)
(***************************************************************************)

\* MUTANT: the lent core is dropped with the link instead of sent home.
EndingDropsLoop(thenClose, after, reply) ==
    /\ own' = [own EXCEPT !.held = FALSE, !.link = "none", !.after = after, !.reply = reply]
    /\ pc' = [pc EXCEPT !.own = "ending"]
    /\ UNCHANGED returned

\* MUTANT: end_link does not release the console held for the link.
EndingHeld(thenClose, after, reply) ==
    /\ returned' = [returned EXCEPT !.items = Append(@, thenClose)]
    /\ own' = [own EXCEPT !.link = "none", !.after = after, !.reply = reply]
    /\ pc' = [pc EXCEPT !.own = "ending"]

\* end_link, first half: the loop goes home. Then the lent end of the two
\* channels is dropped (EndLink), the status set and the caller answered.
BeginEnding(thenClose, after, reply) ==
    /\ returned' = [returned EXCEPT !.items = Append(@, thenClose)]
    /\ own' = [own EXCEPT !.held = FALSE, !.link = "none", !.after = after, !.reply = reply]
    /\ pc' = [pc EXCEPT !.own = "ending"]

EndLink ==
    /\ pc.own = "ending"
    /\ LET a == Dropped(app, forward.items) IN
       IF own.after = "idle" /\ own.reply = 0
       THEN \* The thread was closing.
            /\ pc' = [pc EXCEPT !.own = "ended"]
            /\ queue' = [queue EXCEPT !.own = <<>>]
            /\ app' = Closed(a, "own")
       ELSE /\ pc' = [pc EXCEPT !.own = "commands"]
            /\ app' = Answered(a, own.reply, "ok")
            /\ UNCHANGED queue
    /\ lost' = lost \cup Tickets(forward.items)
    /\ forward' = [items |-> <<>>, open |-> FALSE]
    /\ returned' = [returned EXCEPT !.open = FALSE]
    /\ own' = [own EXCEPT !.status = own.after, !.reply = 0]
    /\ UNCHANGED <<hasLoop, pending, sent, handled, deaths>>

\* run_thread: one command, then, when there is none, one pass of the loop.
OwnCommand ==
    /\ pc.own = "commands" /\ queue.own # <<>>
    /\ LET c == Head(queue.own) IN
       /\ queue' = [queue EXCEPT !.own = Tail(@)]
       /\ \/ \* Refused with a replay attached, or on a console without a port.
             /\ c.op = "hold"
             /\ \/ /\ own.link = "none"
                   /\ own' = [own EXCEPT !.held = TRUE, !.status = "holding"]
                   /\ app' = Answered(app, c.ticket, "ok")
                \/ /\ app' = Answered(app, c.ticket, "refused")
                   /\ UNCHANGED own
             /\ UNCHANGED <<pc, returned>>
          \/ /\ c.op = "release"
             /\ own' = [own EXCEPT !.held = FALSE,
                                   !.status = IF own.link = "none" THEN "idle" ELSE @]
             /\ app' = Answered(app, c.ticket, "ok")
             /\ UNCHANGED <<pc, returned>>
          \/ \* begin_linking. (With one follower, there is never a link already.)
             /\ c.op = "link"
             /\ own' = [own EXCEPT !.link = "starting", !.status = "starting"]
             /\ UNCHANGED <<app, pc, returned>>
          \/ /\ c.op = "unlink" /\ own.link # "none"
             /\ BeginEnding(FALSE, "idle", c.ticket)
             /\ UNCHANGED app
          \/ /\ c.op = "unlink" /\ own.link = "none"
             /\ own' = [own EXCEPT !.status = "idle"]
             /\ app' = Answered(app, c.ticket, "ok")
             /\ UNCHANGED <<pc, returned>>
          \/ /\ c.op = "close" /\ own.link # "none"
             /\ BeginEnding(FALSE, "idle", 0)
             /\ UNCHANGED app
          \/ /\ c.op = "close" /\ own.link = "none"
             /\ pc' = [pc EXCEPT !.own = "ended"]
             /\ own' = [own EXCEPT !.status = "idle"]
             /\ app' = Closed(app, "own")
             /\ UNCHANGED returned
    /\ UNCHANGED <<hasLoop, pending, forward, sent, handled, lost, deaths>>

NoCommand ==
    /\ pc.own = "commands" /\ queue.own = <<>>
    /\ own.link # "none"
    /\ pc' = [pc EXCEPT !.own = "forwarded"]
    /\ UNCHANGED <<queue, hasLoop, pending, forward, returned, own, app, sent, handled, lost, deaths>>

\* The partner's wrapper's commands, until there are none: handled by its loop
\* here, except that Close ends the link, and lending again is refused.
Forwarded ==
    /\ pc.own = "forwarded"
    /\ IF forward.items = <<>>
       THEN /\ pc' = [pc EXCEPT !.own = "step"]
            /\ UNCHANGED <<forward, returned, own, app, handled>>
       ELSE LET c == Head(forward.items) IN
            /\ forward' = [forward EXCEPT !.items = Tail(@)]
            /\ handled' = Append(handled, c.ticket)
            /\ IF c.op = "close"
               THEN /\ BeginEnding(TRUE, "failed", 0)
                    /\ UNCHANGED app
               ELSE /\ app' = Answered(app, c.ticket, IF c.op = "lend" THEN "refused" ELSE "ok")
                    /\ UNCHANGED <<pc, returned, own>>
    /\ UNCHANGED <<queue, hasLoop, pending, sent, lost, deaths>>

\* run_one_linked: the partner is still being brought to the agreed frame, is
\* plugged in, or the pair runs or stalls; or it fails (the start timed out or
\* was refused, the stream ended, the pair diverged, stalled too long or ended).
Step ==
    /\ pc.own = "step"
    /\ \/ /\ pc' = [pc EXCEPT !.own = "commands"]
          /\ \/ UNCHANGED own
             \/ /\ own.link = "starting" /\ own.held
                /\ own' = [own EXCEPT !.link = "running", !.status = "linked", !.held = FALSE]
          /\ UNCHANGED returned
       \/ BeginEnding(FALSE, "failed", 0)
    /\ UNCHANGED <<queue, hasLoop, pending, forward, app, sent, handled, lost, deaths>>

\* The own thread panics: everything it holds is dropped, the lent loop with it.
Die ==
    /\ pc.own \in {"commands", "forwarded", "step"} /\ deaths < MaxDeaths
    /\ deaths' = deaths + 1
    /\ pc' = [pc EXCEPT !.own = "ended"]
    /\ queue' = [queue EXCEPT !.own = <<>>]
    /\ LET borrowed == own.link # "none" \/ \E i \in DOMAIN queue.own : queue.own[i].op = "link"
           gone == queue.own \o (IF borrowed THEN forward.items ELSE <<>>)
       IN
       /\ app' = Closed(Dropped(app, gone), "own")
       /\ IF borrowed
          THEN /\ forward' = [items |-> <<>>, open |-> FALSE]
               /\ returned' = [returned EXCEPT !.open = FALSE]
          ELSE UNCHANGED <<forward, returned>>
    /\ own' = [own EXCEPT !.link = "none"]
    /\ UNCHANGED <<hasLoop, pending, sent, handled, lost>>

OwnThread == OwnCommand \/ NoCommand \/ Forwarded \/ Step \/ EndLink
FollowerThread == FollowerCommand \/ Forward \/ Home \/ StillLent \/ LoopGone
Application ==
    \/ Send \/ Call \/ Hold \/ Release \/ Lend \/ LinkTogether \/ Unlink \/ GoOn
    \/ \E t \in Thread : Drop(t)

Next == OwnThread \/ FollowerThread \/ Application \/ Die

Spec == Init /\ [][Next]_vars

\* Both threads are scheduled, the follower's also while it only polls; and the
\* application picks up what it waited for. What it asks for is its own choice.
FairSpec ==
    /\ Spec
    /\ WF_vars(OwnThread) /\ WF_vars(FollowerThread)
    /\ WF_vars(GoOn) /\ WF_vars(LinkTogether)

(***************************************************************************)
(* Properties                                                              *)
(***************************************************************************)

\* Where the follower's loop is: with its thread, with the application or in
\* its Link command, beside the own loop, or on its way home.
Holders ==
    {h \in {"home", "application", "command", "link", "returned"} :
        CASE h = "home"        -> hasLoop
          [] h = "application" -> app.phase = "carrying" \/ (app.op = "lend" /\ app.answer = "ok")
          [] h = "command"     -> \E i \in DOMAIN queue.own : queue.own[i].op = "link"
          [] h = "link"        -> own.link # "none"
          [] h = "returned"    -> returned.items # <<>>}

\* Rust's ownership passes the loop through two channels and three threads: it
\* is never in two of these places, and while both threads live it is in one.
OneHolder ==
    /\ Cardinality(Holders) <= 1
    /\ pc.follower # "ended" /\ deaths = 0 => Holders # {}

\* The commands of the follower's wrapper take effect in the order they were
\* sent, through lending, forwarding, and the one left over at the return
\* (forward_while_lent's pending_command).
InOrder == \A i, j \in DOMAIN handled : i < j => handled[i] < handled[j]

\* Once the frontend is done with a cable, however that ended, its own console
\* is neither held (it would be frozen) nor linked, and nobody carries the
\* follower's loop: it is home or on its way.
LeftClean ==
    app.phase = "idle" /\ Free /\ pc.own # "ended"
        => ~own.held /\ own.link = "none" /\ Holders \subseteq {"home", "returned"}

\* The application's thread, the user interface's, is never stuck: every call
\* returns, with the answer or because the thread is gone, and so does every
\* Drop, whatever the threads lent each other and whoever died.
CallsReturn == ~Free ~> Free
=============================================================================
