------------------------- MODULE CoreLending_proofs -------------------------
(***************************************************************************)
(* What holds of CoreLending for any number of commands and of panics:     *)
(* its types; that the follower's loop is never in two hands and commands  *)
(* take effect in order; and that the application leaves its own console   *)
(* clean, neither held nor linked, whatever became of a cable.             *)
(*                                                                         *)
(* Ownership travels in the commands and in their answers, so the          *)
(* inductive invariant (LendingInv) says which commands are on their way,  *)
(* that their tickets rise along every line they wait in, and what the     *)
(* application still waits for. The application waits for every call to    *)
(* the own thread, so at most one is on its way beside a Link: what the    *)
(* last part adds to it (Tidy) says how far that call has come.            *)
(***************************************************************************)
EXTENDS CoreLending, FiniteSetTheorems, TLAPS

-----------------------------------------------------------------------------
(* Typing.                                                                 *)

\* What a nonempty sequence is made of.
LEMMA HeadTail ==
    ASSUME NEW S, NEW s \in Seq(S), s # <<>>
    PROVE  /\ Head(s) \in S /\ Tail(s) \in Seq(S)
           /\ Len(s) \in Nat \ {0} /\ Len(Tail(s)) = Len(s) - 1
           /\ Head(s) = s[1] /\ \A i \in 1..(Len(s) - 1) : Tail(s)[i] = s[i + 1]
OBVIOUS

\* The reply fields of the application keep their types.
AppTypes == [waits : 0..MaxCommands, on : Thread, op : Op, answer : Answer,
             phase : Phase, alive : [Thread -> BOOLEAN], closed : SUBSET Thread]

LEMMA Replies ==
    ASSUME NEW a \in AppTypes, NEW t, NEW answer \in Answer, NEW items, NEW thread \in Thread
    PROVE  /\ Answered(a, t, answer) \in AppTypes
           /\ Dropped(a, items) \in AppTypes
           /\ Closed(a, thread) \in AppTypes
<1>1. [a EXCEPT !.answer = answer] \in AppTypes
  BY DEF AppTypes
<1>2. [a EXCEPT !.answer = "dropped"] \in AppTypes /\ [a EXCEPT !.answer = "ok"] \in AppTypes
  BY DEF AppTypes, Answer
<1> QED
  BY <1>1, <1>2 DEF Answered, Dropped, Closed

\* send and call: the wrapper's queue and what the application waits for.
LEMMA PutTypes ==
    ASSUME TypeOK, NEW t \in Thread, NEW op \in Op, NEW a \in AppTypes, Put(t, op, a)
    PROVE  TypeOK'
<1>1. sent + 1 \in Ticket /\ sent' \in 0..MaxCommands
  BY LendingBoundsAssumption DEF Put, TypeOK, Ticket
<1>2. Append(queue[t], [ticket |-> sent + 1, op |-> op]) \in Seq(Command)
  <2>1. [ticket |-> sent + 1, op |-> op] \in Command
    BY <1>1 DEF Command
  <2>2. queue[t] \in Seq(Command)
    BY DEF TypeOK
  <2> QED
    BY <2>1, <2>2
<1>3. queue' \in [Thread -> Seq(Command)]
  BY <1>2 DEF Put, TypeOK
<1>4. app' \in AppTypes
  <2>1. [a EXCEPT !.alive[t] = FALSE] \in AppTypes
    <3>1. [a.alive EXCEPT ![t] = FALSE] \in [Thread -> BOOLEAN]
      BY DEF AppTypes
    <3> QED
      BY <3>1 DEF AppTypes
  <2>2. app' = a \/ app' = [a EXCEPT !.alive[t] = FALSE]
    BY DEF Put
  <2> QED
    BY <2>1, <2>2
<1> QED
  BY <1>1, <1>3, <1>4 DEF Put, TypeOK, AppTypes

LEMMA CallTypes ==
    ASSUME TypeOK, NEW t \in Thread, NEW op \in Op, NEW a \in AppTypes, CallFrom(t, op, a)
    PROVE  TypeOK'
<1>1. sent + 1 \in 0..MaxCommands
  BY LendingBoundsAssumption DEF CallFrom, Put, TypeOK
<1>2. [a EXCEPT !.waits = sent + 1, !.on = t, !.op = op, !.answer = "none"] \in AppTypes
  BY <1>1 DEF AppTypes, Answer
<1> QED
  BY <1>2, PutTypes DEF CallFrom

LEMMA ApplicationTypes ==
    ASSUME TypeOK, Application
    PROVE  TypeOK'
<1>1. /\ {"run", "hold", "release", "lend", "link", "unlink", "close"} = Op
      /\ Thread = {"own", "follower"}
  BY DEF Op, Thread
<1>2. app \in AppTypes
  BY DEF TypeOK, AppTypes
<1>3. \A phase \in Phase : [app EXCEPT !.phase = phase] \in AppTypes
  BY <1>2 DEF AppTypes
<1>4. CASE Send \/ Call
  BY <1>1, <1>2, <1>4, PutTypes, CallTypes DEF Send, Call
<1>5. CASE Hold \/ Lend
  BY <1>1, <1>2, <1>5, CallTypes DEF Hold, Lend
<1>6. CASE Release \/ Unlink
  BY <1>1, <1>3, <1>6, CallTypes DEF Release, Unlink, Phase
<1>7. CASE LinkTogether
  <2> DEFINE plugged == [app EXCEPT !.phase = "plugged"]
  <2>1. plugged \in AppTypes
    BY <1>3 DEF Phase
  <2>2. CASE pc["own"] # "ended"
    BY <1>1, <1>7, <2>1, <2>2, PutTypes DEF LinkTogether
  <2>3. CASE pc["own"] = "ended"
    <3>1. [plugged EXCEPT !.alive["own"] = FALSE] \in AppTypes
      BY <2>1, <1>1 DEF AppTypes
    <3>2. app' \in AppTypes
      BY <1>7, <2>3, <3>1, Replies, <1>1 DEF LinkTogether, Answer
    <3>3. sent' \in 0..MaxCommands
      BY <1>7, <2>3, LendingBoundsAssumption DEF LinkTogether, TypeOK
    <3>4. forward' \in [items : Seq(Command), open : BOOLEAN]
      <4>1. forward' = [items |-> <<>>, open |-> FALSE]
        BY <1>7, <2>3, Zenon DEF LinkTogether
      <4>2. <<>> \in Seq(Command)
        OBVIOUS
      <4> QED
        BY <4>1, <4>2
    <3>5. returned' \in [items : Seq(BOOLEAN), open : BOOLEAN]
      BY <1>7, <2>3 DEF LinkTogether, TypeOK
    <3> QED
      BY <1>7, <2>3, <3>2, <3>3, <3>4, <3>5 DEF LinkTogether, TypeOK, AppTypes
  <2> QED
    BY <2>2, <2>3
<1>8. CASE GoOn
  <2> DEFINE back == [app EXCEPT !.waits = 0, !.answer = "none",
                                 !.alive[app.on] = @ /\ app.answer # "dropped"]
  <2>1. back \in AppTypes
    <3>1. app.on \in Thread /\ 0 \in 0..MaxCommands /\ "none" \in Answer
      BY <1>2, LendingBoundsAssumption DEF AppTypes, Answer
    <3>2. [app.alive EXCEPT ![app.on] = @ /\ app.answer # "dropped"] \in [Thread -> BOOLEAN]
      BY <1>2, <3>1 DEF AppTypes
    <3> QED
      BY <1>2, <3>1, <3>2 DEF AppTypes
  <2>2. \A phase \in Phase : [back EXCEPT !.phase = phase] \in AppTypes
    BY <2>1 DEF AppTypes
  <2>3. back.phase \in Phase
    BY <2>1 DEF AppTypes
  <2>4. app' \in AppTypes
    BY <1>8, <2>1, <2>2, <2>3 DEF GoOn, Phase
  <2> QED
    BY <1>8, <2>4 DEF GoOn, TypeOK, AppTypes
<1>9. ASSUME NEW t \in Thread, Drop(t)
      PROVE  TypeOK'
  <2>1. [app EXCEPT !.closed = @ \cup {t}] \in AppTypes
    BY <1>2 DEF AppTypes
  <2> QED
    BY <1>1, <1>9, <2>1, CallTypes DEF Drop
<1> QED
  BY <1>4, <1>5, <1>6, <1>7, <1>8, <1>9 DEF Application

LEMMA FollowerTypes ==
    ASSUME TypeOK, FollowerThread
    PROVE  TypeOK'
<1> USE DEF AppTypes
<1>1. app \in AppTypes /\ "follower" \in Thread /\ {"ok", "refused"} \subseteq Answer
  BY DEF TypeOK, Thread, Answer
<1>2. /\ queue.follower \in Seq(Command) /\ pending \in Seq(Command)
      /\ forward.items \in Seq(Command) /\ handled \in Seq(Ticket)
      /\ <<>> \in Seq(Command) /\ <<>> \in Seq(BOOLEAN)
  BY <1>1 DEF TypeOK
<1>3. ASSUME NEW left, FollowerFinish(left)
      PROVE  /\ app' \in AppTypes
             /\ queue' \in [Thread -> Seq(Command)]
             /\ pending' = <<>>
             /\ pc' = [pc EXCEPT !.follower = "ended"]
  <2>1. Dropped(app, left) \in AppTypes
    BY <1>1, Replies
  <2> QED
    BY <1>1, <1>2, <1>3, <2>1, Replies DEF FollowerFinish, TypeOK
<1>4. CASE FollowerCommand
  <2> DEFINE c == Taken.command
  <2>1. c \in Command /\ Taken.pending \in Seq(Command) /\ Len(Taken.pending) <= 1
        /\ Taken.queue \in Seq(Command)
    <3>1. CASE pending # <<>>
      BY <1>2, <3>1, HeadTail DEF Taken, TypeOK
    <3>2. CASE pending = <<>>
      <4>1. queue.follower # <<>>
        BY <1>4, <3>2 DEF FollowerCommand
      <4> QED
        BY <1>2, <3>2, <4>1, HeadTail DEF Taken, TypeOK
    <3> QED
      BY <3>1, <3>2
  <2>2. c.ticket \in Ticket
    BY <2>1 DEF Command
  <2>3. Append(handled, c.ticket) \in Seq(Ticket)
    BY <1>2, <2>2
  <2>4. Answered(app, c.ticket, "ok") \in AppTypes
    BY <1>1, Replies
  <2>5. [queue EXCEPT !.follower = Taken.queue] \in [Thread -> Seq(Command)]
    BY <1>1, <2>1 DEF TypeOK
  <2>6. CASE c.op = "run"
    BY <1>4, <2>1, <2>3, <2>4, <2>5, <2>6, ZenonT(30) DEF FollowerCommand, TypeOK
  <2>7. CASE c.op = "lend"
    <3>1. /\ pending' = Taken.pending /\ queue' = [queue EXCEPT !.follower = Taken.queue]
          /\ handled' = Append(handled, c.ticket) /\ hasLoop' = FALSE
          /\ forward' = [items |-> <<>>, open |-> TRUE]
          /\ returned' = [items |-> <<>>, open |-> TRUE]
          /\ pc' = [pc EXCEPT !.follower = "forwarding"]
          /\ app' = Answered(app, c.ticket, "ok")
          /\ UNCHANGED <<own, sent, lost, deaths>>
      BY <1>4, <2>7 DEF FollowerCommand
    <3>2. /\ forward' \in [items : Seq(Command), open : BOOLEAN]
          /\ returned' \in [items : Seq(BOOLEAN), open : BOOLEAN]
      BY <1>2, <3>1
    <3> QED
      BY <2>1, <2>3, <2>4, <2>5, <3>1, <3>2 DEF TypeOK
  <2>8. CASE c.op = "close"
    <3>1. FollowerFinish(Taken.queue)
      BY <1>4, <2>8 DEF FollowerCommand
    <3>2. /\ hasLoop' = FALSE /\ handled' = Append(handled, c.ticket)
          /\ UNCHANGED <<forward, returned, own, sent, lost, deaths>>
      BY <1>4, <2>8 DEF FollowerCommand
    <3>3. /\ app' \in AppTypes /\ queue' \in [Thread -> Seq(Command)]
          /\ pending' = <<>> /\ pc' = [pc EXCEPT !.follower = "ended"]
      BY <1>3, <3>1
    <3>4. pc' \in [own : {"commands", "forwarded", "step", "ending", "ended"},
                   follower : {"commands", "forwarding", "checking", "awaiting", "ended"}]
      BY <3>3 DEF TypeOK
    <3>5. pending' \in Seq(Command) /\ Len(pending') <= 1
      BY <1>2, <3>3
    <3> QED
      BY <2>3, <3>2, <3>3, <3>4, <3>5 DEF TypeOK
  <2> QED
    BY <1>4, <2>6, <2>7, <2>8 DEF FollowerCommand
<1>5. CASE Forward
  <2>1. CASE queue.follower = <<>>
    BY <1>5, <2>1 DEF Forward, TypeOK
  <2>2. CASE queue.follower # <<>>
    <3>1. Head(queue.follower) \in Command /\ Tail(queue.follower) \in Seq(Command)
      BY <1>2, <2>2, HeadTail
    <3>2. /\ Append(forward.items, Head(queue.follower)) \in Seq(Command)
          /\ <<Head(queue.follower)>> \in Seq(Command) /\ Len(<<Head(queue.follower)>>) = 1
      BY <1>2, <3>1
    <3>3. [queue EXCEPT !.follower = Tail(queue.follower)] \in [Thread -> Seq(Command)]
      BY <1>1, <3>1 DEF TypeOK
    <3>4. /\ queue' = [queue EXCEPT !.follower = Tail(queue.follower)]
          /\ forward' \in {forward, [forward EXCEPT !.items = Append(@, Head(queue.follower))]}
          /\ pending' \in {pending, <<Head(queue.follower)>>}
          /\ pc' \in {[pc EXCEPT !.follower = "checking"], [pc EXCEPT !.follower = "awaiting"]}
          /\ UNCHANGED <<hasLoop, returned, own, app, sent, handled, lost, deaths>>
      BY <1>5, <2>2 DEF Forward
    <3>5. forward' \in [items : Seq(Command), open : BOOLEAN]
      BY <3>2, <3>4 DEF TypeOK
    <3>6. pending' \in Seq(Command) /\ Len(pending') <= 1
      <4>1. Len(pending) <= 1
        BY DEF TypeOK
      <4>2. Len(<<Head(queue.follower)>>) <= 1
        BY <3>2
      <4>3. \A s \in {pending, <<Head(queue.follower)>>} : s \in Seq(Command) /\ Len(s) <= 1
        BY <1>2, <3>2, <4>1, <4>2, Zenon
      <4> QED
        BY <3>4, <4>3, Zenon
    <3>7. pc' \in [own : {"commands", "forwarded", "step", "ending", "ended"},
                   follower : {"commands", "forwarding", "checking", "awaiting", "ended"}]
      BY <3>4 DEF TypeOK
    <3> QED
      BY <3>3, <3>4, <3>5, <3>6, <3>7 DEF TypeOK
  <2> QED
    BY <2>1, <2>2
<1>6. CASE Home
  <2>1. CASE Head(returned.items)
    <3>1. FollowerFinish(queue.follower \o pending)
      BY <1>6, <2>1 DEF Home
    <3>2. /\ returned' = [returned EXCEPT !.items = <<>>]
          /\ UNCHANGED <<hasLoop, forward, own, sent, handled, lost, deaths>>
      BY <1>6, <2>1 DEF Home
    <3>3. returned' \in [items : Seq(BOOLEAN), open : BOOLEAN]
      BY <1>2, <3>2 DEF TypeOK
    <3> QED
      BY <1>2, <1>3, <3>1, <3>2, <3>3 DEF TypeOK
  <2>2. CASE ~ Head(returned.items)
    BY <1>2, <1>6, <2>2, ZenonT(30) DEF Home, TypeOK
  <2> QED
    BY <2>1, <2>2
<1>7. CASE StillLent
  BY <1>7 DEF StillLent, TypeOK
<1>8. CASE LoopGone
  <2>1. FollowerFinish(queue.follower \o pending)
    BY <1>8 DEF LoopGone
  <2> QED
    BY <1>2, <1>3, <1>8, <2>1 DEF LoopGone, TypeOK
<1> QED
  BY <1>4, <1>5, <1>6, <1>7, <1>8 DEF FollowerThread

\* What an ending link changes.
LEMMA EndingTypes ==
    ASSUME TypeOK, NEW thenClose \in BOOLEAN, NEW after \in {"idle", "failed"},
           NEW reply \in 0..MaxCommands, BeginEnding(thenClose, after, reply)
    PROVE  /\ own' = [own EXCEPT !.held = FALSE, !.link = "none", !.after = after, !.reply = reply]
           /\ own' \in [held : BOOLEAN, link : Link, status : Status, after : Status,
                        reply : 0..MaxCommands]
           /\ pc' = [pc EXCEPT !.own = "ending"]
           /\ pc' \in [own : {"commands", "forwarded", "step", "ending", "ended"},
                       follower : {"commands", "forwarding", "checking", "awaiting", "ended"}]
           /\ returned' = [returned EXCEPT !.items = Append(@, thenClose)]
           /\ returned' \in [items : Seq(BOOLEAN), open : BOOLEAN]
<1>1. own' \in [held : BOOLEAN, link : Link, status : Status, after : Status,
                reply : 0..MaxCommands]
  BY DEF BeginEnding, TypeOK, Link, Status
<1>2. Append(returned.items, thenClose) \in Seq(BOOLEAN)
  BY DEF TypeOK
<1>3. returned' \in [items : Seq(BOOLEAN), open : BOOLEAN]
  BY <1>2 DEF BeginEnding, TypeOK
<1> QED
  BY <1>1, <1>3 DEF BeginEnding, TypeOK

LEMMA OwnTypes ==
    ASSUME TypeOK, OwnThread \/ Die
    PROVE  TypeOK'
<1> DEFINE OwnType == [held : BOOLEAN, link : Link, status : Status, after : Status,
                       reply : 0..MaxCommands]
           Programs == [own : {"commands", "forwarded", "step", "ending", "ended"},
                        follower : {"commands", "forwarding", "checking", "awaiting", "ended"}]
<1> USE DEF AppTypes
<1>1. app \in AppTypes /\ "own" \in Thread /\ {"ok", "refused", "dropped"} \subseteq Answer
  BY DEF TypeOK, Thread, Answer
<1>2. /\ queue.own \in Seq(Command) /\ forward.items \in Seq(Command)
      /\ <<>> \in Seq(Command) /\ handled \in Seq(Ticket)
      /\ own \in OwnType /\ pc \in Programs
      /\ 0 \in 0..MaxCommands
  BY <1>1, LendingBoundsAssumption DEF TypeOK
<1>3. \A t : Answered(app, t, "ok") \in AppTypes /\ Answered(app, t, "refused") \in AppTypes
  BY <1>1, Replies
<1>4. \A items : Dropped(app, items) \in AppTypes /\ Closed(Dropped(app, items), "own") \in AppTypes
  BY <1>1, Replies
<1>5. Closed(app, "own") \in AppTypes
  BY <1>1, Replies
<1>6. CASE OwnCommand
  <2> DEFINE c == Head(queue.own)
  <2>1. c \in Command /\ Tail(queue.own) \in Seq(Command) /\ c.ticket \in Ticket
        /\ c.ticket \in 0..MaxCommands
    <3>1. queue.own # <<>>
      BY <1>6 DEF OwnCommand
    <3>2. c \in Command /\ Tail(queue.own) \in Seq(Command)
      BY <1>2, <3>1, HeadTail
    <3> QED
      BY <3>2 DEF Command, Ticket
  <2>2. queue' = [queue EXCEPT !.own = Tail(queue.own)]
        /\ UNCHANGED <<hasLoop, pending, forward, sent, handled, lost, deaths>>
    BY <1>6 DEF OwnCommand
  <2>3. queue' \in [Thread -> Seq(Command)]
    BY <1>1, <2>1, <2>2 DEF TypeOK
  <2>4. \/ /\ c.op = "unlink"
           /\ BeginEnding(FALSE, "idle", c.ticket)
           /\ UNCHANGED app
        \/ /\ c.op = "close"
           /\ BeginEnding(FALSE, "idle", 0)
           /\ UNCHANGED app
        \/ /\ own' \in OwnType /\ app' \in AppTypes /\ pc' \in Programs
           /\ UNCHANGED returned
    <3>1. CASE c.op = "hold"
      <4>1. \/ /\ own' = [own EXCEPT !.held = TRUE, !.status = "holding"]
               /\ app' = Answered(app, c.ticket, "ok")
            \/ own' = own /\ app' = Answered(app, c.ticket, "refused")
        BY <1>6, <3>1 DEF OwnCommand
      <4>2. UNCHANGED <<pc, returned>>
        BY <1>6, <3>1 DEF OwnCommand
      <4> QED
        <5>1. own' \in OwnType
          BY <1>2, <4>1 DEF Status
        <5>2. app' \in AppTypes
          <6>1. app' = Answered(app, c.ticket, "ok") \/ app' = Answered(app, c.ticket, "refused")
            BY <4>1
          <6> QED
            BY <1>3, <6>1, Zenon
        <5> QED
          BY <1>2, <4>2, <5>1, <5>2
    <3>2. CASE c.op = "release"
      <4>1. /\ own' = [own EXCEPT !.held = FALSE,
                                  !.status = IF own.link = "none" THEN "idle" ELSE @]
            /\ app' = Answered(app, c.ticket, "ok")
            /\ UNCHANGED <<pc, returned>>
        BY <1>6, <3>2 DEF OwnCommand
      <4> QED
        BY <1>1, <1>2, <1>3, <4>1 DEF Status
    <3>3. CASE c.op = "link"
      <4>1. /\ own' = [own EXCEPT !.link = "starting", !.status = "starting"]
            /\ UNCHANGED <<app, pc, returned>>
        BY <1>6, <3>3 DEF OwnCommand
      <4> QED
        BY <1>1, <1>2, <4>1 DEF Status, Link
    <3>4. CASE c.op = "unlink"
      <4>1. \/ BeginEnding(FALSE, "idle", c.ticket) /\ UNCHANGED app
            \/ /\ own' = [own EXCEPT !.status = "idle"]
               /\ app' = Answered(app, c.ticket, "ok")
               /\ UNCHANGED <<pc, returned>>
        BY <1>6, <3>4 DEF OwnCommand
      <4> QED
        <5>1. CASE BeginEnding(FALSE, "idle", c.ticket) /\ UNCHANGED app
          BY <3>4, <5>1
        <5>2. CASE /\ own' = [own EXCEPT !.status = "idle"]
                   /\ app' = Answered(app, c.ticket, "ok")
                   /\ UNCHANGED <<pc, returned>>
          <6>1. own' \in OwnType
            BY <1>2, <5>2 DEF Status
          <6>2. app' \in AppTypes
            BY <1>1, <1>3, <5>2, Zenon
          <6> QED
            BY <1>2, <5>2, <6>1, <6>2
        <5> QED
          BY <4>1, <5>1, <5>2
    <3>5. CASE c.op = "close"
      <4>1. \/ BeginEnding(FALSE, "idle", 0) /\ UNCHANGED app
            \/ /\ pc' = [pc EXCEPT !.own = "ended"]
               /\ own' = [own EXCEPT !.status = "idle"]
               /\ app' = Closed(app, "own")
               /\ UNCHANGED returned
        BY <1>6, <3>5 DEF OwnCommand
      <4> QED
        BY <1>2, <1>5, <3>5, <4>1 DEF Status
    <3> QED
      BY <1>6, <3>1, <3>2, <3>3, <3>4, <3>5 DEF OwnCommand
  <2>5. own' \in OwnType /\ app' \in AppTypes /\ pc' \in Programs
        /\ returned' \in [items : Seq(BOOLEAN), open : BOOLEAN]
    BY <1>1, <1>2, <2>1, <2>4, EndingTypes DEF TypeOK
  <2> QED
    BY <2>2, <2>3, <2>5 DEF TypeOK
<1>7. CASE NoCommand
  BY <1>7 DEF NoCommand, TypeOK
<1>8. CASE Forwarded
  <2>1. CASE forward.items = <<>>
    BY <1>8, <2>1 DEF Forwarded, TypeOK
  <2>2. CASE forward.items # <<>>
    <3> DEFINE c == Head(forward.items)
    <3>1. c \in Command /\ Tail(forward.items) \in Seq(Command) /\ c.ticket \in Ticket
      <4>1. c \in Command /\ Tail(forward.items) \in Seq(Command)
        BY <1>2, <2>2, HeadTail
      <4> QED
        BY <4>1 DEF Command
    <3>2. Append(handled, c.ticket) \in Seq(Ticket)
      BY <1>2, <3>1
    <3>3. /\ forward' = [forward EXCEPT !.items = Tail(forward.items)]
          /\ handled' = Append(handled, c.ticket)
          /\ UNCHANGED <<queue, hasLoop, pending, sent, lost, deaths>>
          /\ \/ BeginEnding(TRUE, "failed", 0) /\ UNCHANGED app
             \/ /\ app' \in {Answered(app, c.ticket, "refused"), Answered(app, c.ticket, "ok")}
                /\ UNCHANGED <<pc, returned, own>>
      BY <1>8, <2>2 DEF Forwarded
    <3>4. forward' \in [items : Seq(Command), open : BOOLEAN]
      BY <3>1, <3>3 DEF TypeOK
    <3>5. own' \in OwnType /\ app' \in AppTypes /\ pc' \in Programs
          /\ returned' \in [items : Seq(BOOLEAN), open : BOOLEAN]
      <4>1. CASE BeginEnding(TRUE, "failed", 0) /\ UNCHANGED app
        BY <1>1, <1>2, <4>1, EndingTypes
      <4>2. CASE ~ (BeginEnding(TRUE, "failed", 0) /\ UNCHANGED app)
        <5>1. returned \in [items : Seq(BOOLEAN), open : BOOLEAN]
          BY DEF TypeOK
        <5>2. app' \in AppTypes
          BY <1>1, <1>3, <3>3, <4>2, ZenonT(30)
        <5>3. UNCHANGED <<pc, returned, own>>
          BY <3>3, <4>2
        <5> QED
          BY <1>2, <5>1, <5>2, <5>3
      <4> QED
        BY <3>3, <4>1, <4>2
    <3> QED
      BY <3>2, <3>3, <3>4, <3>5 DEF TypeOK
  <2> QED
    BY <2>1, <2>2
<1>9. CASE Step
  <2>1. \/ BeginEnding(FALSE, "failed", 0)
        \/ own' \in OwnType /\ pc' \in Programs /\ UNCHANGED returned
    BY <1>2, <1>9 DEF Step, Link, Status
  <2>2. own' \in OwnType /\ pc' \in Programs
        /\ returned' \in [items : Seq(BOOLEAN), open : BOOLEAN]
    BY <1>2, <2>1, EndingTypes DEF TypeOK
  <2> QED
    BY <1>9, <2>2 DEF Step, TypeOK
<1>10. CASE EndLink
  <2> DEFINE a == Dropped(app, forward.items)
  <2>1. a \in AppTypes /\ Closed(a, "own") \in AppTypes /\ Answered(a, own.reply, "ok") \in AppTypes
    BY <1>1, <1>4, Replies
  <2>2. /\ lost' = lost \cup Tickets(forward.items)
        /\ forward' = [items |-> <<>>, open |-> FALSE]
        /\ returned' = [returned EXCEPT !.open = FALSE]
        /\ own' = [own EXCEPT !.status = own.after, !.reply = 0]
        /\ UNCHANGED <<hasLoop, pending, sent, handled, deaths>>
    BY <1>10 DEF EndLink
  <2>3. app' \in {Closed(a, "own"), Answered(a, own.reply, "ok")}
    BY <1>10 DEF EndLink
  <2>4. /\ queue' \in {queue, [queue EXCEPT !.own = <<>>]}
        /\ pc' \in {[pc EXCEPT !.own = "ended"], [pc EXCEPT !.own = "commands"]}
    BY <1>10 DEF EndLink
  <2>5. Tickets(forward.items) \subseteq Ticket
    <3>1. \A i \in DOMAIN forward.items : forward.items[i] \in Command
      BY <1>2
    <3>2. \A i \in DOMAIN forward.items : forward.items[i].ticket \in Ticket
      BY <3>1 DEF Command
    <3> QED
      BY <3>2 DEF Tickets, ToSet
  <2>6. own' \in OwnType /\ pc' \in Programs
    BY <1>2, <2>2, <2>4
  <2>7. queue' \in [Thread -> Seq(Command)]
    <3>1. queue \in [Thread -> Seq(Command)]
      BY DEF TypeOK
    <3> QED
      BY <1>2, <2>4, <3>1
  <2>8. /\ forward' \in [items : Seq(Command), open : BOOLEAN]
        /\ returned' \in [items : Seq(BOOLEAN), open : BOOLEAN]
    BY <1>2, <2>2 DEF TypeOK
  <2> QED
    BY <2>1, <2>2, <2>3, <2>5, <2>6, <2>7, <2>8 DEF TypeOK
<1>11. CASE Die
  <2>1. app' \in AppTypes
    BY <1>4, <1>11 DEF Die
  <2>2. /\ deaths' = deaths + 1 /\ deaths < MaxDeaths
        /\ pc' = [pc EXCEPT !.own = "ended"]
        /\ queue' = [queue EXCEPT !.own = <<>>]
        /\ own' = [own EXCEPT !.link = "none"]
        /\ forward' \in {forward, [items |-> <<>>, open |-> FALSE]}
        /\ returned' \in {returned, [returned EXCEPT !.open = FALSE]}
        /\ UNCHANGED <<hasLoop, pending, sent, handled, lost>>
    BY <1>11 DEF Die
  <2>3. own' \in OwnType /\ pc' \in Programs /\ queue' \in [Thread -> Seq(Command)]
    BY <1>2, <2>2 DEF Link, TypeOK
  <2>4. /\ forward' \in [items : Seq(Command), open : BOOLEAN]
        /\ returned' \in [items : Seq(BOOLEAN), open : BOOLEAN]
    <3>1. /\ forward \in [items : Seq(Command), open : BOOLEAN]
          /\ returned \in [items : Seq(BOOLEAN), open : BOOLEAN]
      BY DEF TypeOK
    <3>2. [items |-> <<>>, open |-> FALSE] \in [items : Seq(Command), open : BOOLEAN]
      BY <1>2
    <3>3. [returned EXCEPT !.open = FALSE] \in [items : Seq(BOOLEAN), open : BOOLEAN]
      BY <3>1
    <3> QED
      BY <2>2, <3>1, <3>2, <3>3
  <2>5. deaths' \in 0..MaxDeaths
    BY <2>2, LendingBoundsAssumption DEF TypeOK
  <2> QED
    BY <2>1, <2>2, <2>3, <2>4, <2>5 DEF TypeOK
<1> QED
  BY <1>6, <1>7, <1>8, <1>9, <1>10, <1>11 DEF OwnThread

\* Every queue, channel and reply keeps its type, through lending and a panic.
THEOREM LendingTypes == Spec => []TypeOK
<1>1. Init => TypeOK
  BY LendingBoundsAssumption DEF Init, TypeOK, Thread, Link, Status, Phase, Answer, Op
<1>2. TypeOK /\ [Next]_vars => TypeOK'
  <2> SUFFICES ASSUME TypeOK, [Next]_vars
               PROVE  TypeOK'
    OBVIOUS
  <2>1. CASE Next
    BY <2>1, OwnTypes, FollowerTypes, ApplicationTypes DEF Next
  <2>2. CASE UNCHANGED vars
    BY <2>2 DEF vars, TypeOK
  <2> QED
    BY <2>1, <2>2
<1> QED
  BY <1>1, <1>2, PTL DEF Spec

-----------------------------------------------------------------------------
(* One holder, and commands in order: the invariant.                       *)

\* The commands on their way to the own thread, and those of the follower's wrapper:
\* in its queue, left over while the loop was lent, or forwarded.
Mine == ToSet(queue.own)
Theirs == ToSet(queue.follower) \cup ToSet(pending) \cup ToSet(forward.items)

Rising(s) == \A i, j \in DOMAIN s : i < j => s[i].ticket < s[j].ticket
Precede(s, t) == \A c \in ToSet(s), d \in ToSet(t) : c.ticket < d.ticket

\* Every line holds its commands in the order they were sent, what was forwarded
\* before what was left over or still waits; a channel nobody reads is empty.
Lines ==
    /\ Rising(queue.own) /\ Rising(queue.follower) /\ Rising(forward.items)
    /\ Precede(forward.items, queue.follower) /\ Precede(pending, queue.follower)
    /\ forward.open = returned.open
    /\ ~forward.open => forward.items = <<>>
    /\ pending # <<>> => ~forward.open

\* While command c of thread t is on its way, whoever waits for it has no answer: but
\* for the Close of a follower, whose thread may finish for another reason.
Asked(c, t) ==
    c.ticket = app.waits =>
        /\ c.op = app.op /\ app.on = t
        /\ app.answer = "none" \/ (c.op = "close" /\ t = "follower")

Answers ==
    /\ app.waits <= sent
    /\ Free => app.answer = "none"
    /\ \A c \in Mine :
        /\ c.op \in {"hold", "release", "link", "unlink", "close"}
        /\ c.ticket <= sent /\ Asked(c, "own")
    /\ \A c \in Theirs :
        /\ c.op \in {"run", "lend", "close"}
        /\ c.ticket <= sent /\ Asked(c, "follower")
        /\ c.op = "lend" => c.ticket = app.waits

\* Nothing is sent behind a Close of the own thread, and an unlink is answered once.
Closing ==
    /\ \A c \in Mine : c.op = "close" =>
        "own" \in app.closed /\ \A d \in Mine : d.ticket <= c.ticket
    /\ own.reply # 0 =>
        /\ pc.own = "ending" /\ own.reply <= sent
        /\ own.reply = app.waits => app.op = "unlink" /\ app.on = "own"
        /\ \A c \in Mine : own.reply < c.ticket
    /\ pc.own = "ending" /\ own.after = "idle" /\ own.reply = 0 =>
        queue.own = <<>> /\ "own" \in app.closed
    /\ pc.own = "ended" /\ deaths = 0 => "own" \in app.closed

\* Where the loop is, as in Holders.
Carried == app.phase = "carrying" \/ (app.op = "lend" /\ app.answer = "ok")
InCommand == \E c \in Mine : c.op = "link"
Linked == own.link # "none"
Returning == returned.items # <<>>

Whereabouts ==
    /\ hasLoop => ~Carried /\ ~InCommand /\ ~Linked /\ ~Returning
    /\ Carried => ~InCommand /\ ~Linked /\ ~Returning
    /\ InCommand => ~Linked /\ ~Returning
    /\ Linked => ~Returning
    /\ pc.follower # "ended" /\ deaths = 0 => hasLoop \/ Carried \/ InCommand \/ Linked \/ Returning
    /\ hasLoop <=> pc.follower = "commands"
    /\ pc.own \in {"forwarded", "step"} => Linked
    /\ pc.own \in {"ending", "ended"} => ~Linked
    /\ \A c, d \in Mine : c.op = "link" /\ d.op = "link" => c = d
    /\ app.phase = "carrying" => Free /\ "own" \notin app.closed
    /\ ~Free /\ app.op = "lend" => "own" \notin app.closed

\* What was handled was sent before whatever is still to be handled.
HandledFirst(s) == \A i \in DOMAIN handled, c \in ToSet(s) : handled[i] < c.ticket

Order ==
    /\ InOrder
    /\ \A i \in DOMAIN handled : handled[i] <= sent
    /\ HandledFirst(queue.follower) /\ HandledFirst(pending)
    /\ Carried \/ InCommand \/ Linked => HandledFirst(forward.items)

LendingInv == TypeOK /\ Lines /\ Answers /\ Closing /\ Whereabouts /\ Order

-----------------------------------------------------------------------------
(* Lines of commands.                                                      *)

\* What adding to a line, and taking its first command, make of it.
LEMMA LineAppend ==
    ASSUME NEW s \in Seq(Command), NEW c \in Command
    PROVE  /\ ToSet(Append(s, c)) = ToSet(s) \cup {c}
           /\ Rising(s) /\ (\A d \in ToSet(s) : d.ticket < c.ticket) => Rising(Append(s, c))
<1>1. Append(s, c) \in Seq(Command) /\ Len(Append(s, c)) = Len(s) + 1
      /\ DOMAIN Append(s, c) = 1..(Len(s) + 1) /\ DOMAIN s = 1..Len(s) /\ Len(s) \in Nat
      /\ Append(s, c)[Len(s) + 1] = c /\ \A i \in 1..Len(s) : Append(s, c)[i] = s[i]
  OBVIOUS
<1>2. ToSet(Append(s, c)) = ToSet(s) \cup {c}
  BY <1>1 DEF ToSet
<1>3. ASSUME Rising(s), \A d \in ToSet(s) : d.ticket < c.ticket,
             NEW i \in 1..(Len(s) + 1), NEW j \in 1..(Len(s) + 1), i < j
      PROVE  Append(s, c)[i].ticket < Append(s, c)[j].ticket
  <2>1. i \in 1..Len(s) /\ Append(s, c)[i] = s[i] /\ s[i] \in ToSet(s)
    BY <1>1, <1>3 DEF ToSet
  <2>2. CASE j = Len(s) + 1
    BY <1>1, <1>3, <2>1, <2>2
  <2>3. CASE j \in 1..Len(s)
    BY <1>1, <1>3, <2>1, <2>3 DEF Rising
  <2> QED
    BY <1>1, <2>2, <2>3
<1> QED
  BY <1>1, <1>2, <1>3 DEF Rising

LEMMA LineTail ==
    ASSUME NEW s \in Seq(Command), s # <<>>
    PROVE  /\ Head(s) \in Command /\ Tail(s) \in Seq(Command)
           /\ ToSet(s) = {Head(s)} \cup ToSet(Tail(s))
           /\ Rising(s) => Rising(Tail(s)) /\ \A d \in ToSet(Tail(s)) : Head(s).ticket < d.ticket
<1>1. /\ Head(s) \in Command /\ Tail(s) \in Seq(Command)
      /\ Len(s) \in Nat \ {0} /\ Len(Tail(s)) = Len(s) - 1
      /\ Head(s) = s[1] /\ \A i \in 1..(Len(s) - 1) : Tail(s)[i] = s[i + 1]
      /\ DOMAIN s = 1..Len(s) /\ DOMAIN Tail(s) = 1..(Len(s) - 1)
  BY HeadTail
<1>2. ToSet(s) = {Head(s)} \cup ToSet(Tail(s))
  <2>1. ASSUME NEW i \in 1..Len(s)
        PROVE  s[i] = Head(s) \/ s[i] \in ToSet(Tail(s))
    <3>1. CASE i = 1
      BY <1>1, <3>1
    <3>2. CASE i # 1
      <4>1. i - 1 \in 1..(Len(s) - 1) /\ (i - 1) + 1 = i
        BY <1>1, <3>2
      <4>2. Tail(s)[i - 1] = s[i]
        BY <1>1, <4>1
      <4> QED
        BY <1>1, <4>1, <4>2 DEF ToSet
    <3> QED
      BY <3>1, <3>2
  <2>2. \A i \in 1..(Len(s) - 1) : Tail(s)[i] = s[i + 1] /\ i + 1 \in 1..Len(s)
    BY <1>1
  <2>3. Head(s) = s[1] /\ 1 \in 1..Len(s)
    BY <1>1
  <2> QED
    BY <1>1, <2>1, <2>2, <2>3 DEF ToSet
<1>3. ASSUME Rising(s)
      PROVE  Rising(Tail(s)) /\ \A d \in ToSet(Tail(s)) : Head(s).ticket < d.ticket
  <2>1. \A i, j \in 1..Len(s) : i < j => s[i].ticket < s[j].ticket
    BY <1>1, <1>3 DEF Rising
  <2>2. ASSUME NEW i \in 1..(Len(s) - 1), NEW j \in 1..(Len(s) - 1), i < j
        PROVE  Tail(s)[i].ticket < Tail(s)[j].ticket
    <3>1. i + 1 \in 1..Len(s) /\ j + 1 \in 1..Len(s) /\ i + 1 < j + 1
      BY <1>1, <2>2
    <3> QED
      BY <1>1, <2>1, <3>1
  <2>3. ASSUME NEW i \in 1..(Len(s) - 1)
        PROVE  Head(s).ticket < Tail(s)[i].ticket
    <3>1. i + 1 \in 1..Len(s) /\ 1 \in 1..Len(s) /\ 1 < i + 1
      BY <1>1
    <3> QED
      BY <1>1, <2>1, <3>1
  <2> QED
    BY <1>1, <2>2, <2>3 DEF Rising, ToSet
<1> QED
  BY <1>1, <1>2, <1>3

\* The empty line, a line of one, and the commands of any line.
LEMMA LineSmall ==
    /\ ToSet(<<>>) = {} /\ Rising(<<>>)
    /\ \A c : ToSet(<<c>>) = {c}
    /\ \A s \in Seq(Command) : ToSet(s) \subseteq Command /\ (s # <<>> => ToSet(s) # {})
    /\ \A c \in Command : c.ticket \in Nat \ {0} /\ c.op \in Op
<1>1. ToSet(<<>>) = {} /\ Rising(<<>>) /\ \A c : ToSet(<<c>>) = {c}
  BY DEF ToSet, Rising
<1>2. ASSUME NEW s \in Seq(Command)
      PROVE  ToSet(s) \subseteq Command /\ (s # <<>> => ToSet(s) # {})
  BY LineTail DEF ToSet
<1>3. \A c \in Command : c.ticket \in Nat \ {0} /\ c.op \in Op
  BY LendingBoundsAssumption DEF Command, Ticket
<1> QED
  BY <1>1, <1>2, <1>3

-----------------------------------------------------------------------------
(* What an answer changes, and what the thread's steps keep.               *)

\* Two states of the application that differ in its answer, or in who is alive.
SameCall(a, b) ==
    /\ a.waits = b.waits /\ a.on = b.on /\ a.op = b.op
    /\ a.phase = b.phase /\ a.closed = b.closed

LEMMA AppFields ==
    ASSUME NEW a \in AppTypes, NEW t, NEW answer, NEW items, NEW thread
    PROVE  /\ SameCall(Answered(a, t, answer), a)
           /\ Answered(a, t, answer).answer = IF a.waits = t /\ t # 0 THEN answer ELSE a.answer
           /\ SameCall(Dropped(a, items), a)
           /\ Dropped(a, items).answer =
                IF a.waits \in Tickets(items) /\ a.op # "close" THEN "dropped" ELSE a.answer
           /\ SameCall(Closed(a, thread), a)
           /\ Closed(a, thread).answer =
                IF a.waits # 0 /\ a.on = thread /\ a.op = "close" THEN "ok" ELSE a.answer
BY DEF SameCall, Answered, Dropped, Closed, AppTypes

\* A step of a thread answers nobody whose command is still on its way.
LEMMA ThreadAnswers ==
    ASSUME Answers, SameCall(app', app), sent' = sent, Mine' \subseteq Mine, Theirs' \subseteq Theirs,
           Free => app'.answer = app.answer,
           \A c \in Mine' : c.ticket = app.waits => app'.answer = app.answer,
           \A c \in Theirs' : c.ticket = app.waits => app'.answer = app.answer \/ c.op = "close"
    PROVE  Answers'
<1>1. app'.waits = app.waits /\ app'.on = app.on /\ app'.op = app.op
  BY DEF SameCall
<1>2. app'.waits <= sent' /\ (Free' => app'.answer = "none")
  BY <1>1 DEF Answers, Free
<1>3. ASSUME NEW c \in Mine'
      PROVE  /\ c.op \in {"hold", "release", "link", "unlink", "close"}
             /\ c.ticket <= sent' /\ Asked(c, "own")'
  BY <1>1, <1>3 DEF Answers, Asked
<1>4. ASSUME NEW c \in Theirs'
      PROVE  /\ c.op \in {"run", "lend", "close"}
             /\ c.ticket <= sent' /\ Asked(c, "follower")'
             /\ c.op = "lend" => c.ticket = app'.waits
  BY <1>1, <1>4 DEF Answers, Asked
<1> QED
  BY <1>2, <1>3, <1>4 DEF Answers

\* A step that handles nothing and adds to no line keeps the order.
LEMMA SameOrder ==
    ASSUME Order, handled' = handled, sent' = sent,
           ToSet(queue.follower)' \subseteq ToSet(queue.follower),
           ToSet(pending)' \subseteq ToSet(pending),
           ToSet(forward.items)' \subseteq ToSet(forward.items),
           (Carried \/ InCommand \/ Linked)' => Carried \/ InCommand \/ Linked
    PROVE  Order'
<1>1. InOrder' /\ \A i \in DOMAIN handled' : handled'[i] <= sent'
  BY DEF Order, InOrder
<1> QED
  BY <1>1 DEF Order, HandledFirst

\* The own thread takes from its lines, or clears them.
LEMMA OwnLines ==
    ASSUME TypeOK, Lines, queue'.follower = queue.follower, pending' = pending,
           \/ queue'.own = queue.own
           \/ queue.own # <<>> /\ queue'.own = Tail(queue.own)
           \/ queue'.own = <<>>,
           \/ forward' = forward /\ returned'.open = returned.open
           \/ /\ forward.items # <<>> /\ forward'.items = Tail(forward.items)
              /\ forward'.open = forward.open /\ returned'.open = returned.open
           \/ forward'.items = <<>> /\ forward'.open = FALSE /\ returned'.open = FALSE
    PROVE  /\ Lines' /\ Mine' \subseteq Mine /\ Theirs' \subseteq Theirs
           /\ ToSet(forward.items)' \subseteq ToSet(forward.items)
<1>1. queue.own \in Seq(Command) /\ forward.items \in Seq(Command)
  BY DEF TypeOK, Thread
<1>2. ToSet(queue.own)' \subseteq ToSet(queue.own) /\ Rising(queue.own)'
  BY <1>1, LineTail, LineSmall DEF Lines
<1>3. ToSet(forward.items)' \subseteq ToSet(forward.items) /\ Rising(forward.items)'
  BY <1>1, LineTail, LineSmall DEF Lines
<1>4. forward'.open = returned'.open /\ (~forward'.open => forward'.items = <<>>)
  <2>1. forward.open = returned.open /\ (~forward.open => forward.items = <<>>)
    BY DEF Lines
  <2>2. CASE forward' = forward /\ returned'.open = returned.open
    BY <2>1, <2>2
  <2>3. CASE /\ forward.items # <<>>
             /\ forward'.open = forward.open /\ returned'.open = returned.open
    <3>1. forward.open = TRUE
      <4>1. forward.open \in BOOLEAN
        BY DEF TypeOK
      <4> QED
        BY <2>1, <2>3, <4>1
    <3> QED
      BY <2>1, <2>3, <3>1
  <2>4. CASE forward'.items = <<>> /\ forward'.open = FALSE /\ returned'.open = FALSE
    BY <2>4
  <2> QED
    BY <2>2, <2>3, <2>4
<1>5. pending' # <<>> => ~forward'.open
  BY DEF Lines
<1>6. Lines'
  BY <1>2, <1>3, <1>4, <1>5 DEF Lines, Precede
<1> QED
  BY <1>2, <1>3, <1>6 DEF Mine, Theirs

-----------------------------------------------------------------------------
(* The own thread.                                                         *)

\* What the first half of end_link does to the fields.
LEMMA EndingEffect ==
    ASSUME TypeOK, NEW thenClose \in BOOLEAN, NEW after, NEW reply, BeginEnding(thenClose, after, reply)
    PROVE  /\ own'.link = "none" /\ own'.after = after /\ own'.reply = reply
           /\ pc'.own = "ending" /\ pc'.follower = pc.follower
           /\ returned'.items # <<>> /\ returned'.open = returned.open
<1>1. own'.link = "none" /\ own'.after = after /\ own'.reply = reply
  BY DEF BeginEnding, TypeOK
<1>2. pc'.own = "ending" /\ pc'.follower = pc.follower
  BY DEF BeginEnding, TypeOK
<1>3. returned.items \in Seq(BOOLEAN)
  BY DEF TypeOK
<1>4. returned'.items = Append(returned.items, thenClose) /\ returned'.open = returned.open
  BY DEF BeginEnding, TypeOK
<1>5. Append(returned.items, thenClose) # <<>>
  BY <1>3
<1> QED
  BY <1>1, <1>2, <1>4, <1>5

LEMMA OwnCommandKeeps ==
    ASSUME LendingInv, TypeOK', OwnCommand
    PROVE  LendingInv'
<1> DEFINE c == Head(queue.own)
<1>1. /\ pc.own = "commands" /\ queue.own # <<>>
      /\ queue' = [queue EXCEPT !.own = Tail(queue.own)]
      /\ UNCHANGED <<hasLoop, pending, forward, sent, handled, lost, deaths>>
  BY DEF OwnCommand
<1>2. /\ queue.own \in Seq(Command) /\ queue'.own = Tail(queue.own)
      /\ queue'.follower = queue.follower
  BY <1>1 DEF LendingInv, TypeOK, Thread
<1>3. /\ c \in Command /\ c \in Mine /\ Mine = {c} \cup Mine'
      /\ \A d \in Mine' : c.ticket < d.ticket
  BY <1>1, <1>2, LineTail DEF LendingInv, Lines, Mine
<1>4. c.ticket \in Nat \ {0} /\ \A d \in Mine' : d.ticket \in Nat
  <2>1. queue'.own \in Seq(Command)
    BY <1>1, <1>2, LineTail
  <2> QED
    BY <1>3, <2>1, LineSmall DEF Mine
<1>5. app \in AppTypes
  BY DEF LendingInv, TypeOK, AppTypes
<1>6. \/ /\ c.op \in {"hold", "release", "unlink"}
         /\ own'.link = own.link /\ own'.reply = own.reply
         /\ UNCHANGED <<pc, returned>>
         /\ app' \in {Answered(app, c.ticket, "ok"), Answered(app, c.ticket, "refused")}
      \/ /\ c.op = "link"
         /\ own'.link = "starting" /\ own'.reply = own.reply
         /\ UNCHANGED <<pc, returned, app>>
      \/ /\ c.op \in {"unlink", "close"} /\ own.link # "none"
         /\ BeginEnding(FALSE, "idle", IF c.op = "unlink" THEN c.ticket ELSE 0)
         /\ UNCHANGED app
      \/ /\ c.op = "close" /\ own.link = "none"
         /\ own'.link = own.link /\ own'.reply = own.reply
         /\ pc' = [pc EXCEPT !.own = "ended"]
         /\ app' = Closed(app, "own")
         /\ UNCHANGED returned
  <2>1. own \in [held : BOOLEAN, link : Link, status : Status, after : Status, reply : 0..MaxCommands]
    BY DEF LendingInv, TypeOK
  <2>2. CASE c.op = "hold"
    BY <2>1, <2>2 DEF OwnCommand
  <2>3. CASE c.op = "release"
    BY <2>1, <2>3 DEF OwnCommand
  <2>4. CASE c.op = "link"
    BY <2>1, <2>4 DEF OwnCommand
  <2>5. CASE c.op = "unlink"
    BY <2>1, <2>5 DEF OwnCommand
  <2>6. CASE c.op = "close"
    BY <2>1, <2>6 DEF OwnCommand
  <2> QED
    BY <2>2, <2>3, <2>4, <2>5, <2>6 DEF OwnCommand
<1>7. ASSUME NEW reply, BeginEnding(FALSE, "idle", reply)
      PROVE  /\ own'.link = "none" /\ own'.after = "idle" /\ own'.reply = reply
             /\ pc'.own = "ending" /\ pc'.follower = pc.follower
             /\ returned'.items # <<>> /\ returned'.open = returned.open
  BY <1>7, EndingEffect DEF LendingInv
<1>8. /\ SameCall(app', app)
      /\ app'.answer # app.answer =>
            \/ app.waits = c.ticket /\ c.op \notin {"link", "lend"}
            \/ c.op = "close" /\ app.waits # 0 /\ app.on = "own" /\ app.op = "close"
  <2>1. CASE UNCHANGED app
    BY <2>1 DEF SameCall
  <2>2. CASE /\ c.op \in {"hold", "release", "unlink"}
             /\ app' \in {Answered(app, c.ticket, "ok"), Answered(app, c.ticket, "refused")}
    <3>1. PICK answer : app' = Answered(app, c.ticket, answer)
      BY <2>2
    <3>2. /\ SameCall(Answered(app, c.ticket, answer), app)
          /\ Answered(app, c.ticket, answer).answer =
                IF app.waits = c.ticket /\ c.ticket # 0 THEN answer ELSE app.answer
      BY <1>5, AppFields
    <3> QED
      BY <2>2, <3>1, <3>2
  <2>3. CASE c.op = "close" /\ app' = Closed(app, "own")
    BY <1>5, <2>3, AppFields
  <2> QED
    BY <1>6, <2>1, <2>2, <2>3
<1>9. c.ticket = app.waits => c.op = app.op /\ app.on = "own" /\ app.op # "lend"
  BY <1>3 DEF LendingInv, Answers, Asked
<1>10. c.op = "close" => "own" \in app.closed /\ Mine' = {}
  BY <1>3, <1>4 DEF LendingInv, Closing
<1>11. /\ Lines' /\ Mine' \subseteq Mine /\ Theirs' = Theirs
       /\ pc'.follower = pc.follower /\ returned'.open = returned.open
  <2>1. pc'.follower = pc.follower /\ returned'.open = returned.open
    BY <1>4, <1>6, <1>7, ZenonT(30) DEF LendingInv, TypeOK
  <2>2. Lines' /\ Mine' \subseteq Mine
    BY <1>1, <1>2, <2>1, OwnLines DEF LendingInv
  <2> QED
    BY <1>1, <1>2, <2>1, <2>2 DEF Theirs
<1>12. Answers'
  <2>1. Free => app'.answer = app.answer
    BY <1>4, <1>8 DEF Free
  <2>2. ASSUME NEW d \in Mine', d.ticket = app.waits
        PROVE  app'.answer = app.answer
    BY <1>3, <1>4, <1>8, <1>10, <2>2
  <2>3. ASSUME NEW d \in Theirs', d.ticket = app.waits
        PROVE  app'.answer = app.answer
    BY <1>8, <1>9, <1>11, <2>3 DEF LendingInv, Answers, Asked
  <2> QED
    BY <1>1, <1>8, <1>11, <2>1, <2>2, <2>3, ThreadAnswers DEF LendingInv
<1>13. Carried' = Carried
  BY <1>8, <1>9 DEF Carried, SameCall
<1>14. Closing'
  <2>1. app'.closed = app.closed /\ app'.waits = app.waits /\ app'.op = app.op /\ app'.on = app.on
    BY <1>8 DEF SameCall
  <2>2. \A d \in Mine' : d.op = "close" =>
            "own" \in app'.closed /\ \A e \in Mine' : e.ticket <= d.ticket
    BY <1>11, <2>1 DEF LendingInv, Closing
  <2>3. own.reply = 0
    BY <1>1 DEF LendingInv, Closing
  <2>4. own'.reply # 0 =>
            /\ pc'.own = "ending" /\ own'.reply <= sent'
            /\ own'.reply = app'.waits => app'.op = "unlink" /\ app'.on = "own"
            /\ \A d \in Mine' : own'.reply < d.ticket
    <3>1. CASE own'.reply = 0
      BY <3>1
    <3>2. CASE own'.reply # 0
      <4>1. own'.reply = c.ticket /\ c.op = "unlink" /\ pc'.own = "ending"
        <5>1. \/ c.op \in {"unlink", "close"}
                 /\ BeginEnding(FALSE, "idle", IF c.op = "unlink" THEN c.ticket ELSE 0)
          BY <1>6, <2>3, <3>2
        <5>2. pc'.own = "ending" /\ own'.reply = IF c.op = "unlink" THEN c.ticket ELSE 0
          BY <1>7, <5>1
        <5> QED
          BY <3>2, <5>1, <5>2
      <4>2. c.ticket <= sent
        BY <1>3 DEF LendingInv, Answers
      <4> QED
        BY <1>1, <1>3, <1>9, <2>1, <4>1, <4>2
    <3> QED
      BY <3>1, <3>2
  <2>5. pc'.own = "ending" /\ own'.after = "idle" /\ own'.reply = 0 =>
            queue'.own = <<>> /\ "own" \in app'.closed
    <3>1. SUFFICES ASSUME pc'.own = "ending", own'.reply = 0
                   PROVE  queue'.own = <<>> /\ "own" \in app'.closed
      OBVIOUS
    <3>2. c.op = "close"
      BY <1>1, <1>4, <1>6, <1>7, <3>1 DEF LendingInv, TypeOK
    <3>3. queue'.own \in Seq(Command) /\ ToSet(queue.own)' = {}
      BY <1>1, <1>2, <1>10, <3>2, LineTail DEF Mine
    <3> QED
      BY <1>10, <2>1, <3>2, <3>3, LineSmall
  <2>6. pc'.own = "ended" => "own" \in app'.closed
    BY <1>1, <1>4, <1>6, <1>7, <1>10, <2>1 DEF LendingInv, TypeOK
  <2> QED
    BY <2>2, <2>4, <2>5, <2>6 DEF Closing
<1>15. /\ InCommand' \/ c.op = "link" <=> InCommand
       /\ ~(InCommand' /\ c.op = "link")
  BY <1>3, <1>4 DEF InCommand, LendingInv, Whereabouts
<1>16. \/ Linked' = Linked /\ Returning' = Returning /\ c.op # "link"
          /\ pc'.own \in {"commands", "ended"} /\ (pc'.own = "ended" => ~Linked)
       \/ Linked' /\ Returning' = Returning /\ c.op = "link" /\ pc'.own = "commands"
       \/ Linked /\ ~Linked' /\ Returning' /\ c.op # "link" /\ pc'.own = "ending"
  BY <1>1, <1>4, <1>6, <1>7 DEF Linked, Returning, LendingInv, TypeOK
<1>17. Whereabouts'
  <2>1. /\ hasLoop' = hasLoop /\ deaths' = deaths /\ pc'.follower = pc.follower
        /\ Free' = Free /\ app'.phase = app.phase /\ app'.closed = app.closed /\ app'.op = app.op
    BY <1>1, <1>8, <1>11 DEF SameCall, Free
  <2>2. \A d, e \in Mine' : d.op = "link" /\ e.op = "link" => d = e
    BY <1>11 DEF LendingInv, Whereabouts
  <2> QED
    BY <1>13, <1>15, <1>16, <2>1, <2>2 DEF LendingInv, Whereabouts
<1>18. Order'
  <2>1. (Carried \/ InCommand \/ Linked)' => Carried \/ InCommand \/ Linked
    BY <1>13, <1>15, <1>16
  <2> QED
    BY <1>1, <1>2, <2>1, SameOrder DEF LendingInv
<1> QED
  BY <1>11, <1>12, <1>14, <1>17, <1>18 DEF LendingInv

\* A step that moves no command and answers nobody.
LEMMA Unmoved ==
    ASSUME Lines, Answers, Order, UNCHANGED <<queue, pending, forward, app, sent, handled>>,
           returned'.open = returned.open, Linked' => Linked
    PROVE  /\ Lines' /\ Answers' /\ Order'
           /\ Mine' = Mine /\ Carried' = Carried /\ InCommand' = InCommand /\ Free' = Free
<1>1. Mine' = Mine /\ Theirs' = Theirs /\ Carried' = Carried /\ InCommand' = InCommand /\ Free' = Free
  BY DEF Mine, Theirs, Carried, InCommand, Free
<1>2. Lines'
  BY DEF Lines
<1>3. Answers'
  BY <1>1, ThreadAnswers DEF SameCall, Free
<1>4. Order'
  BY <1>1, SameOrder
<1> QED
  BY <1>1, <1>2, <1>3, <1>4

LEMMA OwnIdleKeeps ==
    ASSUME LendingInv, TypeOK', NoCommand \/ Step \/ (Forwarded /\ forward.items = <<>>)
    PROVE  LendingInv'
<1>1. /\ UNCHANGED <<queue, hasLoop, pending, forward, app, sent, handled, deaths>>
      /\ pc.own \in {"commands", "forwarded", "step"} /\ Linked
  BY DEF NoCommand, Step, Forwarded, LendingInv, Whereabouts, Linked
<1>2. \/ /\ own'.link # "none" /\ own'.reply = own.reply /\ UNCHANGED returned
         /\ pc'.own \in {"commands", "forwarded", "step"} /\ pc'.follower = pc.follower
      \/ BeginEnding(FALSE, "failed", 0)
  <2>1. own.link # "none"
    BY <1>1 DEF Linked
  <2>2. ASSUME NEW l, NEW p, pc' = [pc EXCEPT !.own = p], p \in {"commands", "forwarded", "step"},
               own' = own \/ own' = [own EXCEPT !.link = l, !.status = "linked", !.held = FALSE],
               l = "running", UNCHANGED returned
        PROVE  /\ own'.link # "none" /\ own'.reply = own.reply /\ UNCHANGED returned
               /\ pc'.own \in {"commands", "forwarded", "step"} /\ pc'.follower = pc.follower
    <3>1. pc'.own \in {"commands", "forwarded", "step"} /\ pc'.follower = pc.follower
      BY <2>2, SMTT(30) DEF LendingInv, TypeOK
    <3>2. own'.link # "none" /\ own'.reply = own.reply
      <4>1. own \in [held : BOOLEAN, link : Link, status : Status, after : Status, reply : 0..MaxCommands]
        BY DEF LendingInv, TypeOK
      <4>2. CASE own' = own
        BY <2>1, <4>2
      <4>3. CASE own' = [own EXCEPT !.link = l, !.status = "linked", !.held = FALSE]
        BY <2>2, <4>1, <4>3
      <4>4. QED
        BY <2>2, <4>2, <4>3
    <3>3. QED
      BY <2>2, <3>1, <3>2
  <2>3. CASE NoCommand
    BY <2>2, <2>3 DEF NoCommand
  <2>4. CASE Step
    BY <2>2, <2>4 DEF Step
  <2>5. CASE Forwarded /\ forward.items = <<>>
    BY <2>2, <2>5 DEF Forwarded
  <2>6. QED
    BY <2>3, <2>4, <2>5
<1>3. \/ /\ Linked' /\ own'.reply = own.reply /\ UNCHANGED returned
         /\ pc'.own \in {"commands", "forwarded", "step"} /\ pc'.follower = pc.follower
      \/ /\ ~Linked' /\ own'.reply = 0 /\ own'.after = "failed"
         /\ pc'.own = "ending" /\ pc'.follower = pc.follower
         /\ Returning' /\ returned'.open = returned.open
  BY <1>2, EndingEffect DEF LendingInv, Linked, Returning
<1>4. /\ Lines' /\ Answers' /\ Order'
      /\ Mine' = Mine /\ Carried' = Carried /\ InCommand' = InCommand /\ Free' = Free
  BY <1>1, <1>3, Unmoved DEF LendingInv
<1>5. own.reply = 0
  BY <1>1 DEF LendingInv, Closing
<1>6. Closing'
  BY <1>1, <1>3, <1>4, <1>5 DEF Closing, LendingInv
<1>7. Whereabouts'
  <2>1. ~Returning /\ (Linked' => ~Returning')
    BY <1>1, <1>3 DEF LendingInv, Whereabouts, Returning
  <2> QED
    BY <1>1, <1>3, <1>4, <2>1 DEF LendingInv, Whereabouts
<1> QED
  BY <1>4, <1>6, <1>7 DEF LendingInv

LEMMA ForwardedKeeps ==
    ASSUME LendingInv, TypeOK', Forwarded, forward.items # <<>>
    PROVE  LendingInv'
<1> DEFINE c == Head(forward.items)
<1>1. /\ pc.own = "forwarded" /\ Linked
      /\ forward' = [forward EXCEPT !.items = Tail(forward.items)]
      /\ handled' = Append(handled, c.ticket)
      /\ UNCHANGED <<queue, hasLoop, pending, sent, lost, deaths>>
  BY DEF Forwarded, LendingInv, Whereabouts, Linked
<1>2. /\ forward.items \in Seq(Command)
      /\ forward'.items = Tail(forward.items) /\ forward'.open = forward.open
      /\ app \in AppTypes
  BY <1>1 DEF LendingInv, TypeOK, AppTypes
<1>3. /\ c \in Command /\ c \in Theirs /\ c \in ToSet(forward.items)
      /\ ToSet(forward.items)' \subseteq ToSet(forward.items)
      /\ \A d \in ToSet(forward.items)' : c.ticket < d.ticket
  BY <1>2, LineTail DEF LendingInv, Lines, Theirs
<1>4. c.ticket \in Nat \ {0}
  BY <1>3, LineSmall
<1>5. pending = <<>>
  BY DEF LendingInv, Lines
<1>6. \A d \in Theirs' : d \in Theirs /\ c.ticket < d.ticket
  BY <1>1, <1>3, <1>5, LineSmall DEF Theirs, LendingInv, Lines, Precede
<1>7. \/ /\ c.op = "close" /\ UNCHANGED app
         /\ ~Linked' /\ own'.reply = 0 /\ own'.after = "failed"
         /\ pc'.own = "ending" /\ pc'.follower = pc.follower
         /\ Returning' /\ returned'.open = returned.open
      \/ /\ c.op # "close" /\ UNCHANGED <<pc, returned, own>>
         /\ app' = Answered(app, c.ticket, IF c.op = "lend" THEN "refused" ELSE "ok")
  <2>1. CASE c.op = "close"
    <3>1. BeginEnding(TRUE, "failed", 0) /\ UNCHANGED app
      BY <2>1 DEF Forwarded
    <3> QED
      BY <2>1, <3>1, EndingEffect DEF LendingInv, Linked, Returning
  <2>2. CASE c.op # "close"
    BY <2>2 DEF Forwarded
  <2> QED
    BY <2>1, <2>2
<1>8. /\ SameCall(app', app)
      /\ app'.answer # app.answer =>
            app.waits = c.ticket /\ app'.answer = IF c.op = "lend" THEN "refused" ELSE "ok"
  <2>1. /\ SameCall(Answered(app, c.ticket, IF c.op = "lend" THEN "refused" ELSE "ok"), app)
        /\ Answered(app, c.ticket, IF c.op = "lend" THEN "refused" ELSE "ok").answer =
             IF app.waits = c.ticket /\ c.ticket # 0
             THEN IF c.op = "lend" THEN "refused" ELSE "ok" ELSE app.answer
    <3>1. \A answer :
            /\ SameCall(Answered(app, c.ticket, answer), app)
            /\ Answered(app, c.ticket, answer).answer =
                 IF app.waits = c.ticket /\ c.ticket # 0 THEN answer ELSE app.answer
      BY <1>2, AppFields
    <3> QED
      BY <3>1
  <2>2. UNCHANGED app => SameCall(app', app)
    BY DEF SameCall
  <2> QED
    BY <1>7, <2>1, <2>2
<1>9. c.ticket = app.waits => c.op = app.op /\ app.on = "follower"
  BY <1>3 DEF LendingInv, Answers, Asked
<1>10. /\ Lines' /\ Mine' = Mine /\ InCommand' = InCommand
       /\ Theirs' \subseteq Theirs /\ returned'.open = returned.open
  <2>1. returned'.open = returned.open
    BY <1>7
  <2>2. Lines' /\ Theirs' \subseteq Theirs
    BY <1>1, <1>2, <2>1, OwnLines DEF LendingInv
  <2> QED
    BY <1>1, <2>1, <2>2 DEF Mine, InCommand
<1>11. Answers'
  <2>1. Free => app'.answer = app.answer
    BY <1>4, <1>8 DEF Free
  <2>2. ASSUME NEW d \in Mine', d.ticket = app.waits
        PROVE  app'.answer = app.answer
    BY <1>8, <1>9, <1>10, <2>2 DEF LendingInv, Answers, Asked
  <2>3. ASSUME NEW d \in Theirs', d.ticket = app.waits
        PROVE  app'.answer = app.answer
    BY <1>4, <1>6, <1>8, <2>3
  <2> QED
    BY <1>1, <1>8, <1>10, <2>1, <2>2, <2>3, ThreadAnswers DEF LendingInv
<1>12. Carried' = Carried
  <2>1. c.ticket = app.waits /\ c.op # "close" => app.answer = "none"
    BY <1>3 DEF LendingInv, Answers, Asked
  <2> QED
    BY <1>7, <1>8, <1>9, <2>1 DEF Carried, SameCall
<1>13. /\ Free' = Free /\ app'.phase = app.phase /\ app'.closed = app.closed /\ app'.op = app.op
       /\ app'.waits = app.waits /\ app'.on = app.on
  BY <1>8 DEF SameCall, Free
<1>14. Closing'
  <2>1. own.reply = 0
    BY <1>1 DEF LendingInv, Closing
  <2> QED
    BY <1>1, <1>7, <1>10, <1>13, <2>1 DEF Closing, LendingInv
<1>15. Whereabouts'
  <2>1. \/ Linked' /\ Returning' = Returning /\ UNCHANGED pc
        \/ ~Linked' /\ Returning' /\ pc'.own = "ending" /\ pc'.follower = pc.follower
    BY <1>1, <1>7 DEF Linked, Returning
  <2> QED
    BY <1>1, <1>10, <1>12, <1>13, <2>1 DEF LendingInv, Whereabouts
<1>16. Order'
  <2>1. HandledFirst(forward.items) /\ HandledFirst(queue.follower)
    BY <1>1 DEF LendingInv, Order
  <2>2. handled \in Seq(Ticket) /\ \A i \in DOMAIN handled : handled[i] \in Nat
    <3>1. handled \in Seq(Ticket)
      BY DEF LendingInv, TypeOK
    <3>2. \A i \in DOMAIN handled : handled[i] \in Ticket
      BY <3>1
    <3> QED
      BY <3>1, <3>2 DEF Ticket
  <2>3. /\ DOMAIN handled' = 1..(Len(handled) + 1) /\ DOMAIN handled = 1..Len(handled)
        /\ Len(handled) \in Nat /\ handled'[Len(handled) + 1] = c.ticket
        /\ \A i \in DOMAIN handled : handled'[i] = handled[i]
    BY <1>1, <1>4, <2>2
  <2>4. \A i \in DOMAIN handled : handled[i] < c.ticket
    BY <1>3, <2>1 DEF HandledFirst
  <2>5. InOrder'
    BY <1>4, <2>2, <2>3, <2>4 DEF InOrder, LendingInv, Order
  <2>6. \A i \in DOMAIN handled' : handled'[i] <= sent'
    BY <1>1, <1>3, <2>3 DEF LendingInv, Order, Answers
  <2>7. \A i \in DOMAIN handled', d \in Theirs' : handled'[i] < d.ticket
    <3>1. \A i \in DOMAIN handled, d \in Theirs' : handled[i] < d.ticket
      BY <1>1, <1>3, <1>5, <2>1, LineSmall DEF Theirs, HandledFirst
    <3> QED
      BY <1>6, <2>3, <3>1
  <2> QED
    BY <2>5, <2>6, <2>7 DEF Order, HandledFirst, Theirs
<1> QED
  BY <1>10, <1>11, <1>14, <1>15, <1>16 DEF LendingInv

\* The tickets of a line, and of two lines together.
LEMMA TicketsOf ==
    /\ \A s : Tickets(s) = {c.ticket : c \in ToSet(s)}
    /\ \A s, t \in Seq(Command) : Tickets(s \o t) = Tickets(s) \cup Tickets(t)
    /\ Tickets(<<>>) = {}
<1>1. \A s : Tickets(s) = {c.ticket : c \in ToSet(s)}
  BY DEF Tickets
<1>2. ASSUME NEW s \in Seq(Command), NEW t \in Seq(Command)
      PROVE  ToSet(s \o t) = ToSet(s) \cup ToSet(t)
  <2>1. /\ DOMAIN s = 1..Len(s) /\ DOMAIN t = 1..Len(t) /\ Len(s) \in Nat /\ Len(t) \in Nat
        /\ DOMAIN (s \o t) = 1..(Len(s) + Len(t))
        /\ \A i \in 1..Len(s) : (s \o t)[i] = s[i]
        /\ \A i \in 1..Len(t) : (s \o t)[Len(s) + i] = t[i]
    OBVIOUS
  <2>2. ASSUME NEW i \in 1..(Len(s) + Len(t))
        PROVE  (s \o t)[i] \in ToSet(s) \cup ToSet(t)
    <3>1. CASE i <= Len(s)
      BY <2>1, <3>1 DEF ToSet
    <3>2. CASE i > Len(s)
      <4>1. i - Len(s) \in 1..Len(t) /\ Len(s) + (i - Len(s)) = i
        BY <2>1, <3>2
      <4> QED
        BY <2>1, <4>1 DEF ToSet
    <3> QED
      BY <2>1, <3>1, <3>2
  <2>3. ASSUME NEW i \in 1..Len(s)
        PROVE  s[i] \in ToSet(s \o t)
    BY <2>1 DEF ToSet
  <2>4. ASSUME NEW i \in 1..Len(t)
        PROVE  t[i] \in ToSet(s \o t)
    <3>1. Len(s) + i \in 1..(Len(s) + Len(t))
      BY <2>1
    <3> QED
      BY <2>1, <3>1 DEF ToSet
  <2> QED
    BY <2>1, <2>2, <2>3, <2>4 DEF ToSet
<1>3. Tickets(<<>>) = {}
  BY LineSmall DEF Tickets
<1> QED
  BY <1>1, <1>2, <1>3

LEMMA EndLinkKeeps ==
    ASSUME LendingInv, TypeOK', EndLink
    PROVE  LendingInv'
<1> DEFINE a == Dropped(app, forward.items)
<1>1. /\ pc.own = "ending" /\ ~Linked
      /\ forward' = [items |-> <<>>, open |-> FALSE]
      /\ returned' = [returned EXCEPT !.open = FALSE]
      /\ own' = [own EXCEPT !.status = own.after, !.reply = 0]
      /\ UNCHANGED <<hasLoop, pending, sent, handled, deaths>>
  BY DEF EndLink, LendingInv, Whereabouts, Linked
<1>2. /\ app \in AppTypes /\ forward.items \in Seq(Command)
      /\ forward'.items = <<>> /\ forward'.open = FALSE
      /\ returned'.items = returned.items /\ returned'.open = FALSE
      /\ own'.link = own.link /\ own'.reply = 0
  BY <1>1 DEF LendingInv, TypeOK, AppTypes
<1>3. \/ /\ own.after = "idle" /\ own.reply = 0
         /\ pc' = [pc EXCEPT !.own = "ended"]
         /\ queue' = [queue EXCEPT !.own = <<>>]
         /\ app' = Closed(a, "own")
      \/ /\ pc' = [pc EXCEPT !.own = "commands"]
         /\ queue' = queue
         /\ app' = Answered(a, own.reply, "ok")
  BY DEF EndLink
<1>4. /\ queue'.own = queue.own /\ queue'.follower = queue.follower
      /\ pc'.own \in {"commands", "ended"} /\ pc'.follower = pc.follower
      /\ pc'.own = "ended" => "own" \in app.closed
  BY <1>1, <1>3 DEF LendingInv, TypeOK, Thread, Closing
<1>5. a \in AppTypes /\ SameCall(a, app)
      /\ a.answer = IF app.waits \in Tickets(forward.items) /\ app.op # "close"
                    THEN "dropped" ELSE app.answer
  BY <1>2, AppFields, Replies DEF Answer, Thread
<1>6. /\ SameCall(Closed(a, "own"), a)
      /\ Closed(a, "own").answer =
           IF a.waits # 0 /\ a.on = "own" /\ a.op = "close" THEN "ok" ELSE a.answer
      /\ SameCall(Answered(a, own.reply, "ok"), a)
      /\ Answered(a, own.reply, "ok").answer =
           IF a.waits = own.reply /\ own.reply # 0 THEN "ok" ELSE a.answer
  BY <1>5, AppFields
<1>7. /\ SameCall(app', app)
      /\ app'.answer # app.answer =>
           \/ app.waits \in Tickets(forward.items) /\ app.op # "close" /\ app'.answer = "dropped"
           \/ /\ app.waits # 0 /\ app.on = "own" /\ app.op = "close"
              /\ own.after = "idle" /\ own.reply = 0
           \/ app.waits = own.reply /\ own.reply # 0
  BY <1>3, <1>5, <1>6 DEF SameCall
<1>8. app.waits \in Tickets(forward.items) =>
        /\ app.waits # 0 /\ app.on = "follower"
        /\ app.op # "close" => app.answer = "none"
  <2>1. SUFFICES ASSUME app.waits \in Tickets(forward.items)
                 PROVE  /\ app.waits # 0 /\ app.on = "follower"
                        /\ app.op # "close" => app.answer = "none"
    OBVIOUS
  <2>2. PICK c \in ToSet(forward.items) : c.ticket = app.waits
    BY <2>1 DEF Tickets
  <2>3. c \in Theirs /\ c \in Command
    BY <1>2, LineSmall DEF Theirs
  <2>4. c.ticket # 0
    BY <2>3, LineSmall
  <2> QED
    BY <2>2, <2>3, <2>4 DEF LendingInv, Answers, Asked
<1>9. own.reply # 0 /\ own.reply = app.waits => app.op = "unlink" /\ app.on = "own"
  BY DEF LendingInv, Closing
<1>10. /\ Lines' /\ Mine' = Mine /\ InCommand' = InCommand /\ Theirs' \subseteq Theirs
       /\ ToSet(forward.items)' \subseteq ToSet(forward.items)
  <2>1. Lines' /\ Theirs' \subseteq Theirs /\ ToSet(forward.items)' \subseteq ToSet(forward.items)
    BY <1>1, <1>2, <1>4, OwnLines DEF LendingInv
  <2> QED
    BY <1>4, <2>1 DEF Mine, InCommand
<1>11. Answers'
  <2>1. Free => app'.answer = app.answer
    BY <1>7, <1>8 DEF Free
  <2>2. ASSUME NEW d \in Mine', d.ticket = app.waits
        PROVE  app'.answer = app.answer
    <3>1. app.on = "own" /\ d \in Mine
      BY <1>10, <2>2 DEF LendingInv, Answers, Asked
    <3>2. own.after = "idle" /\ own.reply = 0 => Mine = {}
      BY <1>1, LineSmall DEF LendingInv, Closing, Mine
    <3>3. own.reply # 0 => own.reply < d.ticket /\ own.reply \in Nat
      BY <3>1 DEF LendingInv, Closing, TypeOK
    <3> QED
      BY <1>7, <1>8, <2>2, <3>1, <3>2, <3>3
  <2>3. ASSUME NEW d \in Theirs', d.ticket = app.waits
        PROVE  app'.answer = app.answer
    <3>1. app.on = "follower"
      BY <1>10, <2>3 DEF LendingInv, Answers, Asked
    <3>2. d \in ToSet(queue.follower) \cup ToSet(pending)
      BY <1>1, <1>2, <1>4, <2>3, LineSmall DEF Theirs
    <3>3. ASSUME NEW c \in ToSet(forward.items)
          PROVE  c.ticket # d.ticket
      <4>1. forward.items # <<>>
        BY <3>3, LineSmall
      <4>2. pending = <<>>
        BY <4>1 DEF LendingInv, Lines
      <4>3. c.ticket < d.ticket
        BY <3>2, <4>2, LineSmall DEF LendingInv, Lines, Precede
      <4>4. c \in Command
        BY <1>2, LineSmall
      <4> QED
        BY <4>3, <4>4, LineSmall
    <3>4. app.waits \notin Tickets(forward.items)
      BY <2>3, <3>3 DEF Tickets
    <3> QED
      BY <1>7, <1>9, <3>1, <3>4
  <2> QED
    BY <1>1, <1>7, <1>10, <2>1, <2>2, <2>3, ThreadAnswers DEF LendingInv
<1>12. Carried' = Carried
  BY <1>7, <1>8, <1>9 DEF Carried, SameCall
<1>13. /\ Free' = Free /\ app'.phase = app.phase /\ app'.closed = app.closed /\ app'.op = app.op
  BY <1>7 DEF SameCall, Free
<1>14. Closing'
  BY <1>1, <1>2, <1>4, <1>10, <1>13 DEF Closing, LendingInv
<1>15. Whereabouts'
  <2>1. Linked' = Linked /\ Returning' = Returning
    BY <1>2 DEF Linked, Returning
  <2> QED
    BY <1>1, <1>4, <1>10, <1>12, <1>13, <2>1 DEF LendingInv, Whereabouts
<1>16. Order'
  <2>1. Linked' = Linked
    BY <1>2 DEF Linked
  <2> QED
    BY <1>1, <1>4, <1>10, <1>12, <2>1, SameOrder DEF LendingInv
<1> QED
  BY <1>10, <1>11, <1>14, <1>15, <1>16 DEF LendingInv

LEMMA DieKeeps ==
    ASSUME LendingInv, TypeOK', Die
    PROVE  LendingInv'
<1> DEFINE borrowed == own.link # "none" \/ \E i \in DOMAIN queue.own : queue.own[i].op = "link"
           gone == queue.own \o (IF borrowed THEN forward.items ELSE <<>>)
<1>1. /\ pc.own \in {"commands", "forwarded", "step"}
      /\ deaths' = deaths + 1
      /\ pc' = [pc EXCEPT !.own = "ended"]
      /\ queue' = [queue EXCEPT !.own = <<>>]
      /\ own' = [own EXCEPT !.link = "none"]
      /\ UNCHANGED <<hasLoop, pending, sent, handled, lost>>
      /\ app' = Closed(Dropped(app, gone), "own")
      /\ \/ /\ borrowed /\ forward' = [items |-> <<>>, open |-> FALSE]
            /\ returned' = [returned EXCEPT !.open = FALSE]
         \/ ~borrowed /\ UNCHANGED <<forward, returned>>
  BY DEF Die
<1>2. /\ app \in AppTypes /\ deaths \in Nat
      /\ queue.own \in Seq(Command) /\ forward.items \in Seq(Command) /\ <<>> \in Seq(Command)
  BY DEF LendingInv, TypeOK, AppTypes, Thread
<1>3. /\ queue'.own = <<>> /\ queue'.follower = queue.follower
      /\ pc'.own = "ended" /\ pc'.follower = pc.follower
      /\ own'.link = "none" /\ own'.reply = own.reply
      /\ returned'.items = returned.items
      /\ deaths' # 0
  BY <1>1, <1>2 DEF LendingInv, TypeOK, Thread
<1>4. \/ borrowed /\ forward'.items = <<>> /\ forward'.open = FALSE /\ returned'.open = FALSE
      \/ ~borrowed /\ forward' = forward /\ returned'.open = returned.open
  BY <1>1 DEF LendingInv, TypeOK
<1>5. /\ SameCall(app', app)
      /\ app'.answer # app.answer =>
           \/ app.waits \in Tickets(gone) /\ app.op # "close"
           \/ app.waits # 0 /\ app.on = "own" /\ app.op = "close"
      /\ app'.answer = "ok" /\ app.op = "lend" => app.answer = "ok"
  <2> DEFINE a == Dropped(app, gone)
  <2>1. a \in AppTypes
    BY <1>2, Replies DEF Answer, Thread
  <2>2. SameCall(a, app) /\ a.answer = IF app.waits \in Tickets(gone) /\ app.op # "close"
                                       THEN "dropped" ELSE app.answer
    BY <1>2, AppFields
  <2>3. SameCall(app', a) /\ app'.answer = IF a.waits # 0 /\ a.on = "own" /\ a.op = "close"
                                           THEN "ok" ELSE a.answer
    BY <1>1, <2>1, AppFields
  <2> QED
    BY <2>2, <2>3 DEF SameCall
<1>6. app.waits \in Tickets(gone) =>
        \/ app.waits # 0 /\ app.on = "own"
        \/ /\ borrowed /\ app.on = "follower" /\ app.waits # 0
           /\ app.waits \in Tickets(forward.items)
  <2>1. Tickets(gone) = Tickets(queue.own) \cup (IF borrowed THEN Tickets(forward.items) ELSE {})
    <3> HIDE DEF borrowed
    <3> QED
      BY <1>2, TicketsOf
  <2>2. app.waits \in Tickets(queue.own) => app.waits # 0 /\ app.on = "own"
    <3>1. SUFFICES ASSUME NEW c \in ToSet(queue.own), c.ticket = app.waits
                   PROVE  app.waits # 0 /\ app.on = "own"
      BY DEF Tickets
    <3>2. c \in Mine /\ c \in Command
      BY <1>2, LineSmall DEF Mine
    <3> QED
      BY <3>1, <3>2, LineSmall DEF LendingInv, Answers, Asked
  <2>3. app.waits \in Tickets(forward.items) => app.waits # 0 /\ app.on = "follower"
    <3>1. SUFFICES ASSUME NEW c \in ToSet(forward.items), c.ticket = app.waits
                   PROVE  app.waits # 0 /\ app.on = "follower"
      BY DEF Tickets
    <3>2. c \in Theirs /\ c \in Command
      BY <1>2, LineSmall DEF Theirs
    <3> QED
      BY <3>1, <3>2, LineSmall DEF LendingInv, Answers, Asked
  <2> HIDE DEF borrowed, gone
  <2> QED
    BY <2>1, <2>2, <2>3
<1> HIDE DEF gone
<1>7. /\ Lines' /\ Mine' = {} /\ Theirs' \subseteq Theirs
      /\ ToSet(forward.items)' \subseteq ToSet(forward.items)
  <2>1. /\ Lines' /\ Theirs' \subseteq Theirs
        /\ ToSet(forward.items)' \subseteq ToSet(forward.items)
    <3> HIDE DEF borrowed
    <3> QED
      BY <1>1, <1>3, <1>4, OwnLines DEF LendingInv
  <2> QED
    BY <1>3, <2>1, LineSmall DEF Mine
<1> HIDE DEF borrowed
<1>8. Answers'
  <2>1. Free => app'.answer = app.answer
    BY <1>5, <1>6 DEF Free
  <2>2. ASSUME NEW d \in Theirs', d.ticket = app.waits
        PROVE  app'.answer = app.answer
    <3>1. app.on = "follower"
      BY <1>7, <2>2 DEF LendingInv, Answers, Asked
    <3>2. SUFFICES ASSUME borrowed, app.waits \in Tickets(forward.items)
                   PROVE  FALSE
      BY <1>5, <1>6, <3>1
    <3>3. d \in ToSet(queue.follower) \cup ToSet(pending)
      BY <1>1, <1>3, <1>4, <2>2, <3>2, LineSmall DEF Theirs
    <3>4. PICK c \in ToSet(forward.items) : c.ticket = d.ticket
      BY <2>2, <3>2 DEF Tickets
    <3>5. forward.items # <<>>
      BY <3>4, LineSmall
    <3>6. pending = <<>>
      BY <3>5 DEF LendingInv, Lines
    <3>7. c.ticket < d.ticket
      BY <3>3, <3>6, LineSmall DEF LendingInv, Lines, Precede
    <3>8. c \in Command
      BY <1>2, LineSmall
    <3> QED
      BY <3>4, <3>7, <3>8, LineSmall
  <2> QED
    BY <1>1, <1>5, <1>7, <2>1, <2>2, ThreadAnswers DEF LendingInv
<1>9. Carried' => Carried
  BY <1>5 DEF Carried, SameCall
<1>10. Closing'
  <2>1. own.reply = 0
    BY <1>1 DEF LendingInv, Closing
  <2> QED
    BY <1>3, <1>7, <2>1 DEF Closing
<1>11. ~InCommand' /\ ~Linked' /\ Returning' = Returning /\ Free' = Free
       /\ app'.phase = app.phase /\ app'.closed = app.closed /\ app'.op = app.op
  BY <1>3, <1>5, <1>7 DEF InCommand, Linked, Returning, SameCall, Free
<1>12. Whereabouts'
  BY <1>1, <1>3, <1>7, <1>9, <1>11 DEF LendingInv, Whereabouts
<1>13. Order'
  BY <1>1, <1>3, <1>7, <1>9, <1>11, SameOrder DEF LendingInv
<1> QED
  BY <1>7, <1>8, <1>10, <1>12, <1>13 DEF LendingInv

-----------------------------------------------------------------------------
(* The follower's thread.                                                  *)

\* The follower's lines only shrink, or move from its queue to the next line.
LEMMA FollowerIdleKeeps ==
    ASSUME LendingInv, TypeOK', StillLent \/ (Forward /\ queue.follower = <<>>)
    PROVE  LendingInv'
<1>1. /\ UNCHANGED <<queue, hasLoop, pending, forward, returned, own, app, sent, handled, deaths>>
      /\ pc.follower \in {"checking", "forwarding"}
      /\ pc' = [pc EXCEPT !.follower = "forwarding"] \/ pc' = [pc EXCEPT !.follower = "checking"]
  BY DEF StillLent, Forward
<1>2. pc'.own = pc.own /\ pc'.follower \in {"forwarding", "checking"}
  BY <1>1 DEF LendingInv, TypeOK
<1>3. /\ Lines' /\ Answers' /\ Order'
      /\ Mine' = Mine /\ Carried' = Carried /\ InCommand' = InCommand /\ Free' = Free
  BY <1>1, Unmoved DEF LendingInv, Linked
<1>4. Closing'
  BY <1>1, <1>2, <1>3 DEF Closing, LendingInv
<1>5. Whereabouts'
  BY <1>1, <1>2, <1>3 DEF LendingInv, Whereabouts, Linked, Returning
<1> QED
  BY <1>3, <1>4, <1>5 DEF LendingInv

LEMMA ForwardKeeps ==
    ASSUME LendingInv, TypeOK', Forward, queue.follower # <<>>
    PROVE  LendingInv'
<1> DEFINE c == Head(queue.follower)
<1>1. /\ pc.follower = "forwarding"
      /\ queue' = [queue EXCEPT !.follower = Tail(queue.follower)]
      /\ UNCHANGED <<hasLoop, returned, own, app, sent, handled, lost, deaths>>
      /\ \/ /\ forward.open /\ forward' = [forward EXCEPT !.items = Append(@, c)]
            /\ pc' = [pc EXCEPT !.follower = "checking"] /\ UNCHANGED pending
         \/ /\ ~forward.open /\ UNCHANGED forward
            /\ pc' = [pc EXCEPT !.follower = "awaiting"] /\ pending' = <<c>>
  BY DEF Forward
<1>2. /\ queue.follower \in Seq(Command) /\ forward.items \in Seq(Command)
      /\ queue'.follower = Tail(queue.follower) /\ queue'.own = queue.own
      /\ pc'.own = pc.own /\ pc'.follower \in {"checking", "awaiting"}
  BY <1>1 DEF LendingInv, TypeOK, Thread
<1>3. /\ c \in Command /\ c \in ToSet(queue.follower)
      /\ ToSet(queue.follower) = {c} \cup ToSet(queue.follower)'
      /\ Rising(queue.follower)' /\ \A d \in ToSet(queue.follower)' : c.ticket < d.ticket
  BY <1>2, LineTail DEF LendingInv, Lines
<1>4. \/ /\ forward'.open = forward.open
         /\ pending = <<>> /\ pending' = <<>>
         /\ ToSet(forward.items)' = ToSet(forward.items) \cup {c} /\ Rising(forward.items)'
         /\ ~forward'.open => forward'.items = <<>>
      \/ /\ UNCHANGED forward /\ ~forward.open /\ pending' = <<c>> /\ ToSet(pending)' = {c}
  <2>1. CASE forward.open
    <3>1. /\ forward'.items = Append(forward.items, c) /\ forward'.open = forward.open
          /\ pending' = pending /\ pending = <<>>
      BY <1>1, <2>1 DEF LendingInv, TypeOK, Lines
    <3>2. \A d \in ToSet(forward.items) : d.ticket < c.ticket
      BY <1>3 DEF LendingInv, Lines, Precede
    <3>3. Rising(forward.items)
      BY DEF LendingInv, Lines
    <3> QED
      BY <1>2, <1>3, <2>1, <3>1, <3>2, <3>3, LineAppend
  <2>2. CASE ~forward.open
    BY <1>1, <2>2, LineSmall
  <2> QED
    BY <2>1, <2>2
<1>5. Lines'
  <2>1. Rising(queue.own)' /\ Rising(forward.items)'
    BY <1>2, <1>4 DEF LendingInv, Lines
  <2>2. Precede(forward.items, queue.follower)' /\ Precede(pending, queue.follower)'
    <3>1. Precede(forward.items, queue.follower)
      BY DEF LendingInv, Lines
    <3> QED
      BY <1>3, <1>4, <3>1, LineSmall DEF Precede
  <2>3. forward'.open = returned'.open /\ (~forward'.open => forward'.items = <<>>)
    BY <1>1, <1>4 DEF LendingInv, Lines
  <2>4. pending' # <<>> => ~forward'.open
    BY <1>4
  <2> QED
    BY <1>3, <2>1, <2>2, <2>3, <2>4 DEF Lines
<1>6. Mine' = Mine /\ Theirs' \subseteq Theirs
  BY <1>1, <1>2, <1>3, <1>4, LineSmall DEF Mine, Theirs
<1>7. Answers'
  BY <1>1, <1>6, ThreadAnswers DEF LendingInv, SameCall
<1>8. Carried' = Carried /\ InCommand' = InCommand /\ Linked' = Linked
      /\ Returning' = Returning /\ Free' = Free
  BY <1>1, <1>6 DEF Carried, InCommand, Linked, Returning, Free
<1>9. Closing'
  BY <1>1, <1>2, <1>6 DEF LendingInv, Closing
<1>10. Whereabouts'
  BY <1>1, <1>2, <1>6, <1>8 DEF LendingInv, Whereabouts
<1>11. Order'
  <2>1. InOrder' /\ (\A i \in DOMAIN handled' : handled'[i] <= sent')
    BY <1>1 DEF LendingInv, Order, InOrder
  <2>2. HandledFirst(queue.follower)' /\ HandledFirst(pending)'
    BY <1>1, <1>3, <1>4, LineSmall DEF LendingInv, Order, HandledFirst
  <2>3. (Carried \/ InCommand \/ Linked)' => HandledFirst(forward.items)'
    BY <1>1, <1>3, <1>4, <1>8 DEF LendingInv, Order, HandledFirst
  <2> QED
    BY <2>1, <2>2, <2>3 DEF Order
<1> QED
  BY <1>5, <1>7, <1>9, <1>10, <1>11 DEF LendingInv

\* The follower's thread finishes: what it had left is dropped, whoever closed it is told.
LEMMA FinishEffect ==
    ASSUME LendingInv, NEW left, FollowerFinish(left),
           \A t \in Tickets(left) :
                \E c \in ToSet(queue.follower) \cup ToSet(pending) : c.ticket = t,
           UNCHANGED <<forward, own, sent, deaths>>, returned'.open = returned.open
    PROVE  /\ Lines' /\ Answers' /\ Closing'
           /\ SameCall(app', app) /\ Mine' = Mine /\ (Carried' => Carried)
           /\ app'.answer # app.answer => app.on = "follower"
           /\ queue'.follower = <<>> /\ pending' = <<>>
           /\ pc'.follower = "ended" /\ pc'.own = pc.own
<1>1. /\ queue'.follower = <<>> /\ queue'.own = queue.own /\ pending' = <<>>
      /\ pc'.follower = "ended" /\ pc'.own = pc.own
      /\ app' = Closed(Dropped(app, left), "follower")
      /\ app \in AppTypes /\ forward.items \in Seq(Command)
  BY DEF FollowerFinish, LendingInv, TypeOK, Thread, AppTypes
<1>2. /\ SameCall(app', app)
      /\ app'.answer # app.answer =>
           \/ app.waits \in Tickets(left) /\ app.op # "close"
           \/ app.waits # 0 /\ app.on = "follower" /\ app.op = "close"
      /\ app'.answer = "ok" /\ app.op = "lend" => app.answer = "ok"
  <2> DEFINE a == Dropped(app, left)
  <2>1. a \in AppTypes
    BY <1>1, Replies DEF Answer, Thread
  <2>2. SameCall(a, app) /\ a.answer = IF app.waits \in Tickets(left) /\ app.op # "close"
                                       THEN "dropped" ELSE app.answer
    BY <1>1, AppFields
  <2>3. SameCall(app', a) /\ app'.answer = IF a.waits # 0 /\ a.on = "follower" /\ a.op = "close"
                                           THEN "ok" ELSE a.answer
    BY <1>1, <2>1, AppFields
  <2> QED
    BY <2>2, <2>3 DEF SameCall
<1>3. Mine' = Mine /\ Theirs' = ToSet(forward.items) /\ Theirs' \subseteq Theirs
  BY <1>1, LineSmall DEF Mine, Theirs
<1>4. app.waits \in Tickets(left) =>
        /\ app.on = "follower" /\ app.waits # 0
        /\ \A d \in ToSet(forward.items) : d.ticket # app.waits
  <2>1. SUFFICES ASSUME app.waits \in Tickets(left)
                 PROVE  /\ app.on = "follower" /\ app.waits # 0
                        /\ \A d \in ToSet(forward.items) : d.ticket # app.waits
    OBVIOUS
  <2>2. PICK c \in ToSet(queue.follower) \cup ToSet(pending) : c.ticket = app.waits
    BY <2>1
  <2>3. c \in Theirs /\ c \in Command
    <3>1. queue.follower \in Seq(Command) /\ pending \in Seq(Command)
      BY DEF LendingInv, TypeOK, Thread
    <3> QED
      BY <3>1, LineSmall DEF Theirs
  <2>4. app.on = "follower" /\ app.waits # 0
    BY <2>2, <2>3, LineSmall DEF LendingInv, Answers, Asked
  <2>5. ASSUME NEW d \in ToSet(forward.items)
        PROVE  d.ticket # c.ticket
    <3>1. forward.items # <<>>
      BY <2>5, LineSmall
    <3>2. pending = <<>>
      BY <3>1 DEF LendingInv, Lines
    <3>3. d.ticket < c.ticket
      BY <3>2, LineSmall DEF LendingInv, Lines, Precede
    <3>4. d \in Command
      BY <1>1, LineSmall
    <3> QED
      BY <2>3, <3>3, <3>4, LineSmall
  <2> QED
    BY <2>2, <2>4, <2>5
<1>5. Lines'
  <2>1. Rising(queue.own)' /\ Rising(forward.items)' /\ Rising(queue.follower)'
    BY <1>1, LineSmall DEF LendingInv, Lines
  <2>2. Precede(forward.items, queue.follower)' /\ Precede(pending, queue.follower)'
    BY <1>1, LineSmall DEF Precede
  <2>3. forward'.open = returned'.open /\ (~forward'.open => forward'.items = <<>>)
    BY DEF LendingInv, Lines
  <2> QED
    BY <1>1, <2>1, <2>2, <2>3 DEF Lines
<1>6. Answers'
  <2>1. Free => app'.answer = app.answer
    BY <1>2, <1>4 DEF Free
  <2>2. ASSUME NEW d \in Mine', d.ticket = app.waits
        PROVE  app'.answer = app.answer
    BY <1>2, <1>3, <1>4, <2>2 DEF LendingInv, Answers, Asked
  <2>3. ASSUME NEW d \in Theirs', d.ticket = app.waits
        PROVE  app'.answer = app.answer \/ d.op = "close"
    BY <1>2, <1>3, <1>4, <2>3 DEF LendingInv, Answers, Asked
  <2> QED
    BY <1>2, <1>3, <2>1, <2>2, <2>3, ThreadAnswers DEF LendingInv
<1>7. Closing'
  BY <1>1, <1>2, <1>3 DEF LendingInv, Closing, SameCall
<1>8. Carried' => Carried
  BY <1>2 DEF Carried, SameCall
<1>9. app'.answer # app.answer => app.on = "follower"
  BY <1>2, <1>4
<1> QED
  BY <1>1, <1>2, <1>3, <1>5, <1>6, <1>7, <1>8, <1>9

LEMMA ReturnKeeps ==
    ASSUME LendingInv, TypeOK', Home \/ LoopGone
    PROVE  LendingInv'
<1>1. /\ UNCHANGED <<forward, own, sent, handled, lost, deaths>>
      /\ pc.follower \in {"checking", "awaiting"}
      /\ returned'.items = <<>> /\ returned'.open = returned.open
      /\ \/ FollowerFinish(queue.follower \o pending) /\ UNCHANGED hasLoop
         \/ /\ returned.items # <<>> /\ hasLoop' = TRUE
            /\ pc' = [pc EXCEPT !.follower = "commands"]
            /\ UNCHANGED <<queue, pending, app>>
  BY DEF Home, LoopGone, LendingInv, TypeOK
<1>2. hasLoop = FALSE
  BY <1>1 DEF LendingInv, Whereabouts, TypeOK
<1>3. CASE FollowerFinish(queue.follower \o pending) /\ UNCHANGED hasLoop
  <2>1. \A t \in Tickets(queue.follower \o pending) :
            \E c \in ToSet(queue.follower) \cup ToSet(pending) : c.ticket = t
    <3>1. queue.follower \in Seq(Command) /\ pending \in Seq(Command)
      BY DEF LendingInv, TypeOK, Thread
    <3>2. Tickets(queue.follower \o pending) = Tickets(queue.follower) \cup Tickets(pending)
      BY <3>1, TicketsOf
    <3> QED
      BY <3>2 DEF Tickets
  <2>2. /\ Lines' /\ Answers' /\ Closing'
        /\ SameCall(app', app) /\ Mine' = Mine /\ (Carried' => Carried)
        /\ queue'.follower = <<>> /\ pending' = <<>>
        /\ pc'.follower = "ended" /\ pc'.own = pc.own
    BY <1>1, <1>3, <2>1, FinishEffect
  <2>3. InCommand' = InCommand /\ Linked' = Linked /\ ~Returning' /\ Free' = Free
    BY <1>1, <2>2 DEF InCommand, Linked, Returning, Free, SameCall
  <2>4. Whereabouts'
    BY <1>1, <1>2, <1>3, <2>2, <2>3 DEF LendingInv, Whereabouts, SameCall
  <2>5. Order'
    BY <1>1, <2>2, <2>3, LineSmall, SameOrder DEF LendingInv
  <2> QED
    BY <2>2, <2>4, <2>5 DEF LendingInv
<1>4. CASE /\ returned.items # <<>> /\ hasLoop' = TRUE
           /\ pc' = [pc EXCEPT !.follower = "commands"]
           /\ UNCHANGED <<queue, pending, app>>
  <2>1. pc'.own = pc.own /\ pc'.follower = "commands"
    BY <1>4 DEF LendingInv, TypeOK
  <2>2. /\ Lines' /\ Answers' /\ Order'
        /\ Mine' = Mine /\ Carried' = Carried /\ InCommand' = InCommand /\ Free' = Free
    BY <1>1, <1>4, Unmoved DEF LendingInv, Linked
  <2>3. Closing'
    BY <1>1, <1>4, <2>1, <2>2 DEF LendingInv, Closing
  <2>4. Whereabouts'
    BY <1>1, <1>4, <2>1, <2>2 DEF LendingInv, Whereabouts, Linked, Returning
  <2> QED
    BY <2>2, <2>3, <2>4 DEF LendingInv
<1> QED
  BY <1>1, <1>3, <1>4

LEMMA FollowerCommandKeeps ==
    ASSUME LendingInv, TypeOK', FollowerCommand
    PROVE  LendingInv'
<1> DEFINE c == Taken.command
           rest == Taken.queue
<1>1. /\ pc.follower = "commands" /\ hasLoop = TRUE
      /\ pending # <<>> \/ queue.follower # <<>>
      /\ UNCHANGED <<own, sent, lost, deaths>>
      /\ handled' = Append(handled, c.ticket)
  BY DEF FollowerCommand, LendingInv, Whereabouts, TypeOK
<1>2. \/ /\ c.op = "run" /\ pending' = Taken.pending
         /\ queue' = [queue EXCEPT !.follower = rest]
         /\ app' = Answered(app, c.ticket, "ok")
         /\ UNCHANGED <<pc, hasLoop, forward, returned>>
      \/ /\ c.op = "lend" /\ pending' = Taken.pending
         /\ queue' = [queue EXCEPT !.follower = rest]
         /\ app' = Answered(app, c.ticket, "ok")
         /\ hasLoop' = FALSE
         /\ forward' = [items |-> <<>>, open |-> TRUE]
         /\ returned' = [items |-> <<>>, open |-> TRUE]
         /\ pc' = [pc EXCEPT !.follower = "forwarding"]
      \/ /\ c.op = "close" /\ FollowerFinish(rest)
         /\ hasLoop' = FALSE
         /\ UNCHANGED <<forward, returned>>
  BY DEF FollowerCommand
<1>3. /\ queue.follower \in Seq(Command) /\ pending \in Seq(Command) /\ Len(pending) <= 1
      /\ forward.items \in Seq(Command) /\ app \in AppTypes
  BY DEF LendingInv, TypeOK, Thread, AppTypes
<1>4. Rising(queue.follower) /\ Precede(pending, queue.follower)
      /\ Precede(forward.items, queue.follower) /\ (pending # <<>> => forward.items = <<>>)
  BY DEF LendingInv, Lines
<1>5. /\ c \in Command /\ c \in ToSet(queue.follower) \cup ToSet(pending)
      /\ Taken.pending = <<>> /\ Rising(rest) /\ rest \in Seq(Command)
      /\ ToSet(rest) \subseteq ToSet(queue.follower) /\ \A d \in ToSet(rest) : c.ticket < d.ticket
  <2>1. CASE pending # <<>>
    <3>1. c = Head(pending) /\ Taken.pending = Tail(pending) /\ rest = queue.follower
      BY <2>1 DEF Taken
    <3>2. c \in Command /\ c \in ToSet(pending)
      BY <1>3, <2>1, <3>1, LineTail
    <3>3. Tail(pending) = <<>>
      BY <1>3, <2>1
    <3> QED
      BY <1>3, <1>4, <3>1, <3>2, <3>3 DEF Precede
  <2>2. CASE pending = <<>>
    <3>1. c = Head(queue.follower) /\ Taken.pending = <<>> /\ rest = Tail(queue.follower)
      BY <2>2 DEF Taken
    <3> QED
      BY <1>1, <1>3, <1>4, <2>2, <3>1, LineTail
  <2> QED
    BY <2>1, <2>2
<1> HIDE DEF c, rest
<1>6. c \in Theirs /\ c.ticket \in Nat \ {0} /\ c.ticket <= sent
  BY <1>5, LineSmall DEF Theirs, LendingInv, Answers
<1>7. \A d \in ToSet(forward.items) : d.ticket < c.ticket
  BY <1>4, <1>5, LineSmall DEF Precede
<1>8. ~Carried /\ ~InCommand /\ ~Linked /\ ~Returning
  BY <1>1 DEF LendingInv, Whereabouts
<1>9. /\ InOrder' /\ \A i \in DOMAIN handled' : handled'[i] <= sent'
      /\ \A i \in DOMAIN handled', d \in ToSet(rest) : handled'[i] < d.ticket
  <2>1. \A i \in DOMAIN handled : handled[i] < c.ticket
    BY <1>5 DEF LendingInv, Order, HandledFirst
  <2>2. handled \in Seq(Ticket) /\ \A i \in DOMAIN handled : handled[i] \in Nat
    <3>1. handled \in Seq(Ticket)
      BY DEF LendingInv, TypeOK
    <3>2. \A i \in DOMAIN handled : handled[i] \in Ticket
      BY <3>1
    <3> QED
      BY <3>1, <3>2 DEF Ticket
  <2>3. /\ DOMAIN handled' = 1..(Len(handled) + 1) /\ DOMAIN handled = 1..Len(handled)
        /\ Len(handled) \in Nat /\ handled'[Len(handled) + 1] = c.ticket
        /\ \A i \in DOMAIN handled : handled'[i] = handled[i]
    BY <1>1, <1>6, <2>2
  <2>4. InOrder'
    BY <1>6, <2>1, <2>2, <2>3 DEF InOrder, LendingInv, Order
  <2>5. \A i \in DOMAIN handled' : handled'[i] <= sent'
    BY <1>1, <1>6, <2>3 DEF LendingInv, Order
  <2>6. \A i \in DOMAIN handled', d \in ToSet(rest) : handled'[i] < d.ticket
    <3>1. \A i \in DOMAIN handled, d \in ToSet(rest) : handled[i] < d.ticket
      BY <1>5 DEF LendingInv, Order, HandledFirst
    <3> QED
      BY <1>5, <2>3, <3>1
  <2> QED
    BY <2>4, <2>5, <2>6
<1>10. CASE c.op = "close"
  <2>1. FollowerFinish(rest) /\ hasLoop' = FALSE /\ UNCHANGED <<forward, returned>>
    BY <1>2, <1>10
  <2>2. \A t \in Tickets(rest) :
            \E d \in ToSet(queue.follower) \cup ToSet(pending) : d.ticket = t
    BY <1>5 DEF Tickets
  <2>3. /\ Lines' /\ Answers' /\ Closing'
        /\ SameCall(app', app) /\ Mine' = Mine /\ (Carried' => Carried)
        /\ queue'.follower = <<>> /\ pending' = <<>>
        /\ pc'.follower = "ended" /\ pc'.own = pc.own
    BY <1>1, <2>1, <2>2, FinishEffect
  <2>4. ~Carried' /\ ~InCommand' /\ ~Linked' /\ ~Returning' /\ Free' = Free
    BY <1>1, <1>8, <2>1, <2>3 DEF InCommand, Linked, Returning, Free, SameCall
  <2>5. Whereabouts'
    BY <1>1, <1>8, <2>1, <2>3, <2>4 DEF LendingInv, Whereabouts, SameCall, InCommand
  <2>6. Order'
    BY <1>9, <2>3, <2>4, LineSmall DEF Order, HandledFirst
  <2> QED
    BY <2>3, <2>5, <2>6 DEF LendingInv
<1>11. CASE c.op # "close"
  <2>1. /\ pending' = <<>> /\ queue' = [queue EXCEPT !.follower = rest]
        /\ app' = Answered(app, c.ticket, "ok")
        /\ \/ /\ c.op = "run" /\ UNCHANGED <<pc, hasLoop, forward, returned>>
           \/ /\ c.op = "lend" /\ hasLoop' = FALSE
              /\ forward' = [items |-> <<>>, open |-> TRUE]
              /\ returned' = [items |-> <<>>, open |-> TRUE]
              /\ pc' = [pc EXCEPT !.follower = "forwarding"]
    BY <1>2, <1>5, <1>11
  <2>2. queue'.follower = rest /\ queue'.own = queue.own
    BY <2>1 DEF LendingInv, TypeOK, Thread
  <2>3. Mine' = Mine /\ InCommand' = InCommand /\ Linked' = Linked
    BY <1>1, <2>2 DEF Mine, InCommand, Linked
  <2>4. /\ SameCall(app', app)
        /\ app'.answer = IF app.waits = c.ticket THEN "ok" ELSE app.answer
    <3>1. /\ SameCall(Answered(app, c.ticket, "ok"), app)
          /\ Answered(app, c.ticket, "ok").answer =
               IF app.waits = c.ticket /\ c.ticket # 0 THEN "ok" ELSE app.answer
      BY <1>3, AppFields
    <3> QED
      BY <1>6, <2>1, <3>1
  <2>5. \/ UNCHANGED forward
        \/ forward'.items = <<>> /\ forward'.open = TRUE
    BY <2>1
  <2>6. /\ Theirs' \subseteq Theirs
        /\ \A d \in Theirs' : d.ticket # c.ticket
    <3>1. Theirs' \subseteq ToSet(rest) \cup ToSet(forward.items)
      BY <2>1, <2>2, <2>5, LineSmall DEF Theirs
    <3>2. \A d \in ToSet(rest) \cup ToSet(forward.items) : d \in Command
      BY <1>3, <1>5, LineSmall
    <3>3. \A d \in ToSet(rest) \cup ToSet(forward.items) : d.ticket # c.ticket
      BY <1>5, <1>6, <1>7, <3>2, LineSmall
    <3> QED
      BY <1>5, <3>1, <3>3 DEF Theirs
  <2>7. Lines'
    <3>1. Rising(queue.own)' /\ Rising(queue.follower)' /\ Rising(forward.items)'
      BY <1>5, <2>2, <2>5, LineSmall DEF LendingInv, Lines
    <3>2. Precede(forward.items, queue.follower)' /\ Precede(pending, queue.follower)'
      BY <1>4, <1>5, <2>1, <2>2, <2>5, LineSmall DEF Precede
    <3>3. forward'.open = returned'.open /\ (~forward'.open => forward'.items = <<>>)
      <4>1. forward.open = returned.open /\ (~forward.open => forward.items = <<>>)
        BY DEF LendingInv, Lines
      <4>2. CASE c.op = "run"
        <5>1. UNCHANGED <<forward, returned>>
          BY <2>1, <4>2
        <5> QED
          BY <4>1, <5>1
      <4>3. CASE c.op = "lend"
        <5>1. /\ forward' = [items |-> <<>>, open |-> TRUE]
              /\ returned' = [items |-> <<>>, open |-> TRUE]
          BY <2>1, <4>3
        <5>2. forward'.open = TRUE /\ returned'.open = TRUE
          BY <5>1
        <5> QED
          BY <5>2
      <4> QED
        BY <2>1, <4>2, <4>3
    <3> QED
      BY <2>1, <3>1, <3>2, <3>3 DEF Lines
  <2>8. c.ticket = app.waits => c.op = app.op /\ app.on = "follower"
    BY <1>6 DEF LendingInv, Answers, Asked
  <2>9. Answers'
    <3>1. Free => app'.answer = app.answer
      BY <1>6, <2>4 DEF Free
    <3>2. ASSUME NEW d \in Mine', d.ticket = app.waits
          PROVE  app'.answer = app.answer
      BY <2>3, <2>4, <2>8, <3>2 DEF LendingInv, Answers, Asked
    <3>3. ASSUME NEW d \in Theirs', d.ticket = app.waits
          PROVE  app'.answer = app.answer
      BY <2>4, <2>6, <3>3
    <3> QED
      BY <1>1, <2>3, <2>4, <2>6, <3>1, <3>2, <3>3, ThreadAnswers DEF LendingInv
  <2>10. Closing'
    <3>1. pc'.own = pc.own
      BY <2>1 DEF LendingInv, TypeOK
    <3> QED
      BY <1>1, <2>2, <2>3, <2>4, <3>1 DEF LendingInv, Closing, SameCall
  <2>11. c.op = "lend" => c.ticket = app.waits
    BY <1>6 DEF LendingInv, Answers
  <2>12. \/ c.op = "run" /\ ~Carried' /\ UNCHANGED <<pc, hasLoop, returned>>
         \/ /\ c.op = "lend" /\ Carried' /\ returned'.items = <<>> /\ hasLoop' = FALSE
            /\ pc'.own = pc.own /\ pc'.follower = "forwarding"
            /\ ToSet(forward.items)' = {}
    <3>1. CASE c.op = "run"
      BY <1>8, <2>1, <2>4, <2>8, <3>1 DEF Carried, SameCall
    <3>2. CASE c.op = "lend"
      <4>1. Carried'
        BY <2>4, <2>8, <2>11, <3>2 DEF Carried, SameCall
      <4>2. pc'.own = pc.own /\ pc'.follower = "forwarding"
        BY <2>1, <3>2 DEF LendingInv, TypeOK
      <4> QED
        BY <2>1, <3>2, <4>1, <4>2, LineSmall
    <3> QED
      BY <2>1, <3>1, <3>2
  <2>13. Whereabouts'
    BY <1>1, <1>8, <2>3, <2>4, <2>12 DEF LendingInv, Whereabouts, Returning, SameCall, Free
  <2>14. Order'
    <3>1. HandledFirst(queue.follower)' /\ HandledFirst(pending)'
      BY <1>9, <2>1, <2>2, LineSmall DEF HandledFirst
    <3>2. (Carried \/ InCommand \/ Linked)' => HandledFirst(forward.items)'
      BY <1>8, <2>3, <2>12 DEF HandledFirst
    <3> QED
      BY <1>9, <3>1, <3>2 DEF Order
  <2> QED
    BY <2>7, <2>9, <2>10, <2>13, <2>14 DEF LendingInv
<1> QED
  BY <1>10, <1>11

-----------------------------------------------------------------------------
(* The application.                                                        *)

\* A command sent is behind every other, in the line of its thread.
LEMMA SendLines ==
    ASSUME LendingInv, NEW t \in Thread, NEW op \in Op,
           sent' = sent + 1, sent < MaxCommands, UNCHANGED <<pending, forward, returned, handled>>,
           \/ queue' = queue
           \/ queue' = [queue EXCEPT ![t] = Append(@, [ticket |-> sent + 1, op |-> op])]
    PROVE  /\ Lines'
           /\ Mine' \subseteq Mine \cup (IF t = "own" THEN {[ticket |-> sent + 1, op |-> op]} ELSE {})
           /\ Mine \subseteq Mine'
           /\ Theirs' \subseteq
                Theirs \cup (IF t = "follower" THEN {[ticket |-> sent + 1, op |-> op]} ELSE {})
           /\ t = "follower" => queue'.own = queue.own
           /\ InOrder' /\ (\A i \in DOMAIN handled' : handled'[i] <= sent')
           /\ HandledFirst(queue.follower)' /\ HandledFirst(pending)'
<1> DEFINE c == [ticket |-> sent + 1, op |-> op]
<1>1. c \in Command /\ c.ticket = sent + 1 /\ sent \in Nat /\ sent + 1 \in Nat
  BY LendingBoundsAssumption DEF Command, Ticket, LendingInv, TypeOK
<1> HIDE DEF c
<1>2. /\ queue.own \in Seq(Command) /\ queue.follower \in Seq(Command)
      /\ pending \in Seq(Command) /\ forward.items \in Seq(Command)
  BY DEF LendingInv, TypeOK, Thread
<1>3. /\ queue'.own = queue.own \/ (t = "own" /\ queue'.own = Append(queue.own, c))
      /\ queue'.follower = queue.follower
            \/ (t = "follower" /\ queue'.follower = Append(queue.follower, c))
      /\ t = "follower" => queue'.own = queue.own
  BY SMTT(30) DEF LendingInv, TypeOK, Thread, c
<1>4. \A d \in Mine \cup Theirs : d.ticket < c.ticket
  <2>1. \A d \in Mine \cup Theirs : d \in Command /\ d.ticket <= sent
    BY <1>2, LineSmall DEF Mine, Theirs, LendingInv, Answers
  <2> QED
    BY <1>1, <2>1, LineSmall
<1>5. \A i \in DOMAIN handled : handled[i] < c.ticket /\ handled[i] <= sent + 1
  <2>1. \A i \in DOMAIN handled : handled[i] \in Ticket
    <3>1. handled \in Seq(Ticket)
      BY DEF LendingInv, TypeOK
    <3> QED
      BY <3>1
  <2>2. \A i \in DOMAIN handled : handled[i] <= sent
    BY DEF LendingInv, Order
  <2> QED
    BY <1>1, <2>1, <2>2 DEF Ticket
<1>6. /\ Rising(queue.own)' /\ Rising(queue.follower)'
      /\ ToSet(queue.own)' \subseteq ToSet(queue.own) \cup (IF t = "own" THEN {c} ELSE {})
      /\ ToSet(queue.own) \subseteq ToSet(queue.own)'
      /\ ToSet(queue.follower)' \subseteq
            ToSet(queue.follower) \cup (IF t = "follower" THEN {c} ELSE {})
  <2>1. Rising(queue.own) /\ Rising(queue.follower)
    BY DEF LendingInv, Lines
  <2>2. /\ \A d \in ToSet(queue.own) : d.ticket < c.ticket
        /\ \A d \in ToSet(queue.follower) : d.ticket < c.ticket
    BY <1>4 DEF Mine, Theirs
  <2>3. /\ ToSet(Append(queue.own, c)) = ToSet(queue.own) \cup {c}
        /\ ToSet(Append(queue.follower, c)) = ToSet(queue.follower) \cup {c}
        /\ Rising(Append(queue.own, c)) /\ Rising(Append(queue.follower, c))
    BY <1>1, <1>2, <2>1, <2>2, LineAppend
  <2> QED
    BY <1>3, <2>1, <2>3
<1>7. Lines'
  <2>1. Precede(forward.items, queue.follower)' /\ Precede(pending, queue.follower)'
    BY <1>4, <1>6 DEF Precede, LendingInv, Lines, Theirs
  <2> QED
    BY <1>6, <2>1 DEF LendingInv, Lines
<1>8. /\ Mine' \subseteq Mine \cup (IF t = "own" THEN {c} ELSE {}) /\ Mine \subseteq Mine'
      /\ Theirs' \subseteq Theirs \cup (IF t = "follower" THEN {c} ELSE {})
  BY <1>6 DEF Mine, Theirs
<1>9. InOrder' /\ (\A i \in DOMAIN handled' : handled'[i] <= sent')
  BY <1>5 DEF LendingInv, Order, InOrder
<1>10. HandledFirst(queue.follower)' /\ HandledFirst(pending)'
  BY <1>5, <1>6 DEF LendingInv, Order, HandledFirst
<1> QED
  BY <1>3, <1>7, <1>8, <1>9, <1>10 DEF c

\* With nothing to wait for, no command on its way is the one waited for.
LEMMA NobodyWaits ==
    ASSUME LendingInv, Free
    PROVE  /\ app.answer = "none" /\ (Carried <=> app.phase = "carrying")
           /\ \A c \in Mine : c.ticket \in Nat \ {0} /\ c.ticket <= sent
           /\ \A c \in Theirs : c.ticket \in Nat \ {0} /\ c.ticket <= sent /\ c.op # "lend"
<1>1. app.answer = "none" /\ app.waits = 0
  BY DEF LendingInv, Answers, Free
<1>2. \A c \in Mine \cup Theirs : c \in Command
  <2>1. /\ queue.own \in Seq(Command) /\ queue.follower \in Seq(Command)
        /\ pending \in Seq(Command) /\ forward.items \in Seq(Command)
    BY DEF LendingInv, TypeOK, Thread
  <2> QED
    BY <2>1, LineSmall DEF Mine, Theirs
<1> QED
  BY <1>1, <1>2, LineSmall DEF LendingInv, Answers, Carried

LEMMA CallKeeps ==
    ASSUME LendingInv, TypeOK', Free, NEW t \in Thread, NEW op \in Op, NEW a \in AppTypes,
           CallFrom(t, op, a), a.waits = 0, a.answer = "none",
           app.phase # "carrying", a.phase # "carrying",
           app.closed \subseteq a.closed,
           t = "own" => op \in {"hold", "release", "unlink", "close"} /\ "own" \notin app.closed,
           t = "follower" => op \in {"run", "lend", "close"},
           t = "own" /\ op = "close" => "own" \in a.closed,
           op = "lend" => "own" \notin a.closed
    PROVE  LendingInv'
<1> DEFINE c == [ticket |-> sent + 1, op |-> op]
<1>1. /\ sent' = sent + 1 /\ sent < MaxCommands /\ sent \in Nat
      /\ UNCHANGED <<pc, hasLoop, pending, forward, returned, own, handled, lost, deaths>>
      /\ queue' = queue \/ queue' = [queue EXCEPT ![t] = Append(@, [ticket |-> sent + 1, op |-> op])]
  BY SMTT(30) DEF CallFrom, Put, LendingInv, TypeOK
<1>2. \/ /\ queue' = queue
         /\ app'.waits = 0 /\ app'.answer = "none"
         /\ app'.phase = a.phase /\ app'.closed = a.closed
      \/ /\ app'.waits = sent + 1 /\ app'.answer = "none" /\ app'.on = t /\ app'.op = op
         /\ app'.phase = a.phase /\ app'.closed = a.closed
  <2>1. CASE pc[t] = "ended"
    BY <2>1 DEF CallFrom, Put, AppTypes
  <2>2. CASE pc[t] # "ended"
    BY <2>2 DEF CallFrom, Put, AppTypes
  <2> QED
    BY <2>1, <2>2
<1>3. /\ Lines'
      /\ Mine' \subseteq Mine \cup (IF t = "own" THEN {c} ELSE {})
      /\ Mine \subseteq Mine'
      /\ Theirs' \subseteq Theirs \cup (IF t = "follower" THEN {c} ELSE {})
      /\ t = "follower" => queue'.own = queue.own
      /\ InOrder' /\ (\A i \in DOMAIN handled' : handled'[i] <= sent')
      /\ HandledFirst(queue.follower)' /\ HandledFirst(pending)'
  BY <1>1, SendLines
<1>4. c.ticket = sent + 1 /\ c.op = op
  OBVIOUS
<1> HIDE DEF c
<1>5. /\ app.answer = "none" /\ ~Carried
      /\ \A d \in Mine : d.ticket \in Nat \ {0} /\ d.ticket <= sent
      /\ \A d \in Theirs : d.ticket \in Nat \ {0} /\ d.ticket <= sent /\ d.op # "lend"
  BY NobodyWaits
<1>6. queue' = queue => Mine' = Mine /\ Theirs' = Theirs
  BY <1>1 DEF Mine, Theirs
<1>7. Answers'
  <2>1. app'.waits <= sent' /\ (Free' => app'.answer = "none")
    BY <1>1, <1>2
  <2>2. ASSUME NEW d \in Mine'
        PROVE  /\ d.op \in {"hold", "release", "link", "unlink", "close"}
               /\ d.ticket <= sent' /\ Asked(d, "own")'
    <3>1. CASE d \in Mine
      BY <1>1, <1>2, <1>5, <3>1 DEF LendingInv, Answers, Asked
    <3>2. CASE d \notin Mine
      <4>1. d = c /\ t = "own"
        BY <1>3, <2>2, <3>2
      <4>2. app'.waits = sent + 1 /\ app'.answer = "none" /\ app'.on = t /\ app'.op = op
        BY <1>2, <1>6, <2>2, <3>2
      <4> QED
        BY <1>1, <1>4, <4>1, <4>2 DEF Asked
    <3> QED
      BY <3>1, <3>2
  <2>3. ASSUME NEW d \in Theirs'
        PROVE  /\ d.op \in {"run", "lend", "close"}
               /\ d.ticket <= sent' /\ Asked(d, "follower")'
               /\ d.op = "lend" => d.ticket = app'.waits
    <3>1. CASE d \in Theirs
      BY <1>1, <1>2, <1>5, <3>1 DEF LendingInv, Answers, Asked
    <3>2. CASE d \notin Theirs
      <4>1. d = c /\ t = "follower"
        BY <1>3, <2>3, <3>2
      <4>2. app'.waits = sent + 1 /\ app'.answer = "none" /\ app'.on = t /\ app'.op = op
        BY <1>2, <1>6, <2>3, <3>2
      <4> QED
        BY <1>1, <1>4, <4>1, <4>2 DEF Asked
    <3> QED
      BY <3>1, <3>2
  <2> QED
    BY <2>1, <2>2, <2>3 DEF Answers
<1>8. Closing'
  <2>1. "own" \in app.closed => "own" \in app'.closed /\ t = "follower"
    BY <1>2 DEF Thread
  <2>2. \A d \in Mine' : d.op = "close" =>
            "own" \in app'.closed /\ \A e \in Mine' : e.ticket <= d.ticket
    <3>1. CASE t = "own"
      <4>1. \A d \in Mine : d.op # "close"
        BY <3>1 DEF LendingInv, Closing
      <4> QED
        BY <1>1, <1>2, <1>3, <1>4, <1>5, <3>1, <4>1
    <3>2. CASE t = "follower"
      BY <1>3, <2>1, <3>2 DEF LendingInv, Closing
    <3> QED
      BY <3>1, <3>2 DEF Thread
  <2>3. own'.reply # 0 =>
            /\ pc'.own = "ending" /\ own'.reply <= sent'
            /\ own'.reply = app'.waits => app'.op = "unlink" /\ app'.on = "own"
            /\ \A d \in Mine' : own'.reply < d.ticket
    <3>1. own.reply \in Nat
      BY DEF LendingInv, TypeOK
    <3>2. own.reply # 0 => pc.own = "ending" /\ own.reply <= sent /\ \A d \in Mine : own.reply < d.ticket
      BY DEF LendingInv, Closing
    <3> QED
      BY <1>1, <1>2, <1>3, <1>4, <1>5, <3>1, <3>2
  <2>4. pc'.own = "ending" /\ own'.after = "idle" /\ own'.reply = 0 =>
            queue'.own = <<>> /\ "own" \in app'.closed
    BY <1>1, <1>3, <2>1 DEF LendingInv, Closing
  <2>5. pc'.own = "ended" /\ deaths' = 0 => "own" \in app'.closed
    BY <1>1, <2>1 DEF LendingInv, Closing
  <2> QED
    BY <2>2, <2>3, <2>4, <2>5 DEF Closing
<1>9. InCommand' = InCommand
  <2>1. op # "link"
    BY DEF Thread
  <2> QED
    BY <1>3, <1>4, <2>1 DEF InCommand
<1>10. ~Carried' /\ Linked' = Linked /\ Returning' = Returning
  BY <1>1, <1>2 DEF Carried, Linked, Returning
<1>11. Whereabouts'
  <2>1. \A d, e \in Mine' : d.op = "link" /\ e.op = "link" => d = e
    <3>1. op # "link"
      BY DEF Thread
    <3> QED
      BY <1>3, <1>4, <3>1 DEF LendingInv, Whereabouts
  <2>2. app'.phase # "carrying"
    BY <1>2
  <2>3. ~Free' /\ app'.op = "lend" => "own" \notin app'.closed
    BY <1>2 DEF Free
  <2> QED
    BY <1>1, <1>5, <1>9, <1>10, <2>1, <2>2, <2>3 DEF LendingInv, Whereabouts
<1>12. Order'
  BY <1>1, <1>3, <1>5, <1>9, <1>10 DEF LendingInv, Order, HandledFirst
<1> QED
  BY <1>3, <1>7, <1>8, <1>11, <1>12 DEF LendingInv

LEMMA SendKeeps ==
    ASSUME LendingInv, TypeOK', Send
    PROVE  LendingInv'
<1> DEFINE c == [ticket |-> sent + 1, op |-> "run"]
<1>1. /\ Free /\ sent' = sent + 1 /\ sent < MaxCommands /\ sent \in Nat
      /\ UNCHANGED <<pc, hasLoop, pending, forward, returned, own, handled, lost, deaths>>
      /\ queue' = queue
            \/ queue' = [queue EXCEPT !["follower"] = Append(@, [ticket |-> sent + 1, op |-> "run"])]
      /\ SameCall(app', app) /\ app'.answer = app.answer
  <2>1. Free /\ Put("follower", "run", app)
    BY DEF Send, Open
  <2>2. app' = app \/ app' = [app EXCEPT !.alive["follower"] = FALSE]
    BY <2>1 DEF Put
  <2>3. SameCall(app', app) /\ app'.answer = app.answer
    BY <2>2 DEF SameCall, LendingInv, TypeOK
  <2> QED
    BY <2>1, <2>3 DEF Put, LendingInv, TypeOK
<1>2. /\ Lines'
      /\ Mine' = Mine /\ queue'.own = queue.own
      /\ Theirs' \subseteq Theirs \cup {c}
      /\ InOrder' /\ (\A i \in DOMAIN handled' : handled'[i] <= sent')
      /\ HandledFirst(queue.follower)' /\ HandledFirst(pending)'
  <2>1. "follower" \in Thread /\ "run" \in Op /\ "follower" # "own"
    BY DEF Thread, Op
  <2> QED
    BY <1>1, <2>1, SendLines DEF Mine
<1>3. c.ticket = sent + 1 /\ c.op = "run"
  OBVIOUS
<1> HIDE DEF c
<1>4. /\ app.waits = 0 /\ app.answer = "none"
      /\ \A d \in Mine : d.ticket \in Nat \ {0} /\ d.ticket <= sent
      /\ \A d \in Theirs : d.ticket \in Nat \ {0} /\ d.ticket <= sent /\ d.op # "lend"
  BY <1>1, NobodyWaits DEF Free
<1>5. Answers'
  <2>1. app'.waits <= sent' /\ app'.answer = "none" /\ app'.waits = 0
    BY <1>1, <1>4 DEF SameCall
  <2>2. ASSUME NEW d \in Mine'
        PROVE  /\ d.op \in {"hold", "release", "link", "unlink", "close"}
               /\ d.ticket <= sent' /\ d.ticket # app'.waits
    BY <1>1, <1>2, <1>4, <2>1, <2>2 DEF LendingInv, Answers
  <2>3. ASSUME NEW d \in Theirs'
        PROVE  /\ d.op \in {"run", "lend", "close"} /\ d.op # "lend"
               /\ d.ticket <= sent' /\ d.ticket # app'.waits
    BY <1>1, <1>2, <1>3, <1>4, <2>1, <2>3 DEF LendingInv, Answers
  <2> QED
    BY <2>1, <2>2, <2>3 DEF Answers, Asked
<1>6. Carried' = Carried /\ InCommand' = InCommand /\ Linked' = Linked
      /\ Returning' = Returning /\ Free' = Free
  BY <1>1, <1>2 DEF Carried, InCommand, Linked, Returning, Free, SameCall
<1>7. Closing'
  <2>1. own.reply # 0 => own.reply <= sent'
    BY <1>1 DEF LendingInv, Closing, TypeOK
  <2> QED
    BY <1>1, <1>2, <2>1 DEF LendingInv, Closing, SameCall
<1>8. Whereabouts'
  BY <1>1, <1>2, <1>6 DEF LendingInv, Whereabouts, SameCall
<1>9. Order'
  BY <1>1, <1>2, <1>6 DEF LendingInv, Order, HandledFirst
<1> QED
  BY <1>2, <1>5, <1>7, <1>8, <1>9 DEF LendingInv

LEMMA LinkTogetherKeeps ==
    ASSUME LendingInv, TypeOK', LinkTogether
    PROVE  LendingInv'
<1> DEFINE c == [ticket |-> sent + 1, op |-> "link"]
           plugged == [app EXCEPT !.phase = "plugged"]
           alone == [plugged EXCEPT !.alive["own"] = FALSE]
<1>1. Free /\ app.phase = "carrying" /\ sent < MaxCommands /\ sent \in Nat
  BY DEF LinkTogether, LendingInv, TypeOK
<1>2. /\ app.waits = 0 /\ app.answer = "none" /\ Carried
      /\ \A d \in Mine : d.ticket \in Nat \ {0} /\ d.ticket <= sent
      /\ \A d \in Theirs : d.ticket \in Nat \ {0} /\ d.ticket <= sent /\ d.op # "lend"
  BY <1>1, NobodyWaits DEF Free
<1>3. ~hasLoop /\ ~InCommand /\ ~Linked /\ ~Returning /\ "own" \notin app.closed
  BY <1>1, <1>2 DEF LendingInv, Whereabouts
<1>4. /\ app \in AppTypes
      /\ plugged.waits = 0 /\ plugged.answer = "none" /\ plugged.closed = app.closed
      /\ plugged.phase = "plugged" /\ plugged.op = app.op /\ plugged.on = app.on
      /\ alone.waits = 0 /\ alone.answer = "none" /\ alone.closed = app.closed
      /\ alone.phase = "plugged" /\ alone.op = app.op /\ alone.on = app.on
      /\ alone \in AppTypes
  <2>1. app \in AppTypes /\ "own" \in Thread /\ "plugged" \in Phase
    BY DEF LendingInv, TypeOK, AppTypes, Thread, Phase
  <2>2. plugged \in AppTypes /\ alone \in AppTypes
    BY <2>1 DEF AppTypes
  <2> QED
    BY <1>2, <2>1, <2>2 DEF AppTypes
<1>5. /\ \/ /\ pc["own"] # "ended"
            /\ UNCHANGED <<forward, returned>>
            /\ queue' = [queue EXCEPT !["own"] = Append(@, [ticket |-> sent + 1, op |-> "link"])]
            /\ app' = plugged
         \/ /\ pc["own"] = "ended" /\ UNCHANGED queue
            /\ app' = Dropped(alone, forward.items)
            /\ forward' = [items |-> <<>>, open |-> FALSE]
            /\ returned' = [returned EXCEPT !.open = FALSE]
      /\ sent' = sent + 1
      /\ UNCHANGED <<pc, hasLoop, pending, own, handled, lost, deaths>>
  BY DEF LinkTogether, Put
<1>6. Closing /\ own.reply \in Nat
  BY DEF LendingInv, TypeOK
<1>7. CASE pc["own"] # "ended"
  <2>1. /\ UNCHANGED <<forward, returned>> /\ app' = plugged
        /\ queue' = [queue EXCEPT !["own"] = Append(@, [ticket |-> sent + 1, op |-> "link"])]
    BY <1>5, <1>7
  <2>2. /\ Lines'
        /\ Mine' \subseteq Mine \cup {c} /\ Theirs' \subseteq Theirs
        /\ InOrder' /\ (\A i \in DOMAIN handled' : handled'[i] <= sent')
        /\ HandledFirst(queue.follower)' /\ HandledFirst(pending)'
    <3>1. "own" \in Thread /\ "link" \in Op /\ "follower" # "own"
      BY DEF Thread, Op
    <3> QED
      BY <1>1, <1>5, <2>1, <3>1, SendLines
  <2>3. c \in Mine'
    <3>1. queue.own \in Seq(Command) /\ queue'.own = Append(queue.own, c)
      BY <2>1 DEF LendingInv, TypeOK, Thread
    <3>2. c \in Command
      BY <1>1, LendingBoundsAssumption DEF Command, Ticket, Op
    <3> QED
      BY <3>1, <3>2, LineAppend DEF Mine
  <2>4. c.ticket = sent + 1 /\ c.op = "link"
    OBVIOUS
  <2> HIDE DEF c
  <2>5. Answers'
    <3>1. ASSUME NEW d \in Mine'
          PROVE  /\ d.op \in {"hold", "release", "link", "unlink", "close"}
                 /\ d.ticket <= sent' /\ d.ticket # 0
      BY <1>1, <1>2, <1>5, <2>2, <2>4, <3>1 DEF LendingInv, Answers
    <3>2. ASSUME NEW d \in Theirs'
          PROVE  /\ d.op \in {"run", "lend", "close"} /\ d.op # "lend"
                 /\ d.ticket <= sent' /\ d.ticket # 0
      BY <1>1, <1>2, <1>5, <2>2, <3>2 DEF LendingInv, Answers
    <3>3. app'.waits = 0 /\ app'.answer = "none" /\ 0 <= sent'
      BY <1>1, <1>4, <1>5, <2>1
    <3> QED
      BY <3>1, <3>2, <3>3 DEF Answers, Asked
  <2>6. Closing'
    <3>1. \A d \in Mine' : d.op # "close"
      BY <1>3, <1>6, <2>2, <2>4 DEF Closing
    <3>2. own'.reply # 0 =>
            /\ pc'.own = "ending" /\ own'.reply <= sent' /\ own'.reply # app'.waits
            /\ \A d \in Mine' : own'.reply < d.ticket
      BY <1>1, <1>4, <1>5, <1>6, <2>1, <2>2, <2>4 DEF Closing
    <3>3. ~(pc'.own = "ending" /\ own'.after = "idle" /\ own'.reply = 0)
      BY <1>3, <1>5, <1>6 DEF Closing
    <3> QED
      BY <1>5, <1>7, <3>1, <3>2, <3>3 DEF Closing
  <2>7. ~Carried' /\ InCommand' /\ ~Linked' /\ ~Returning' /\ ~hasLoop'
    BY <1>3, <1>4, <1>5, <2>1, <2>3, <2>4 DEF Carried, InCommand, Linked, Returning
  <2>8. Whereabouts'
    <3>1. \A d, e \in Mine' : d.op = "link" /\ e.op = "link" => d = e
      BY <1>3, <2>2 DEF InCommand
    <3>2. app'.phase # "carrying" /\ Free'
      BY <1>4, <2>1 DEF Free
    <3> QED
      BY <1>3, <1>5, <2>7, <3>1, <3>2 DEF LendingInv, Whereabouts
  <2>9. Order'
    BY <1>2, <1>5, <2>1, <2>2 DEF LendingInv, Order, HandledFirst
  <2> QED
    BY <2>2, <2>5, <2>6, <2>8, <2>9 DEF LendingInv
<1>8. CASE pc["own"] = "ended"
  <2>1. /\ UNCHANGED queue /\ app' = Dropped(alone, forward.items)
        /\ forward' = [items |-> <<>>, open |-> FALSE]
        /\ returned' = [returned EXCEPT !.open = FALSE]
    BY <1>5, <1>8
  <2>2. forward.items \in Seq(Command) /\ forward'.items = <<>>
        /\ forward'.open = FALSE /\ returned'.open = FALSE /\ returned'.items = returned.items
    BY <2>1 DEF LendingInv, TypeOK
  <2>3. app'.waits = 0 /\ app'.closed = app.closed /\ app'.answer = "none"
        /\ app'.phase = "plugged" /\ app'.op = app.op
    <3>1. 0 \notin Tickets(forward.items)
      BY <2>2, LineSmall DEF Tickets
    <3>2. SameCall(Dropped(alone, forward.items), alone)
          /\ Dropped(alone, forward.items).answer =
               IF alone.waits \in Tickets(forward.items) /\ alone.op # "close"
               THEN "dropped" ELSE alone.answer
      BY <1>4, AppFields
    <3> HIDE DEF alone
    <3> QED
      BY <1>4, <2>1, <3>1, <3>2 DEF SameCall
  <2>4. /\ Lines' /\ Mine' = Mine /\ Theirs' \subseteq Theirs
    <3>1. Lines' /\ Theirs' \subseteq Theirs
      BY <1>5, <2>1, <2>2, OwnLines DEF LendingInv
    <3> QED
      BY <2>1, <3>1 DEF Mine
  <2>5. Answers'
    <3>1. 0 <= sent' /\ \A d \in Mine' \cup Theirs' : d.ticket <= sent' /\ d.ticket # 0
      BY <1>1, <1>2, <1>5, <2>4
    <3> QED
      BY <1>2, <2>3, <2>4, <3>1 DEF LendingInv, Answers, Asked
  <2>6. Closing'
    <3>1. own.reply = 0
      BY <1>6, <1>8 DEF Closing
    <3> QED
      BY <1>5, <1>6, <1>8, <2>3, <2>4, <3>1 DEF Closing
  <2>7. ~Carried' /\ ~InCommand' /\ ~Linked' /\ ~Returning' /\ ~hasLoop' /\ Free'
    BY <1>3, <1>5, <2>2, <2>3, <2>4 DEF Carried, InCommand, Linked, Returning, Free
  <2>8. deaths' # 0
    BY <1>3, <1>5, <1>6, <1>8 DEF Closing
  <2>9. Whereabouts'
    BY <1>3, <1>5, <2>3, <2>4, <2>7, <2>8 DEF LendingInv, Whereabouts
  <2>10. Order'
    <3>1. InOrder' /\ \A i \in DOMAIN handled' : handled'[i] <= sent'
      <4>1. \A i \in DOMAIN handled : handled[i] \in Ticket
        <5>1. handled \in Seq(Ticket)
          BY DEF LendingInv, TypeOK
        <5> QED
          BY <5>1
      <4> QED
        BY <1>1, <1>5, <4>1 DEF LendingInv, Order, InOrder, Ticket
    <3> QED
      BY <1>5, <2>1, <2>7, <3>1 DEF LendingInv, Order, HandledFirst
  <2> QED
    BY <2>4, <2>5, <2>6, <2>9, <2>10 DEF LendingInv
<1> QED
  BY <1>7, <1>8

LEMMA GoOnKeeps ==
    ASSUME LendingInv, TypeOK', GoOn
    PROVE  LendingInv'
<1> DEFINE back == [app EXCEPT !.waits = 0, !.answer = "none",
                               !.alive[app.on] = @ /\ app.answer # "dropped"]
<1>1. /\ ~Free /\ app.answer # "none"
      /\ UNCHANGED <<queue, pc, hasLoop, pending, forward, returned, own, sent, handled, lost, deaths>>
      /\ app' = IF app.answer # "ok" THEN back
                ELSE [back EXCEPT !.phase = CASE app.op = "hold" -> "held"
                                              [] app.op = "lend" -> "carrying"
                                              [] OTHER -> @]
  BY DEF GoOn
<1>2. /\ back.waits = 0 /\ back.answer = "none" /\ back.op = app.op /\ back.on = app.on
      /\ back.phase = app.phase /\ back.closed = app.closed
      /\ back \in AppTypes
  <2>1. app \in AppTypes /\ app.on \in Thread /\ 0 \in 0..MaxCommands /\ "none" \in Answer
    BY LendingBoundsAssumption, SMTT(30) DEF LendingInv, TypeOK, AppTypes, Answer
  <2>2. [app.alive EXCEPT ![app.on] = @ /\ app.answer # "dropped"] \in [Thread -> BOOLEAN]
    BY <2>1 DEF AppTypes
  <2> QED
    BY <2>1, <2>2 DEF AppTypes
<1> HIDE DEF back
<1>3. /\ app'.waits = 0 /\ app'.answer = "none" /\ app'.op = app.op /\ app'.closed = app.closed
      /\ app'.phase = "carrying" <=>
           app.phase = "carrying" \/ (app.op = "lend" /\ app.answer = "ok")
  <2>1. CASE app.answer # "ok"
    BY <1>1, <1>2, <2>1
  <2>2. CASE app.answer = "ok"
    <3>1. CASE app.op = "hold"
      <4>1. app' = [back EXCEPT !.phase = "held"]
        BY <1>1, <2>2, <3>1
      <4>2. app.phase # "carrying"
        BY <1>1 DEF LendingInv, Whereabouts
      <4> QED
        BY <1>2, <3>1, <4>1, <4>2 DEF AppTypes
    <3>2. CASE app.op = "lend"
      <4>1. app' = [back EXCEPT !.phase = "carrying"]
        BY <1>1, <2>2, <3>2
      <4> QED
        BY <1>2, <2>2, <3>2, <4>1 DEF AppTypes
    <3>3. CASE app.op # "hold" /\ app.op # "lend"
      <4>1. app' = [back EXCEPT !.phase = back.phase]
        BY <1>1, <2>2, <3>3
      <4> QED
        BY <1>2, <3>3, <4>1 DEF AppTypes
    <3> QED
      BY <3>1, <3>2, <3>3
  <2> QED
    BY <2>1, <2>2
<1>4. Carried' = Carried /\ InCommand' = InCommand /\ Linked' = Linked /\ Returning' = Returning
      /\ Mine' = Mine /\ Theirs' = Theirs
  BY <1>1, <1>3 DEF Carried, InCommand, Linked, Returning, Mine, Theirs
<1>5. Lines'
  BY <1>1 DEF LendingInv, Lines
<1>6. \A c \in Mine \cup Theirs : c.ticket \in Nat \ {0}
  <2>1. /\ queue.own \in Seq(Command) /\ queue.follower \in Seq(Command)
        /\ pending \in Seq(Command) /\ forward.items \in Seq(Command)
    BY DEF LendingInv, TypeOK, Thread
  <2>2. \A c \in Mine \cup Theirs : c \in Command
    BY <2>1, LineSmall DEF Mine, Theirs
  <2> QED
    BY <2>2, LineSmall
<1>7. \A c \in Theirs : c.op # "lend"
  BY <1>1 DEF LendingInv, Answers, Asked
<1>8. Answers'
  <2>1. 0 <= sent'
    BY <1>1 DEF LendingInv, TypeOK
  <2> QED
    BY <1>1, <1>3, <1>4, <1>6, <1>7, <2>1 DEF LendingInv, Answers, Asked
<1>9. Closing'
  BY <1>1, <1>3, <1>4 DEF LendingInv, Closing
<1>10. Free' /\ (app'.phase = "carrying" => "own" \notin app'.closed)
  BY <1>1, <1>3 DEF Free, LendingInv, Whereabouts
<1>11. Whereabouts'
  BY <1>1, <1>4, <1>10 DEF LendingInv, Whereabouts
<1>12. Order'
  BY <1>1, <1>4, SameOrder DEF LendingInv
<1> QED
  BY <1>5, <1>8, <1>9, <1>11, <1>12 DEF LendingInv

LEMMA ApplicationKeeps ==
    ASSUME LendingInv, TypeOK', Application
    PROVE  LendingInv'
<1>1. /\ {"run", "hold", "release", "lend", "link", "unlink", "close"} = Op
      /\ Thread = {"own", "follower"}
      /\ app \in AppTypes
  BY DEF Op, Thread, LendingInv, TypeOK, AppTypes
<1>2. Free => app.waits = 0 /\ app.answer = "none"
  BY NobodyWaits DEF Free
<1>3. CASE Call
  BY <1>1, <1>2, <1>3, CallKeeps DEF Call, Open
<1>4. CASE Hold
  BY <1>1, <1>2, <1>4, CallKeeps DEF Hold, Open
<1>5. CASE Lend
  BY <1>1, <1>2, <1>5, CallKeeps DEF Lend, Open
<1>6. CASE Release \/ Unlink
  <2> DEFINE idle == [app EXCEPT !.phase = "idle"]
  <2>1. /\ idle \in AppTypes /\ idle.phase = "idle" /\ idle.waits = app.waits
        /\ idle.answer = app.answer /\ idle.closed = app.closed
    BY <1>1 DEF AppTypes, Phase
  <2>2. \E op \in {"release", "unlink"} : CallFrom("own", op, idle)
    BY <1>6 DEF Release, Unlink
  <2>3. Free /\ "own" \notin app.closed /\ app.phase # "carrying"
    BY <1>6 DEF Release, Unlink, Open
  <2> HIDE DEF idle
  <2> QED
    BY <1>1, <1>2, <2>1, <2>2, <2>3, CallKeeps
<1>7. ASSUME NEW t \in Thread, Drop(t)
      PROVE  LendingInv'
  <2> DEFINE closing == [app EXCEPT !.closed = @ \cup {t}]
  <2>1. /\ closing \in AppTypes /\ closing.phase = app.phase /\ closing.waits = app.waits
        /\ closing.answer = app.answer /\ closing.closed = app.closed \cup {t}
    BY <1>1 DEF AppTypes
  <2>2. CallFrom(t, "close", closing) /\ Free /\ t \notin app.closed /\ app.phase # "carrying"
    BY <1>7 DEF Drop, Open
  <2> HIDE DEF closing
  <2> QED
    BY <1>1, <1>2, <2>1, <2>2, CallKeeps
<1> QED
  BY <1>3, <1>4, <1>5, <1>6, <1>7, SendKeeps, LinkTogetherKeeps, GoOnKeeps DEF Application

-----------------------------------------------------------------------------
(* The theorems.                                                           *)

LEMMA LendingInduction ==
    /\ Init => LendingInv
    /\ LendingInv /\ [Next]_vars => LendingInv'
<1>1. Init => TypeOK
  BY LendingBoundsAssumption DEF Init, TypeOK, Thread, Link, Status, Phase, Answer, Op
<1>2. ASSUME Init
      PROVE  LendingInv
  <2>1. Mine = {} /\ Theirs = {} /\ ToSet(queue.follower) = {} /\ ToSet(pending) = {}
        /\ ToSet(forward.items) = {} /\ Rising(<<>>)
    BY <1>2, LineSmall DEF Init, Mine, Theirs, Thread
  <2>2. Lines
    BY <1>2, <2>1 DEF Init, Lines, Precede, Thread
  <2>3. Answers /\ Closing
    BY <1>2, <2>1 DEF Init, Answers, Closing, Free
  <2>4. Whereabouts
    BY <1>2, <2>1 DEF Init, Whereabouts, Carried, InCommand, Linked, Returning, Free
  <2>5. Order
    <3>1. DOMAIN handled = {}
      BY <1>2 DEF Init
    <3> QED
      BY <2>1, <3>1 DEF Order, InOrder, HandledFirst
  <2> QED
    BY <1>1, <1>2, <2>2, <2>3, <2>4, <2>5 DEF LendingInv
<1>3. ASSUME LendingInv, [Next]_vars
      PROVE  LendingInv'
  <2>1. TypeOK'
    <3>1. TypeOK
      BY <1>3 DEF LendingInv
    <3>2. CASE Next
      BY <3>1, <3>2, OwnTypes, FollowerTypes, ApplicationTypes DEF Next
    <3>3. CASE UNCHANGED vars
      BY <3>1, <3>3 DEF vars, TypeOK
    <3> QED
      BY <1>3, <3>2, <3>3
  <2>2. CASE OwnThread \/ Die
    <3>1. CASE Forwarded
      BY <1>3, <2>1, <3>1, ForwardedKeeps, OwnIdleKeeps
    <3> QED
      BY <1>3, <2>1, <2>2, <3>1, OwnCommandKeeps, OwnIdleKeeps, EndLinkKeeps, DieKeeps DEF OwnThread
  <2>3. CASE FollowerThread
    <3>1. CASE Forward
      BY <1>3, <2>1, <3>1, ForwardKeeps, FollowerIdleKeeps
    <3> QED
      BY <1>3, <2>1, <2>3, <3>1, FollowerCommandKeeps, ReturnKeeps, FollowerIdleKeeps
         DEF FollowerThread
  <2>4. CASE Application
    BY <1>3, <2>1, <2>4, ApplicationKeeps
  <2>5. CASE UNCHANGED vars
    <3>1. /\ Lines' /\ Answers' /\ Order'
          /\ Mine' = Mine /\ Carried' = Carried /\ InCommand' = InCommand /\ Free' = Free
      BY <1>3, <2>5, Unmoved DEF LendingInv, vars, Linked
    <3>2. Closing'
      BY <1>3, <2>5, <3>1 DEF LendingInv, vars, Closing
    <3>3. Whereabouts'
      BY <1>3, <2>5, <3>1 DEF LendingInv, vars, Whereabouts, Linked, Returning
    <3> QED
      BY <2>1, <3>1, <3>2, <3>3 DEF LendingInv
  <2> QED
    BY <1>3, <2>2, <2>3, <2>4, <2>5 DEF Next
<1> QED
  BY <1>2, <1>3

\* However it is lent, linked and sent home, and whoever dies, the follower's loop is
\* in one pair of hands at most, and while both threads live it is in one.
THEOREM LoopHasOneHolder == Spec => []OneHolder
<1>1. LendingInv => OneHolder
  <2> SUFFICES ASSUME LendingInv
               PROVE  OneHolder
    OBVIOUS
  <2>1. InCommand <=> \E i \in DOMAIN queue.own : queue.own[i].op = "link"
    BY DEF InCommand, Mine, ToSet
  <2>2. Holders = {h \in {"home", "application", "command", "link", "returned"} :
                     \/ h = "home" /\ hasLoop
                     \/ h = "application" /\ Carried
                     \/ h = "command" /\ InCommand
                     \/ h = "link" /\ Linked
                     \/ h = "returned" /\ Returning}
    BY <2>1 DEF Holders, Carried, Linked, Returning
  <2>3. \E h : Holders \subseteq {h}
    BY <2>2 DEF LendingInv, Whereabouts
  <2>4. Cardinality(Holders) <= 1
    <3>1. PICK h : Holders = {} \/ Holders = {h}
      BY <2>3
    <3>2. Cardinality({}) = 0
      BY FS_EmptySet
    <3>3. Cardinality({h}) = 1
      BY FS_Singleton
    <3>4. Cardinality(Holders) = 0 \/ Cardinality(Holders) = 1
      BY <3>1, <3>2, <3>3
    <3> QED
      BY <3>4
  <2>5. pc.follower # "ended" /\ deaths = 0 => Holders # {}
    BY <2>2 DEF LendingInv, Whereabouts
  <2> QED
    BY <2>4, <2>5 DEF OneHolder
<1> QED
  BY <1>1, LendingInduction, PTL DEF Spec

\* The commands of the follower's wrapper take effect in the order they were sent,
\* through lending, forwarding, and the one left over at the return.
THEOREM CommandsInOrder == Spec => []InOrder
<1>1. LendingInv => InOrder
  BY DEF LendingInv, Order
<1> QED
  BY <1>1, LendingInduction, PTL DEF Spec

-----------------------------------------------------------------------------
(* A clean console: what the application knows of its own.                 *)

Clean == ~own.held /\ ~Linked /\ ~InCommand

\* The application waits for every call to the own thread, and what it believes of the
\* cable (its phase, and the call it waits in) fits what that thread does.
Tidy ==
    /\ \A c \in Mine :
        /\ c.op # "link" => c.ticket = app.waits
        /\ ~Free => c.ticket <= app.waits
    /\ own.reply # 0 => own.reply = app.waits /\ app.answer = "none"
    /\ ~Free =>
        /\ app.op = "lend" => app.phase = "held"
        /\ app.op \in {"hold", "release", "unlink"} => app.phase = "idle" /\ app.on = "own"
    /\ pc.own # "ended" =>
        /\ app.phase = "held" => ~Linked /\ ~InCommand
        /\ app.phase = "plugged" /\ own.held => Linked \/ InCommand
        /\ app.phase = "idle" =>
            /\ Free \/ app.op \notin {"hold", "release", "unlink"} => Clean
            /\ app.op \in {"hold", "release"} => ~Linked /\ ~InCommand
            /\ ~Free /\ own.held =>
                \/ app.op = "hold" /\ app.answer = "ok"
                \/ app.op = "release" /\ app.answer = "none"
                \/ app.op = "unlink" /\ (Linked \/ InCommand)
            /\ ~Free /\ app.op = "unlink" /\ app.answer # "none" => Clean

\* Whatever leaves the own thread, its queue and its callers alone.
LEMMA OthersTidy ==
    ASSUME LendingInv, Tidy, SameCall(app', app), queue'.own = queue.own,
           own'.held = own.held, own'.link = own.link, own'.reply = own.reply,
           pc'.own = pc.own \/ pc'.own = "ended" \/ pc.own # "ended",
           app'.answer # app.answer => app.on = "follower"
    PROVE  Tidy'
<1>1. Mine' = Mine /\ Linked' = Linked /\ InCommand' = InCommand /\ Free' = Free
      /\ app'.phase = app.phase /\ app'.op = app.op /\ app'.waits = app.waits /\ app'.on = app.on
  BY DEF Mine, Linked, InCommand, Free, SameCall
<1>2. own.reply # 0 => app'.answer = app.answer
  BY DEF LendingInv, Closing, Tidy
<1>3. Clean' = Clean
  BY <1>1 DEF Clean
<1> QED
  BY <1>1, <1>2, <1>3 DEF Tidy, Free

LEMMA OwnCommandTidy ==
    ASSUME LendingInv, LendingInv', Tidy, OwnCommand
    PROVE  Tidy'
<1> DEFINE c == Head(queue.own)
<1>1. /\ pc.own = "commands" /\ queue.own # <<>>
      /\ queue' = [queue EXCEPT !.own = Tail(queue.own)]
  BY DEF OwnCommand
<1>2. queue.own \in Seq(Command) /\ queue'.own = Tail(queue.own) /\ app \in AppTypes
  BY <1>1 DEF LendingInv, TypeOK, Thread, AppTypes
<1>3. /\ c \in Command /\ c \in Mine /\ Mine = {c} \cup Mine'
      /\ \A d \in Mine' : c.ticket < d.ticket /\ d \in Command
  <2>1. queue'.own \in Seq(Command)
    BY <1>1, <1>2, LineTail
  <2> QED
    BY <1>1, <1>2, <2>1, LineTail, LineSmall DEF LendingInv, Lines, Mine
<1>4. c.ticket \in Nat \ {0} /\ \A d \in Mine' : d.ticket \in Nat
  BY <1>3, LineSmall
<1>5. own \in [held : BOOLEAN, link : Link, status : Status, after : Status, reply : 0..MaxCommands]
  BY DEF LendingInv, TypeOK
<1>6. c.op # "link" =>
        /\ app.waits = c.ticket /\ ~Free /\ app.op = c.op /\ app.on = "own" /\ app.answer = "none"
        /\ Mine' = {} /\ ~InCommand' /\ ~InCommand
  <2>1. SUFFICES ASSUME c.op # "link"
                 PROVE  /\ app.waits = c.ticket /\ ~Free /\ app.op = c.op /\ app.on = "own"
                        /\ app.answer = "none" /\ Mine' = {} /\ ~InCommand' /\ ~InCommand
    OBVIOUS
  <2>2. app.waits = c.ticket /\ ~Free
    BY <1>3, <1>4, <2>1 DEF Tidy, Free
  <2>3. app.op = c.op /\ app.on = "own" /\ app.answer = "none"
    BY <1>3, <2>2 DEF LendingInv, Answers, Asked
  <2>4. Mine' = {}
    BY <1>3, <1>4, <2>2 DEF Tidy
  <2> QED
    BY <1>3, <2>1, <2>2, <2>3, <2>4 DEF InCommand
<1>7. own.reply = 0
  BY <1>1 DEF LendingInv, Closing
<1>8. CASE c.op = "link"
  <2>1. own' = [own EXCEPT !.link = "starting", !.status = "starting"] /\ UNCHANGED <<app, pc>>
    BY <1>8 DEF OwnCommand
  <2>2. own'.held = own.held /\ own'.reply = own.reply /\ Linked'
    BY <1>5, <2>1 DEF Linked
  <2>3. InCommand /\ Mine' \subseteq Mine /\ Free' = Free
    BY <1>3, <1>8, <2>1 DEF InCommand, Free
  <2> QED
    BY <1>1, <1>7, <2>1, <2>2, <2>3 DEF Tidy, Clean, Free
<1>9. CASE c.op \in {"hold", "release"} \/ (c.op = "unlink" /\ own.link = "none")
  <2>1. \/ /\ c.op = "hold" /\ own.link = "none" /\ own'.held = TRUE
           /\ app' = Answered(app, c.ticket, "ok")
        \/ c.op = "hold" /\ own'.held = own.held /\ app' = Answered(app, c.ticket, "refused")
        \/ c.op = "release" /\ own'.held = FALSE /\ app' = Answered(app, c.ticket, "ok")
        \/ c.op = "unlink" /\ own'.held = own.held /\ app' = Answered(app, c.ticket, "ok")
    BY <1>5, <1>9 DEF OwnCommand
  <2>2. own'.link = own.link /\ own'.reply = own.reply /\ pc' = pc
    BY <1>5, <1>9 DEF OwnCommand
  <2>3. \A answer : /\ SameCall(Answered(app, c.ticket, answer), app)
                    /\ Answered(app, c.ticket, answer).answer =
                         IF app.waits = c.ticket /\ c.ticket # 0 THEN answer ELSE app.answer
    BY <1>2, AppFields
  <2>4. SameCall(app', app)
    BY <2>1, <2>3
  <2>5. /\ app'.waits = app.waits /\ app'.op = app.op /\ app'.on = app.on
        /\ app'.phase = app.phase /\ Free' = Free
    BY <2>4 DEF SameCall, Free
  <2>6. \/ c.op = "hold" /\ own.link = "none" /\ app'.answer = "ok"
        \/ c.op = "hold" /\ own'.held = own.held /\ app'.answer = "refused"
        \/ c.op = "release" /\ own'.held = FALSE /\ app'.answer = "ok"
        \/ c.op = "unlink" /\ own'.held = own.held /\ app'.answer = "ok"
    BY <1>4, <1>6, <1>9, <2>1, <2>3
  <2>7. app.phase = "idle" /\ Linked' = Linked
    BY <1>6, <1>9, <2>2 DEF Tidy, Linked
  <2>8. c.op = "unlink" => ~Linked
    BY <1>9 DEF Linked
  <2> QED
    BY <1>1, <1>6, <1>7, <1>9, <2>2, <2>5, <2>6, <2>7, <2>8 DEF Tidy, Clean
<1>10. CASE own.link # "none" /\ c.op \in {"unlink", "close"}
  <2>1. BeginEnding(FALSE, "idle", IF c.op = "unlink" THEN c.ticket ELSE 0) /\ UNCHANGED app
    BY <1>10 DEF OwnCommand
  <2>2. own'.held = FALSE /\ own'.link = "none" /\ own'.reply = IF c.op = "unlink" THEN c.ticket ELSE 0
    BY <1>5, <2>1 DEF BeginEnding
  <2> QED
    BY <1>6, <1>10, <2>1, <2>2 DEF Tidy, Clean, Linked, Free
<1>11. CASE own.link = "none" /\ c.op = "close"
  <2>1. /\ own' = [own EXCEPT !.status = "idle"] /\ app' = Closed(app, "own")
        /\ pc' = [pc EXCEPT !.own = "ended"]
    BY <1>11 DEF OwnCommand
  <2>2. own'.reply = 0 /\ pc'.own = "ended"
    BY <1>5, <1>7, <2>1 DEF LendingInv, TypeOK
  <2>3. SameCall(app', app)
    BY <1>2, <2>1, AppFields
  <2>4. /\ app'.waits = app.waits /\ app'.op = app.op /\ app'.on = app.on
        /\ app'.phase = app.phase /\ Free' = Free
    BY <2>3 DEF SameCall, Free
  <2> QED
    BY <1>6, <1>11, <2>2, <2>4 DEF Tidy
<1>12. c.op \in {"hold", "release", "link", "unlink", "close"}
  BY <1>3 DEF LendingInv, Answers
<1> QED
  BY <1>8, <1>9, <1>10, <1>11, <1>12

LEMMA OwnPassTidy ==
    ASSUME LendingInv, Tidy, NoCommand \/ Step \/ Forwarded
    PROVE  Tidy'
<1>1. pc.own \in {"commands", "forwarded", "step"} /\ Linked /\ UNCHANGED queue
  BY DEF NoCommand, Step, Forwarded, LendingInv, Whereabouts, Linked
<1>2. ~InCommand /\ own.reply = 0
  BY <1>1 DEF LendingInv, Whereabouts, Closing
<1>3. /\ SameCall(app', app)
      /\ app'.answer # app.answer => app.on = "follower"
  <2>1. CASE UNCHANGED app
    BY <2>1 DEF SameCall
  <2>2. CASE ~UNCHANGED app
    <3> DEFINE c == Head(forward.items)
    <3>1. \E answer : app' = Answered(app, c.ticket, answer)
      BY <2>2 DEF NoCommand, Step, Forwarded
    <3>2. forward.items # <<>> /\ forward.items \in Seq(Command) /\ app \in AppTypes
      BY <2>2 DEF NoCommand, Step, Forwarded, LendingInv, TypeOK, AppTypes
    <3>3. c \in Theirs
      BY <3>2, LineTail DEF Theirs
    <3>4. c.ticket = app.waits => app.on = "follower"
      BY <3>3 DEF LendingInv, Answers, Asked
    <3> HIDE DEF c
    <3>5. \A answer : /\ SameCall(Answered(app, c.ticket, answer), app)
                      /\ Answered(app, c.ticket, answer).answer =
                           IF app.waits = c.ticket /\ c.ticket # 0 THEN answer ELSE app.answer
      BY <3>2, AppFields
    <3> QED
      BY <3>1, <3>4, <3>5
  <2> QED
    BY <2>1, <2>2
<1>4. \/ /\ own'.held = own.held /\ own'.link = own.link /\ own'.reply = own.reply
         /\ pc'.own # "ended"
      \/ /\ own.link = "starting" /\ own'.held = FALSE /\ own'.link = "running" /\ own'.reply = own.reply
      \/ own'.held = FALSE /\ own'.link = "none" /\ own'.reply = 0
  <2>1. own \in [held : BOOLEAN, link : Link, status : Status, after : Status, reply : 0..MaxCommands]
        /\ pc \in [own : {"commands", "forwarded", "step", "ending", "ended"},
               follower : {"commands", "forwarding", "checking", "awaiting", "ended"}]
    BY DEF LendingInv, TypeOK
  <2>2. CASE NoCommand
    BY <2>1, <2>2 DEF NoCommand
  <2>3. CASE Step
    BY <2>1, <2>3 DEF Step, BeginEnding
  <2>4. CASE Forwarded
    BY <1>1, <2>1, <2>4 DEF Forwarded, BeginEnding
  <2> QED
    BY <2>2, <2>3, <2>4
<1>5. /\ app'.waits = app.waits /\ app'.op = app.op /\ app'.on = app.on
      /\ app'.phase = app.phase /\ Free' = Free
      /\ Mine' = Mine /\ InCommand' = InCommand
  BY <1>1, <1>3 DEF SameCall, Free, Mine, InCommand
<1>6. Linked' \/ (~own'.held /\ ~Linked')
  <2>1. own.link # "none"
    BY <1>1 DEF Linked
  <2>2. CASE own'.link = own.link \/ own'.link = "running"
    BY <2>1, <2>2 DEF Linked
  <2>3. CASE own'.held = FALSE /\ own'.link = "none"
    BY <2>3 DEF Linked
  <2> QED
    BY <1>4, <2>2, <2>3
<1>7. own'.held => own.held
  BY <1>4
<1>8. own'.reply = 0
  BY <1>2, <1>4
<1> QED
  BY <1>1, <1>2, <1>3, <1>5, <1>6, <1>7, <1>8 DEF Tidy, Clean

LEMMA OwnEndTidy ==
    ASSUME LendingInv, LendingInv', Tidy, EndLink \/ Die
    PROVE  Tidy'
<1>1. CASE EndLink
  <2> DEFINE a == Dropped(app, forward.items)
  <2>1. /\ pc.own = "ending" /\ ~Linked
        /\ own' = [own EXCEPT !.status = own.after, !.reply = 0]
        /\ \/ /\ pc' = [pc EXCEPT !.own = "ended"] /\ own.reply = 0
              /\ queue' = [queue EXCEPT !.own = <<>>]
              /\ app' = Closed(a, "own")
           \/ /\ pc' = [pc EXCEPT !.own = "commands"]
              /\ UNCHANGED queue
              /\ app' = Answered(a, own.reply, "ok")
    BY <1>1 DEF EndLink, LendingInv, Whereabouts, Linked
  <2>2. own'.held = own.held /\ own'.reply = 0 /\ Linked' = Linked
    BY <2>1 DEF LendingInv, TypeOK, Linked
  <2>3. app \in AppTypes /\ forward.items \in Seq(Command)
    BY DEF LendingInv, TypeOK, AppTypes
  <2>4. a \in AppTypes /\ SameCall(a, app)
        /\ a.answer = IF app.waits \in Tickets(forward.items) /\ app.op # "close"
                      THEN "dropped" ELSE app.answer
    BY <2>3, AppFields, Replies DEF Answer, Thread
  <2>5. app.waits \in Tickets(forward.items) => app.on = "follower"
    <3>1. ASSUME NEW c \in ToSet(forward.items), c.ticket = app.waits
          PROVE  app.on = "follower"
      <4>1. c \in Theirs
        BY DEF Theirs
      <4> QED
        BY <3>1, <4>1 DEF LendingInv, Answers, Asked
    <3> QED
      BY <3>1 DEF Tickets
  <2>6. /\ SameCall(Closed(a, "own"), a)
        /\ SameCall(Answered(a, own.reply, "ok"), a)
        /\ Answered(a, own.reply, "ok").answer =
             IF a.waits = own.reply /\ own.reply # 0 THEN "ok" ELSE a.answer
    BY <2>4, AppFields
  <2> HIDE DEF a
  <2>7. SameCall(app', app)
    BY <2>1, <2>4, <2>6 DEF SameCall
  <2>8. /\ app'.waits = app.waits /\ app'.op = app.op /\ app'.on = app.on
        /\ app'.phase = app.phase /\ Free' = Free
    BY <2>7 DEF SameCall, Free
  <2>9. CASE pc' = [pc EXCEPT !.own = "ended"]
    <3>1. Mine' \subseteq Mine
      BY <2>1, LineSmall DEF Mine, LendingInv, TypeOK, Thread
    <3>2. pc'.own = "ended"
      BY <2>9 DEF LendingInv, TypeOK
    <3> QED
      BY <2>2, <2>8, <3>1, <3>2 DEF Tidy
  <2>10. CASE ~(pc' = [pc EXCEPT !.own = "ended"])
    <3>1. UNCHANGED queue /\ app' = Answered(a, own.reply, "ok")
      BY <2>1, <2>10
    <3>2. Mine' = Mine /\ InCommand' = InCommand
      BY <3>1 DEF Mine, InCommand
    <3>3. CASE own.reply = 0
      <4>1. app'.answer # app.answer => app.on = "follower"
        BY <2>4, <2>5, <2>6, <3>1, <3>3
      <4>2. pc.own # "ended"
        BY <2>1
      <4> QED
        BY <2>2, <2>8, <3>2, <4>1, <4>2 DEF Tidy, Clean
    <3>4. CASE own.reply # 0
      <4>1. own.reply = app.waits /\ app.op = "unlink" /\ app.answer = "none"
        BY <3>4 DEF Tidy, LendingInv, Closing
      <4>2. app.phase = "idle" /\ app.on = "own" /\ ~Free
        BY <3>4, <4>1 DEF Tidy, Free
      <4>3. ~InCommand
        <5>1. \A c \in Mine : c.ticket <= app.waits /\ own.reply < c.ticket
          BY <3>4, <4>2 DEF Tidy, LendingInv, Closing
        <5>2. \A c \in Mine : c.ticket \in Nat
          <6>1. queue.own \in Seq(Command)
            BY DEF LendingInv, TypeOK, Thread
          <6> QED
            BY <6>1, LineSmall DEF Mine
        <5>3. own.reply \in Nat
          BY DEF LendingInv, TypeOK
        <5> QED
          BY <4>1, <5>1, <5>2, <5>3 DEF InCommand
      <4>4. ~own.held
        BY <2>1, <4>1, <4>2, <4>3 DEF Tidy
      <4> QED
        BY <2>1, <2>2, <2>8, <3>2, <4>1, <4>2, <4>3, <4>4 DEF Tidy, Clean
    <3> QED
      BY <3>3, <3>4
  <2> QED
    BY <2>9, <2>10
<1>2. CASE Die
  <2>1. /\ pc.own \in {"commands", "forwarded", "step"}
        /\ pc' = [pc EXCEPT !.own = "ended"]
        /\ queue' = [queue EXCEPT !.own = <<>>]
        /\ own' = [own EXCEPT !.link = "none"]
        /\ \E items : app' = Closed(Dropped(app, items), "own")
    BY <1>2 DEF Die
  <2>2. pc'.own = "ended" /\ own'.reply = own.reply /\ own.reply = 0 /\ Mine' = {}
    BY <2>1, LineSmall DEF LendingInv, TypeOK, Closing, Mine, Thread
  <2>3. SameCall(app', app)
    <3>1. PICK items : app' = Closed(Dropped(app, items), "own")
      BY <2>1
    <3>2. app \in AppTypes
      BY DEF LendingInv, TypeOK, AppTypes
    <3>3. Dropped(app, items) \in AppTypes /\ SameCall(Dropped(app, items), app)
      BY <3>2, AppFields, Replies DEF Answer, Thread
    <3>4. SameCall(app', Dropped(app, items))
      BY <3>1, <3>3, AppFields
    <3> QED
      BY <3>3, <3>4 DEF SameCall
  <2> QED
    BY <2>2, <2>3 DEF Tidy, SameCall, Free
<1> QED
  BY <1>1, <1>2

LEMMA OwnTidy ==
    ASSUME LendingInv, LendingInv', Tidy, OwnThread \/ Die
    PROVE  Tidy'
BY OwnCommandTidy, OwnPassTidy, OwnEndTidy DEF OwnThread

LEMMA FollowerTidy ==
    ASSUME LendingInv, Tidy, FollowerThread
    PROVE  Tidy'
<1>1. /\ queue \in [Thread -> Seq(Command)] /\ app \in AppTypes /\ Thread = {"own", "follower"}
      /\ pc \in [own : {"commands", "forwarded", "step", "ending", "ended"},
             follower : {"commands", "forwarding", "checking", "awaiting", "ended"}]
      /\ queue.follower \in Seq(Command) /\ pending \in Seq(Command)
  BY DEF LendingInv, TypeOK, Thread, AppTypes
<1>2. CASE FollowerCommand
  <2> DEFINE c == Taken.command
  <2>1. /\ UNCHANGED <<own, sent, deaths>>
        /\ \/ /\ queue' = [queue EXCEPT !.follower = Taken.queue]
              /\ pc' = pc \/ pc' = [pc EXCEPT !.follower = "forwarding"]
              /\ app' = Answered(app, c.ticket, "ok")
           \/ FollowerFinish(Taken.queue) /\ UNCHANGED <<forward, returned>>
    BY <1>2 DEF FollowerCommand
  <2>2. c \in Theirs
    BY <1>1, <1>2, LineTail DEF FollowerCommand, Taken, Theirs
  <2>3. c.ticket = app.waits => app.on = "follower"
    BY <2>2 DEF LendingInv, Answers, Asked
  <2>4. CASE /\ queue' = [queue EXCEPT !.follower = Taken.queue]
             /\ pc' = pc \/ pc' = [pc EXCEPT !.follower = "forwarding"]
             /\ app' = Answered(app, c.ticket, "ok")
    <3>1. queue'.own = queue.own /\ pc'.own = pc.own
      BY <1>1, <2>4
    <3> HIDE DEF c
    <3>2. \A answer : /\ SameCall(Answered(app, c.ticket, answer), app)
                      /\ Answered(app, c.ticket, answer).answer =
                           IF app.waits = c.ticket /\ c.ticket # 0 THEN answer ELSE app.answer
      <4>1. app \in AppTypes
        BY <1>1
      <4> QED
        BY <4>1, AppFields
    <3>3. SameCall(app', app) /\ (app'.answer # app.answer => app.on = "follower")
      BY <2>3, <2>4, <3>2
    <3> QED
      BY <2>1, <3>1, <3>3, OthersTidy
  <2>5. CASE FollowerFinish(Taken.queue) /\ UNCHANGED <<forward, returned>>
    <3>1. ToSet(Taken.queue) \subseteq ToSet(queue.follower)
      <4>1. CASE pending # <<>>
        BY <4>1 DEF Taken
      <4>2. CASE pending = <<>>
        <5>1. queue.follower # <<>>
          BY <1>2, <4>2 DEF FollowerCommand
        <5> QED
          BY <1>1, <4>2, <5>1, LineTail DEF Taken
      <4> QED
        BY <4>1, <4>2
    <3>2. \A t \in Tickets(Taken.queue) :
             \E d \in ToSet(queue.follower) \cup ToSet(pending) : d.ticket = t
      BY <3>1 DEF Tickets
    <3>3. /\ SameCall(app', app) /\ (app'.answer # app.answer => app.on = "follower")
          /\ pc'.own = pc.own
      BY <2>1, <2>5, <3>2, FinishEffect
    <3>4. queue'.own = queue.own
      BY <1>1, <2>5 DEF FollowerFinish
    <3> QED
      BY <2>1, <3>3, <3>4, OthersTidy
  <2> QED
    BY <2>1, <2>4, <2>5
<1>3. CASE Forward \/ StillLent
  <2>1. UNCHANGED <<own, app>> /\ queue'.own = queue.own /\ pc'.own = pc.own
    BY <1>1, <1>3 DEF Forward, StillLent
  <2> QED
    BY <2>1, OthersTidy DEF SameCall
<1>4. CASE Home \/ LoopGone
  <2>1. CASE FollowerFinish(queue.follower \o pending)
    <3>1. UNCHANGED <<forward, own, sent, deaths>> /\ returned'.open = returned.open
      BY <1>4 DEF Home, LoopGone, LendingInv, TypeOK
    <3>2. \A t \in Tickets(queue.follower \o pending) :
             \E d \in ToSet(queue.follower) \cup ToSet(pending) : d.ticket = t
      <4>1. Tickets(queue.follower \o pending) = Tickets(queue.follower) \cup Tickets(pending)
        BY <1>1, TicketsOf
      <4> QED
        BY <4>1 DEF Tickets
    <3>3. /\ SameCall(app', app) /\ (app'.answer # app.answer => app.on = "follower")
          /\ pc'.own = pc.own
      BY <2>1, <3>1, <3>2, FinishEffect
    <3>4. queue'.own = queue.own
      BY <1>1, <2>1 DEF FollowerFinish
    <3> QED
      BY <3>1, <3>3, <3>4, OthersTidy
  <2>2. CASE ~FollowerFinish(queue.follower \o pending)
    <3>1. UNCHANGED <<own, queue, app>> /\ pc'.own = pc.own
      BY <1>1, <1>4, <2>2 DEF Home, LoopGone
    <3> QED
      BY <3>1, OthersTidy DEF SameCall
  <2> QED
    BY <2>1, <2>2
<1> QED
  BY <1>2, <1>3, <1>4 DEF FollowerThread

\* A call is the only one on its way to the own thread, and finds it as the phase says.
LEMMA CallTidy ==
    ASSUME LendingInv, Tidy, Free, NEW t \in Thread, NEW op \in Op, NEW a \in AppTypes,
           CallFrom(t, op, a), a.waits = 0, a.answer = "none", op # "link",
           \/ a.phase = app.phase /\ op \in {"run", "close"}
           \/ a.phase = app.phase /\ op = "lend" /\ app.phase = "held"
           \/ a.phase = app.phase /\ op = "hold" /\ app.phase = "idle" /\ t = "own"
           \/ a.phase = "idle" /\ op = "release" /\ app.phase = "held" /\ t = "own"
           \/ a.phase = "idle" /\ op = "unlink" /\ app.phase = "plugged" /\ t = "own"
    PROVE  Tidy'
<1> DEFINE c == [ticket |-> sent + 1, op |-> op]
<1>1. /\ sent' = sent + 1 /\ sent < MaxCommands /\ sent \in Nat
      /\ UNCHANGED <<pc, hasLoop, pending, forward, returned, own, handled, lost, deaths>>
      /\ queue' = queue \/ queue' = [queue EXCEPT ![t] = Append(@, [ticket |-> sent + 1, op |-> op])]
  BY DEF CallFrom, Put, LendingInv, TypeOK
<1>2. \/ /\ pc[t] = "ended" /\ queue' = queue
         /\ app'.waits = 0 /\ app'.answer = "none" /\ app'.phase = a.phase
      \/ /\ app'.waits = sent + 1 /\ app'.answer = "none" /\ app'.on = t /\ app'.op = op
         /\ app'.phase = a.phase
  <2>1. CASE pc[t] = "ended"
    BY <2>1 DEF CallFrom, Put, AppTypes
  <2>2. CASE pc[t] # "ended"
    BY <2>2 DEF CallFrom, Put, AppTypes
  <2> QED
    BY <2>1, <2>2
<1>3. Mine' \subseteq Mine \cup {c} /\ Mine \subseteq Mine'
  BY <1>1, SendLines
<1>4. c.ticket = sent + 1 /\ c.op = op
  OBVIOUS
<1> HIDE DEF c
<1>5. \A d \in Mine : d.ticket \in Nat \ {0} /\ d.ticket <= sent /\ d.op = "link"
  BY NobodyWaits DEF Tidy, Free
<1>6. own.reply = 0 /\ (queue' = queue => Mine' = Mine)
  BY DEF Tidy, Free, Mine
<1>7. InCommand' = InCommand /\ Linked' = Linked /\ own' = own /\ pc' = pc
  BY <1>1, <1>3, <1>4 DEF InCommand, Linked
<1>8. Clean' = Clean
  BY <1>7 DEF Clean
<1>9. CASE /\ pc[t] = "ended" /\ queue' = queue
           /\ app'.waits = 0 /\ app'.answer = "none" /\ app'.phase = a.phase
  <2>1. Free' /\ (pc.own # "ended" => app'.phase = app.phase)
    BY <1>9 DEF Free
  <2> QED
    BY <1>5, <1>6, <1>7, <1>8, <1>9, <2>1 DEF Tidy, Clean
<1>10. CASE /\ app'.waits = sent + 1 /\ app'.answer = "none" /\ app'.on = t /\ app'.op = op
            /\ app'.phase = a.phase
  <2>1. ~Free'
    BY <1>1, <1>10 DEF Free
  <2>2. \A d \in Mine' : (d.op # "link" => d.ticket = app'.waits) /\ d.ticket <= app'.waits
    BY <1>1, <1>3, <1>4, <1>5, <1>10
  <2>3. pc.own # "ended" =>
          /\ app.phase = "idle" => Clean
          /\ app.phase = "held" => ~Linked /\ ~InCommand
          /\ app.phase = "plugged" /\ own.held => Linked \/ InCommand
    BY DEF Tidy
  <2> QED
    BY <1>6, <1>7, <1>8, <1>10, <2>1, <2>2, <2>3 DEF Tidy, Clean
<1> QED
  BY <1>2, <1>9, <1>10

LEMMA ApplicationTidy ==
    ASSUME LendingInv, Tidy, Application
    PROVE  Tidy'
<1>1. /\ {"run", "hold", "release", "lend", "link", "unlink", "close"} = Op
      /\ Thread = {"own", "follower"}
      /\ app \in AppTypes /\ queue \in [Thread -> Seq(Command)] /\ sent \in Nat
  BY DEF Op, Thread, LendingInv, TypeOK, AppTypes
<1>2. Free => app.waits = 0 /\ app.answer = "none"
  BY NobodyWaits DEF Free
<1>3. CASE Call \/ Hold \/ Lend
  BY <1>1, <1>2, <1>3, CallTidy DEF Call, Hold, Lend, Open
<1>4. CASE Release \/ Unlink
  <2> DEFINE idle == [app EXCEPT !.phase = "idle"]
  <2>1. /\ idle \in AppTypes /\ idle.phase = "idle" /\ idle.waits = app.waits
        /\ idle.answer = app.answer
    BY <1>1 DEF AppTypes, Phase
  <2>2. \/ CallFrom("own", "release", idle) /\ app.phase = "held"
        \/ CallFrom("own", "unlink", idle) /\ app.phase = "plugged"
    BY <1>4 DEF Release, Unlink
  <2>3. Free
    BY <1>4 DEF Release, Unlink, Open
  <2> HIDE DEF idle
  <2> QED
    BY <1>1, <1>2, <2>1, <2>2, <2>3, CallTidy
<1>5. ASSUME NEW t \in Thread, Drop(t)
      PROVE  Tidy'
  <2> DEFINE closing == [app EXCEPT !.closed = @ \cup {t}]
  <2>1. /\ closing \in AppTypes /\ closing.phase = app.phase /\ closing.waits = app.waits
        /\ closing.answer = app.answer
    BY <1>1 DEF AppTypes
  <2>2. CallFrom(t, "close", closing) /\ Free
    BY <1>5 DEF Drop, Open
  <2> HIDE DEF closing
  <2> QED
    BY <1>1, <1>2, <2>1, <2>2, CallTidy
<1>6. CASE Send
  <2>1. /\ UNCHANGED <<pc, own>> /\ queue'.own = queue.own
        /\ app' = app \/ app' = [app EXCEPT !.alive["follower"] = FALSE]
    BY <1>1, <1>6 DEF Send, Put
  <2>2. SameCall(app', app) /\ app'.answer = app.answer
    BY <1>1, <2>1 DEF SameCall, AppTypes
  <2> QED
    BY <2>1, <2>2, OthersTidy
<1>7. CASE LinkTogether
  <2>1. Free /\ app.phase = "carrying" /\ own.reply = 0
    BY <1>7 DEF LinkTogether, Tidy, Free
  <2>2. \A d \in Mine : d.ticket \in Nat \ {0} /\ d.ticket <= sent /\ d.op = "link"
    BY <2>1, NobodyWaits DEF Tidy, Free
  <2>3. CASE pc.own # "ended"
    <3>1. /\ queue'.own = Append(queue.own, [ticket |-> sent + 1, op |-> "link"])
          /\ app' = [app EXCEPT !.phase = "plugged"]
          /\ UNCHANGED <<pc, own>>
      BY <1>1, <1>7, <2>3 DEF LinkTogether, Put
    <3>2. app'.waits = 0 /\ app'.phase = "plugged" /\ Free'
      BY <1>1, <2>1, <3>1 DEF AppTypes, Free
    <3>3. [ticket |-> sent + 1, op |-> "link"] \in Command
      BY <1>1, <1>7, LendingBoundsAssumption DEF LinkTogether, Command, Ticket
    <3>4. Mine' = Mine \cup {[ticket |-> sent + 1, op |-> "link"]}
      BY <1>1, <3>1, <3>3, LineAppend DEF Mine, Thread, LendingInv, Lines
    <3>5. InCommand'
      <4> DEFINE c == [ticket |-> sent + 1, op |-> "link"]
      <4>1. c \in Mine' /\ c.op = "link"
        BY <3>4
      <4> HIDE DEF c
      <4> QED
        BY <4>1 DEF InCommand
    <3> QED
      BY <2>1, <2>2, <3>1, <3>2, <3>4, <3>5 DEF Tidy
  <2>4. CASE pc.own = "ended"
    <3> DEFINE a == [[app EXCEPT !.phase = "plugged"] EXCEPT !.alive["own"] = FALSE]
    <3>1. UNCHANGED <<queue, pc, own>> /\ app' = Dropped(a, forward.items)
      BY <1>7, <2>4 DEF LinkTogether
    <3>2. a \in AppTypes /\ a.waits = 0
      BY <1>1, <2>1 DEF AppTypes, Phase, Free
    <3> HIDE DEF a
    <3>3. app'.waits = 0
      BY <3>1, <3>2, AppFields DEF SameCall
    <3> QED
      BY <2>1, <2>2, <2>4, <3>1, <3>3 DEF Tidy, Free, Mine
  <2> QED
    BY <2>3, <2>4
<1>8. CASE GoOn
  <2>1. /\ ~Free /\ app.answer # "none" /\ own.reply = 0
        /\ UNCHANGED <<queue, pc, own>>
    BY <1>8 DEF GoOn, Tidy
  <2>2. /\ app'.waits = 0 /\ Free'
        /\ app'.phase = IF app.answer = "ok" /\ app.op = "hold" THEN "held"
                        ELSE IF app.answer = "ok" /\ app.op = "lend" THEN "carrying" ELSE app.phase
    BY <1>1, <1>8 DEF GoOn, AppTypes, Free
  <2>3. Mine' = Mine /\ InCommand' = InCommand /\ Linked' = Linked /\ Clean' = Clean
    BY <2>1 DEF Mine, InCommand, Linked, Clean
  <2>4. \A d \in Mine : d.op = "link"
    BY <1>1, <2>1 DEF Tidy, LendingInv, Answers, Asked
  <2> QED
    BY <2>1, <2>2, <2>3, <2>4 DEF Tidy, Clean
<1> QED
  BY <1>3, <1>4, <1>5, <1>6, <1>7, <1>8 DEF Application

-----------------------------------------------------------------------------
(* The theorem.                                                            *)

\* Once the frontend is done with a cable, however that ended, its own console is neither
\* held nor linked, and the follower's loop is home or on its way there.
THEOREM NothingLeftHeld == Spec => []LeftClean
<1>1. Init => LendingInv /\ Tidy
  <2> SUFFICES ASSUME Init
               PROVE  LendingInv /\ Tidy
    OBVIOUS
  <2>1. Mine = {} /\ own.reply = 0 /\ own.held = FALSE /\ own.link = "none" /\ Free
        /\ app.phase = "idle"
    BY LineSmall DEF Init, Mine, Free, Thread
  <2> QED
    BY <2>1, LendingInduction DEF Tidy, Clean, Linked, InCommand
<1>2. LendingInv /\ Tidy /\ [Next]_vars => (LendingInv /\ Tidy)'
  <2> SUFFICES ASSUME LendingInv, Tidy, [Next]_vars
               PROVE  LendingInv' /\ Tidy'
    OBVIOUS
  <2>1. LendingInv'
    BY LendingInduction
  <2>2. CASE UNCHANGED vars
    <3>1. SameCall(app', app) /\ UNCHANGED <<queue, own, pc, app>>
      BY <2>2 DEF vars, SameCall
    <3> QED
      BY <2>1, <3>1, OthersTidy
  <2>3. CASE Next
    BY <2>1, <2>3, OwnTidy, FollowerTidy, ApplicationTidy DEF Next
  <2> QED
    BY <2>1, <2>2, <2>3
<1>3. LendingInv /\ Tidy => LeftClean
  <2> SUFFICES ASSUME LendingInv, Tidy, app.phase = "idle", Free, pc.own # "ended"
               PROVE  ~own.held /\ own.link = "none" /\ Holders \subseteq {"home", "returned"}
    BY DEF LeftClean
  <2>1. ~own.held /\ own.link = "none" /\ ~InCommand
    BY DEF Tidy, Clean, Linked
  <2>2. app.answer = "none"
    BY DEF LendingInv, Answers
  <2>3. InCommand <=> \E i \in DOMAIN queue.own : queue.own[i].op = "link"
    BY DEF InCommand, Mine, ToSet
  <2>4. Holders \subseteq {"home", "returned"}
    BY <2>1, <2>2, <2>3 DEF Holders
  <2> QED
    BY <2>1, <2>4
<1> QED
  BY <1>1, <1>2, <1>3, PTL DEF Spec

=============================================================================
