------------------------- MODULE LinkLockstep_proofs -------------------------
(***************************************************************************)
(* Two linked machines stay in step (LinkLockstep), whatever the delay,    *)
(* the lengths of the frames and the number of frames, presses and writes. *)
(*                                                                         *)
(* What happens to a pair follows from one script, the events of every     *)
(* frame of each console: the console that is behind runs next, and what   *)
(* is applied to it where it begins a frame is what the script says. The   *)
(* script is settled frame by frame as the frames are sent. The inductive  *)
(* invariant says that there is a script both traces, every queue, every   *)
(* inbox and every message agree with, and a walk through it on which both *)
(* machines are somewhere.                                                 *)
(*                                                                         *)
(* They never run so far apart that a frame is dropped, either: each is at *)
(* most in the frame it sent last, and runs of the partner's only frames   *)
(* that the partner has sent.                                              *)
(*                                                                         *)
(* And their hashes tell: each machine remembers the newest of its own,    *)
(* every frame on its way brings the one that goes with it, and what had   *)
(* strayed before a hash that a machine has compared would have ended it.  *)
(***************************************************************************)
EXTENDS LinkLockstep, FiniteSetTheorems, TLAPS

-----------------------------------------------------------------------------
(* Scripts and the walk through them.                                      *)

Event == Pads \union {"write", "reset"}

\* What a trace is made of.
Stepped == [console : Console, step : {TRUE}]
Happened == [console : Console, events : Seq(Event)]
StrayEntry == [stray : Nat, on : Machine]
Entries == Stepped \union Happened \union StrayEntry

\* The events of every frame of each console, those of the plug-in first.
Script ==
    {script \in [Console -> [Nat -> Seq(Event) \ {<<>>}]] :
        \A k \in Console : \A f \in Nat : f < Delay => script[k][f] = <<HeldInput>>}

\* Where a pair is: the link times, and whether the events of the frame that is next
\* have been applied already.
Place == [time : [Console -> Nat], begun : BOOLEAN]
Start == [time |-> [k \in Console |-> 0], begun |-> FALSE]

Turn(p) == IF p.time["second"] < p.time["first"] THEN "second" ELSE "first"
FrameAt(p) == p.time[Turn(p)] \div FrameTicks[Turn(p)]
Begins(p) == p.time[Turn(p)] % FrameTicks[Turn(p)] = 0 /\ ~p.begun

\* What happens there, and where it leads.
Entry(script, p) ==
    IF Begins(p) THEN [console |-> Turn(p), events |-> script[Turn(p)][FrameAt(p)]]
                 ELSE [console |-> Turn(p), step |-> TRUE]
After(p) ==
    IF Begins(p) THEN [time |-> p.time, begun |-> TRUE]
                 ELSE [time |-> [p.time EXCEPT ![Turn(p)] = @ + 1], begun |-> FALSE]

\* walk[i] is where i entries lead.
Walks == {walk \in [Nat -> Place] : walk[0] = Start}

Follows(s, script, walk) ==
    \A i \in 1..Len(s) : s[i] = Entry(script, walk[i - 1]) /\ walk[i] = After(walk[i - 1])

\* Of console k, the walk to the end of s has begun no frame but the first n.
Begun(s, walk, k, n) ==
    \A i \in 1..Len(s) :
        Begins(walk[i - 1]) /\ Turn(walk[i - 1]) = k => FrameAt(walk[i - 1]) < n

\* Where frames begin and how time passes within them.
LEMMA Ticks ==
    ASSUME NEW n \in Nat \ {0}, NEW t \in Nat
    PROVE  /\ t \div n \in Nat /\ t % n \in 0..(n - 1) /\ t = n * (t \div n) + (t % n)
           /\ (t + 1) % n = 0 => (t + 1) \div n = t \div n + 1
           /\ (t + 1) % n # 0 => (t + 1) \div n = t \div n
<1> DEFINE q == t \div n
           r == t % n
<1>1. q \in Nat /\ r \in 0..(n - 1) /\ t = n * q + r
  OBVIOUS
<1>2. (t + 1) \div n \in Nat /\ (t + 1) % n \in 0..(n - 1)
      /\ t + 1 = n * ((t + 1) \div n) + ((t + 1) % n)
  OBVIOUS
<1>3. \A a, b \in Int : n * a < n * b <=> a < b
  OBVIOUS
<1>4. QED
  BY <1>1, <1>2, <1>3

LEMMA PlaceTypes ==
    ASSUME NEW p \in Place
    PROVE  /\ Turn(p) \in Console /\ p.time \in [Console -> Nat] /\ p.begun \in BOOLEAN
           /\ FrameAt(p) \in Nat /\ Begins(p) \in BOOLEAN /\ After(p) \in Place
           /\ \A script \in Script : Entry(script, p) \in Stepped \union Happened
<1>1. /\ Turn(p) \in Console /\ p.time \in [Console -> Nat] /\ p.begun \in BOOLEAN
      /\ p.time[Turn(p)] \in Nat
  BY DEF Place, Turn, Console
<1>2. FrameTicks[Turn(p)] \in Nat \ {0}
  BY <1>1, TicksAssumption
<1>3. FrameAt(p) \in Nat
  BY <1>1, <1>2, Ticks DEF FrameAt
<1>4. Begins(p) \in BOOLEAN
  BY DEF Begins
<1>5. After(p) \in Place
  BY <1>1 DEF After, Place
<1>6. ASSUME NEW script \in Script
      PROVE  Entry(script, p) \in Stepped \union Happened
  <2>1. script[Turn(p)][FrameAt(p)] \in Seq(Event)
    BY <1>1, <1>3, <1>6 DEF Script
  <2>2. QED
    BY <1>1, <2>1 DEF Entry, Stepped, Happened
<1>7. QED
  BY <1>1, <1>3, <1>4, <1>5, <1>6

\* Two traces that follow one script along one walk: one begins the other.
LEMMA Agreeing ==
    ASSUME NEW S, NEW s \in Seq(S), NEW t \in Seq(S), NEW script, NEW walk,
           Follows(s, script, walk), Follows(t, script, walk), Len(s) <= Len(t)
    PROVE  IsPrefix(s, t)
<1>1. \A i \in 1..Len(s) : s[i] = t[i]
  BY DEF Follows
<1>2. SubSeq(s, 1, Len(s)) = SubSeq(t, 1, Len(s))
  BY <1>1
<1>3. QED
  BY <1>2 DEF IsPrefix

\* What happens next is added to s, which t may have gone through already.
LEMMA Grows ==
    ASSUME NEW script \in Script, NEW walk \in Walks,
           NEW s \in Seq(Entries), NEW t \in Seq(Entries),
           Follows(s, script, walk), Follows(t, script, walk)
    PROVE  \E on \in Walks :
             /\ Follows(Append(s, Entry(script, walk[Len(s)])), script, on)
             /\ Follows(t, script, on)
             /\ on[Len(s) + 1] = After(walk[Len(s)])
             /\ \A i \in 0..Len(s) : on[i] = walk[i]
             /\ \A i \in 0..Len(t) : on[i] = walk[i]
<1> DEFINE n == Len(s)
<1>1. PICK on : on = [walk EXCEPT ![n + 1] = After(walk[n])]
  OBVIOUS
<1>2. n \in Nat /\ walk[n] \in Place /\ After(walk[n]) \in Place
  BY PlaceTypes DEF Walks
<1>3. on \in Walks /\ on[n + 1] = After(walk[n]) /\ \A i \in Nat : i # n + 1 => on[i] = walk[i]
  BY <1>1, <1>2 DEF Walks
<1>4. ASSUME n < Len(t)
      PROVE  \A i \in Nat : on[i] = walk[i]
  <2>1. walk[n + 1] = After(walk[n + 1 - 1])
    BY <1>4 DEF Follows
  <2>2. QED
    BY <1>2, <1>3, <2>1
<1>5. \A i \in 0..Len(t) : on[i] = walk[i]
  BY <1>3, <1>4
<1>6. Follows(t, script, on)
  BY <1>5 DEF Follows
<1>7. Follows(Append(s, Entry(script, walk[n])), script, on)
  <2>1. PICK e : e = Entry(script, walk[n])
    OBVIOUS
  <2>2. PICK u : u = Append(s, e)
    OBVIOUS
  <2>3. Len(u) = n + 1 /\ u[n + 1] = e /\ \A i \in 1..n : u[i] = s[i]
    BY <1>2, <2>2
  <2>4. ASSUME NEW i \in 1..n
        PROVE  u[i] = Entry(script, on[i - 1]) /\ on[i] = After(on[i - 1])
    <3>1. on[i - 1] = walk[i - 1] /\ on[i] = walk[i]
      BY <1>2, <1>3
    <3>2. QED
      BY <2>3, <3>1 DEF Follows
  <2>5. u[n + 1] = Entry(script, on[n + 1 - 1]) /\ on[n + 1] = After(on[n + 1 - 1])
    BY <1>2, <1>3, <2>1, <2>3
  <2>6. Follows(u, script, on)
    <3>1. \A i \in 1..(n + 1) : i \in 1..n \/ i = n + 1
      BY <1>2
    <3>2. QED
      BY <2>3, <2>4, <2>5, <3>1 DEF Follows
  <2>7. QED
    BY <2>1, <2>2, <2>6
<1>8. QED
  BY <1>3, <1>5, <1>6, <1>7

\* The events of frame n of console k are settled.
Settled(script, k, n, events) == [script EXCEPT ![k] = [@ EXCEPT ![n] = events]]

\* A frame that was begun nowhere may still be.
LEMMA Settles ==
    ASSUME NEW script \in Script, NEW walk \in Walks, NEW s \in Seq(Entries),
           NEW k \in Console, NEW n \in Nat, NEW events \in Seq(Event) \ {<<>>},
           Follows(s, script, walk), Begun(s, walk, k, n)
    PROVE  Follows(s, Settled(script, k, n, events), walk)
<1>0. PICK new : new = Settled(script, k, n, events)
  OBVIOUS
<1> SUFFICES ASSUME NEW i \in 1..Len(s)
             PROVE  Entry(new, walk[i - 1]) = Entry(script, walk[i - 1])
  BY <1>0 DEF Follows
<1>1. PICK p \in Place : p = walk[i - 1]
  BY DEF Walks
<1>2. Turn(p) \in Console /\ FrameAt(p) \in Nat
  BY PlaceTypes
<1>3. Begins(p) /\ Turn(p) = k => FrameAt(p) < n
  BY <1>1 DEF Begun
<1>4. script \in [Console -> [Nat -> Seq(Event) \ {<<>>}]]
  BY DEF Script
<1>5. \A j \in Console : \A f \in Nat : j # k \/ f # n => new[j][f] = script[j][f]
  BY <1>0, <1>4 DEF Settled
<1>6. Begins(p) => new[Turn(p)][FrameAt(p)] = script[Turn(p)][FrameAt(p)]
  BY <1>2, <1>3, <1>5
<1>7. QED
  BY <1>1, <1>6 DEF Entry

\* The rest of the script stays.
LEMMA SettledScript ==
    ASSUME NEW script \in Script, NEW k \in Console, NEW n \in Nat, n >= Delay,
           NEW events \in Seq(Event) \ {<<>>}
    PROVE  /\ Settled(script, k, n, events) \in Script
           /\ Settled(script, k, n, events)[k][n] = events
           /\ \A j \in Console : \A f \in Nat : j # k \/ f # n =>
                 Settled(script, k, n, events)[j][f] = script[j][f]
<1>0. PICK new : new = Settled(script, k, n, events)
  OBVIOUS
<1>1. script \in [Console -> [Nat -> Seq(Event) \ {<<>>}]]
  BY DEF Script
<1>2. new \in [Console -> [Nat -> Seq(Event) \ {<<>>}]]
  BY <1>0, <1>1 DEF Settled
<1>3. new[k][n] = events
  BY <1>0, <1>1 DEF Settled
<1>4. \A j \in Console : \A f \in Nat : j # k \/ f # n => new[j][f] = script[j][f]
  BY <1>0, <1>1 DEF Settled
<1>5. ASSUME NEW j \in Console, NEW f \in Nat, f < Delay
      PROVE  new[j][f] = <<HeldInput>>
  <2>1. f # n
    BY <1>5, DelayAssumption
  <2>2. script[j][f] = <<HeldInput>>
    BY <1>5 DEF Script
  <2>3. QED
    BY <1>4, <2>1, <2>2
<1>6. new \in Script
  BY <1>2, <1>5 DEF Script
<1>7. QED
  BY <1>0, <1>3, <1>4, <1>6

-----------------------------------------------------------------------------
(* The invariant.                                                          *)

Hash == [frame : Nat, of : Seq(Entries)]
FrameMessages == [kind : {"frame"}, frame : Nat, events : Seq(Event), hash : SUBSET Hash]
Signs == [kind : {"left", "unlink"}]
Messages == FrameMessages \union Signs

LinkFields == {"phase", "failure", "queue", "nextSend", "prepared", "computed", "received",
               "pending", "due"}

LinkTyped(l) ==
    /\ DOMAIN l = LinkFields
    /\ l.phase \in {"starting", "running", "ended"}
    /\ DOMAIN l.queue \subseteq Nat /\ \A f \in DOMAIN l.queue : l.queue[f] \in Seq(Event)
    /\ l.nextSend \in Nat /\ l.prepared \in BOOLEAN
    /\ l.pending \in SUBSET Hash /\ l.due \in SUBSET Nat

PartnerTyped(p) ==
    /\ DOMAIN p = {"frames", "applied", "ended"}
    /\ DOMAIN p.frames \subseteq Nat
    /\ \A f \in DOMAIN p.frames : p.frames[f] \in FrameMessages /\ p.frames[f].frame = f

Typed ==
    /\ DOMAIN link = Machine /\ \A m \in Machine : LinkTyped(link[m])
    /\ DOMAIN partner = Machine /\ \A m \in Machine : PartnerTyped(partner[m])
    /\ time \in [Machine -> [Console -> Nat]]
    /\ trace \in [Machine -> Seq(Entries)]
    /\ pad \in [Machine -> Pads]
    /\ net \in [Machine -> Seq(Messages)]

\* Trace s has led to these link times, and has begun no frame that was not sent.
On(s, times, links, script, walk) ==
    /\ Follows(s, script, walk)
    /\ walk[Len(s)].time = times
    /\ \A k \in Console : links[k].phase # "ended" => Begun(s, walk, k, links[k].nextSend)

\* Where machine m is on the walk.
Here(m, walk) == walk[Len(trace[m])]

\* The frames of its own console that machine m took from its queue.
Ran(m, l, p) == p.time[m] \div FrameTicks[m] + (IF l.prepared THEN 1 ELSE 0)

\* At p, machine m prepared its own console's frame or not, has sent Delay frames more
\* than it ran, and has their events as the script says.
Ready(m, l, p, script) ==
    /\ p.begun <=> l.prepared /\ p.time[m] % FrameTicks[m] = 0
    /\ p.begun => Turn(p) = m
    /\ p.time[m] % FrameTicks[m] # 0 => l.prepared
    /\ l.nextSend = Ran(m, l, p) + Delay
    /\ \A f \in Ran(m, l, p)..(l.nextSend - 1) : f \in DOMAIN l.queue
    /\ \A f \in DOMAIN l.queue : f < l.nextSend => l.queue[f] = script[m][f]

\* A frame of console k says what the script does, and its machine (l) has sent it.
Truthful(msg, k, l, script) ==
    /\ msg.events = script[k][msg.frame]
    /\ l.phase # "ended" => msg.frame < l.nextSend

TruthArrives(m, script) ==
    /\ \A f \in DOMAIN partner[m].frames :
          Truthful(partner[m].frames[f], Other(m), link[Other(m)], script)
    /\ \A i \in 1..Len(net[m]) :
          net[m][i].kind = "frame" => Truthful(net[m][i], Other(m), link[Other(m)], script)

Agreed(script, walk) == \A m \in Machine :
    /\ On(trace[m], time[m], link, script, walk)
    /\ link[m].phase # "ended" => Ready(m, link[m], Here(m, walk), script)
    /\ TruthArrives(m, script)

\* Unless something else than the link changed a console, there is such a script.
Scripted == \E script \in Script, walk \in Walks : Agreed(script, walk)
LockstepInv == Typed /\ (Strayed \/ Scripted)

-----------------------------------------------------------------------------
(* Typing.                                                                 *)

LEMMA Pairs ==
    ASSUME NEW m \in Machine
    PROVE  /\ Other(m) \in Machine /\ Other(m) # m /\ Other(Other(m)) = m
           /\ Machine = Console /\ \A k \in Console : k = m \/ k = Other(m)
  BY DEF Other, Machine, Console

SamePlan(a, b) ==
    /\ a.phase = b.phase /\ a.queue = b.queue
    /\ a.nextSend = b.nextSend /\ a.prepared = b.prepared

\* What is done about hashes leaves the rest alone.
LEMMA HashesOnly ==
    ASSUME NEW l, LinkTyped(l), NEW new, NEW x, NEW due \in SUBSET Nat,
           NEW pending \in SUBSET Hash,
           \/ new = [l EXCEPT !.received = x]
           \/ new = [l EXCEPT !.due = due]
           \/ new = [l EXCEPT !.pending = pending, !.due = due, !.computed = x]
    PROVE  LinkTyped(new) /\ SamePlan(new, l)
<1>1. CASE new = [l EXCEPT !.received = x]
  BY <1>1 DEF LinkTyped, LinkFields, SamePlan
<1>2. CASE new = [l EXCEPT !.due = due]
  BY <1>2 DEF LinkTyped, LinkFields, SamePlan
<1>3. CASE new = [l EXCEPT !.pending = pending, !.due = due, !.computed = x]
  <2>1. DOMAIN new = LinkFields /\ new.pending = pending /\ new.due = due /\ SamePlan(new, l)
    BY <1>3 DEF LinkTyped, LinkFields, SamePlan
  <2>2. QED
    BY <2>1 DEF LinkTyped, SamePlan
<1>4. QED
  BY <1>1, <1>2, <1>3

LEMMA UnmatchedKeeps ==
    ASSUME NEW l, LinkTyped(l)
    PROVE  LinkTyped(Unmatched(l)) /\ SamePlan(Unmatched(l), l)
<1>1. \E x : Unmatched(l) = [l EXCEPT !.received = x]
  BY Zenon DEF Unmatched
<1>2. QED
  BY <1>1, HashesOnly, Zenon

LEMMA WithReceivedKeeps ==
    ASSUME NEW l, LinkTyped(l), NEW hashes
    PROVE  LinkTyped(WithReceived(l, hashes)) /\ SamePlan(WithReceived(l, hashes), l)
<1>1. \E x : WithReceived(l, hashes) = [l EXCEPT !.received = x]
  BY Zenon DEF WithReceived
<1>2. QED
  BY <1>1, HashesOnly, Zenon

LEMMA WithComputedKeeps ==
    ASSUME NEW l, LinkTyped(l), NEW of \in Seq(Entries)
    PROVE  LinkTyped(WithComputed(l, of)) /\ SamePlan(WithComputed(l, of), l)
<1>1. CASE l.due = {}
  BY <1>1 DEF WithComputed, SamePlan
<1>2. CASE l.due # {}
  <2>1. PICK frame : frame = CHOOSE f \in l.due : TRUE
    OBVIOUS
  <2>2. frame \in Nat
    BY <1>2, <2>1 DEF LinkTyped
  <2>3. PICK hash : hash = [frame |-> frame, of |-> of]
    OBVIOUS
  <2>4. {hash} \in SUBSET Hash /\ {} \in SUBSET Nat
    BY <2>2, <2>3 DEF Hash
  <2>5. \E x : WithComputed(l, of) = [l EXCEPT !.pending = {hash}, !.due = {}, !.computed = x]
    BY <1>2, <2>1, <2>3, Zenon DEF WithComputed
  <2>6. QED
    BY <2>4, <2>5, HashesOnly, Zenon
<1>3. QED
  BY <1>1, <1>2

LEMMA WithDueKeeps ==
    ASSUME NEW l, LinkTyped(l), NEW k \in Console, NEW t \in Nat
    PROVE  LinkTyped(WithDue(l, k, t)) /\ SamePlan(WithDue(l, k, t), l)
<1>1. t \div FrameTicks["first"] \in Nat
  BY TicksAssumption DEF Console
<1>2. WithDue(l, k, t) = l \/ WithDue(l, k, t) = [l EXCEPT !.due = {t \div FrameTicks["first"]}]
  BY DEF WithDue
<1>3. SamePlan(l, l)
  BY DEF SamePlan
<1>4. {t \div FrameTicks["first"]} \in SUBSET Nat
  BY <1>1
<1>5. QED
  BY <1>2, <1>3, <1>4, HashesOnly, Zenon

\* Every turn begins so.
LEMMA HashedKeeps ==
    ASSUME Typed, NEW m \in Machine
    PROVE  /\ LinkTyped(Hashed(m)) /\ SamePlan(Hashed(m), link[m])
           /\ LinkTyped(Unmatched(Hashed(m))) /\ SamePlan(Unmatched(Hashed(m)), link[m])
<1>1. LinkTyped(link[m]) /\ trace[m] \in Seq(Entries) /\ SamePlan(link[m], link[m])
  BY DEF Typed, SamePlan
<1>2. LinkTyped(Hashed(m)) /\ SamePlan(Hashed(m), link[m])
  BY <1>1, WithComputedKeeps DEF Hashed
<1>3. QED
  BY <1>2, UnmatchedKeeps DEF SamePlan

LEMMA TypedParts ==
    ASSUME Typed, NEW m \in Machine
    PROVE  /\ LinkTyped(link[m]) /\ PartnerTyped(partner[m])
           /\ time[m] \in [Console -> Nat] /\ trace[m] \in Seq(Entries)
           /\ pad[m] \in Pads /\ net[m] \in Seq(Messages)
           /\ \A k \in Console : time[m][k] \in Nat /\ Frame(m, k) \in Nat
<1>1. \A k \in Console : time[m][k] \in Nat /\ FrameTicks[k] \in Nat \ {0}
  BY TicksAssumption DEF Typed
<1>2. \A k \in Console : Frame(m, k) \in Nat
  BY <1>1, Ticks DEF Frame
<1>3. QED
  BY <1>1, <1>2 DEF Typed

LEMMA LinkPut ==
    ASSUME Typed, NEW m \in Machine, NEW l, LinkTyped(l), link' = [link EXCEPT ![m] = l]
    PROVE  DOMAIN link' = Machine /\ \A j \in Machine : LinkTyped(link'[j])
<1>1. DOMAIN link' = Machine
  BY DEF Typed
<1>2. ASSUME NEW j \in Machine PROVE LinkTyped(link'[j])
  <2>1. link'[j] = l \/ link'[j] = link[j]
    BY DEF Typed
  <2>2. QED
    BY <2>1 DEF Typed
<1>3. QED
  BY <1>1, <1>2

LEMMA PartnerPut ==
    ASSUME Typed, NEW m \in Machine, NEW p, PartnerTyped(p),
           partner' = [partner EXCEPT ![m] = p]
    PROVE  DOMAIN partner' = Machine /\ \A j \in Machine : PartnerTyped(partner'[j])
<1>1. DOMAIN partner' = Machine
  BY DEF Typed
<1>2. ASSUME NEW j \in Machine PROVE PartnerTyped(partner'[j])
  <2>1. partner'[j] = p \/ partner'[j] = partner[j]
    BY DEF Typed
  <2>2. QED
    BY <2>1 DEF Typed
<1>3. QED
  BY <1>1, <1>2

LEMMA LinkInTyped ==
    ASSUME NEW phase \in {"starting", "running", "ended"}, NEW failure
    PROVE  LinkTyped(LinkIn(phase, failure)) /\ PartnerTyped(NoFrames)
<1>1. DOMAIN Prefill \subseteq Nat /\ \A f \in DOMAIN Prefill : Prefill[f] \in Seq(Event)
  BY DelayAssumption DEF Prefill, Event, Pads
<1>2. PICK queue : queue = Prefill
  OBVIOUS
<1>3. LinkTyped(LinkIn(phase, failure))
  BY <1>1, <1>2, DelayAssumption DEF LinkIn, LinkTyped, LinkFields
<1>4. PartnerTyped(NoFrames)
  BY DEF NoFrames, PartnerTyped
<1>5. QED
  BY <1>3, <1>4

LEMMA EndsTypes ==
    ASSUME Typed, NEW m \in Machine, NEW failure, NEW told \in Seq(Messages),
           Ends(m, failure, told)
    PROVE  /\ DOMAIN link' = Machine /\ \A j \in Machine : LinkTyped(link'[j])
           /\ DOMAIN partner' = Machine /\ \A j \in Machine : PartnerTyped(partner'[j])
           /\ net' \in [Machine -> Seq(Messages)]
<1>1. LinkTyped(LinkIn("ended", failure)) /\ PartnerTyped(NoFrames)
  BY LinkInTyped
<1>2. PICK l : l = LinkIn("ended", failure)
  OBVIOUS
<1>3. DOMAIN link' = Machine /\ \A j \in Machine : LinkTyped(link'[j])
  BY <1>1, <1>2, LinkPut DEF Ends
<1>4. DOMAIN partner' = Machine /\ \A j \in Machine : PartnerTyped(partner'[j])
  BY <1>1, PartnerPut DEF Ends
<1>5. net' \in [Machine -> Seq(Messages)]
  <2>1. PICK o \in Machine : o = Other(m) /\ o # m
    BY Pairs
  <2>2. PICK more : more = net[o] \o told
    OBVIOUS
  <2>3. more \in Seq(Messages) /\ <<>> \in Seq(Messages)
    BY <2>1, <2>2, TypedParts
  <2>4. net' = [net EXCEPT ![m] = <<>>, ![o] = more]
    BY <2>1, <2>2 DEF Ends, Typed
  <2>5. QED
    BY <2>1, <2>3, <2>4 DEF Typed
<1>6. QED
  BY <1>3, <1>4, <1>5

LEMMA ScheduledTypes ==
    ASSUME NEW l, LinkTyped(l), NEW f \in Nat
    PROVE  Scheduled(l, f) \in Seq(Event)
  BY DEF Scheduled, LinkTyped

LEMMA ScheduleTypes ==
    ASSUME NEW l, LinkTyped(l), NEW event \in {"write", "reset"}
    PROVE  /\ LinkTyped(Schedule(l, event))
           /\ Schedule(l, event).phase = l.phase
           /\ Schedule(l, event).nextSend = l.nextSend
           /\ Schedule(l, event).prepared = l.prepared
           /\ DOMAIN Schedule(l, event).queue = DOMAIN l.queue \union {l.nextSend}
           /\ \A f \in DOMAIN l.queue : f # l.nextSend =>
                 Schedule(l, event).queue[f] = l.queue[f]
<1>1. PICK there : there = Scheduled(l, l.nextSend)
  OBVIOUS
<1>2. there \in Seq(Event) /\ <<event>> \o there \in Seq(Event) /\ Append(there, event) \in Seq(Event)
  BY <1>1, ScheduledTypes DEF LinkTyped, Event
<1>3. PICK new \in Seq(Event) : new = IF event = "reset" THEN <<event>> \o there
                                                         ELSE Append(there, event)
  BY <1>2
<1>4. PICK queue : queue = Put(l.queue, l.nextSend, new)
  OBVIOUS
<1>5. Schedule(l, event) = [l EXCEPT !.queue = queue]
  BY <1>1, <1>3, <1>4, Zenon DEF Schedule
<1>6. /\ DOMAIN queue = DOMAIN l.queue \union {l.nextSend}
      /\ queue[l.nextSend] = new
      /\ \A f \in DOMAIN l.queue : f # l.nextSend => queue[f] = l.queue[f]
  BY <1>4 DEF Put
<1>7. DOMAIN queue \subseteq Nat /\ \A f \in DOMAIN queue : queue[f] \in Seq(Event)
  BY <1>3, <1>6 DEF LinkTyped
<1>8. PICK made : made = [l EXCEPT !.queue = queue]
  OBVIOUS
<1>9. /\ DOMAIN made = LinkFields /\ made.queue = queue
      /\ made.phase = l.phase /\ made.nextSend = l.nextSend /\ made.prepared = l.prepared
      /\ made.pending = l.pending /\ made.due = l.due
  BY <1>8 DEF LinkTyped, LinkFields
<1>10. LinkTyped(made)
  BY <1>7, <1>9 DEF LinkTyped
<1>11. QED
  BY <1>5, <1>6, <1>8, <1>9, <1>10

\* What is left of the plan once a frame has been sent and another taken.
SentAndTaken(l, out, frame, a) ==
    /\ a.phase = l.phase /\ a.nextSend = l.nextSend + 1 /\ a.prepared = TRUE
    /\ DOMAIN a.queue = (DOMAIN l.queue \union {l.nextSend}) \ {frame}
    /\ frame # l.nextSend => a.queue[l.nextSend] = out
    /\ \A f \in DOMAIN l.queue \ {frame} : f # l.nextSend => a.queue[f] = l.queue[f]

LEMMA SendingTypes ==
    ASSUME NEW l, LinkTyped(l), NEW input \in Pads, NEW frame \in Nat
    PROVE  /\ Outgoing(l, input) \in Seq(Event) \ {<<>>}
           /\ FrameMessage(l, input) \in FrameMessages
           /\ LinkTyped(AfterSending(l, input, frame))
           /\ SentAndTaken(l, Outgoing(l, input), frame, AfterSending(l, input, frame))
<1>1. PICK out : out = Outgoing(l, input)
  OBVIOUS
<1>2. out \in Seq(Event) \ {<<>>}
  <2>1. Scheduled(l, l.nextSend) \in Seq(Event) /\ input \in Event
    BY ScheduledTypes DEF LinkTyped, Event
  <2>2. out \in Seq(Event) /\ Len(out) = Len(Scheduled(l, l.nextSend)) + 1
    BY <1>1, <2>1 DEF Outgoing
  <2>3. out # <<>>
    BY <2>1, <2>2
  <2>4. QED
    BY <2>2, <2>3
<1>3. FrameMessage(l, input) \in FrameMessages
  BY <1>1, <1>2 DEF FrameMessage, FrameMessages, LinkTyped
<1>4. PICK sent : sent = Put(l.queue, l.nextSend, out)
  OBVIOUS
<1>5. PICK queue : queue = Restrict(sent, DOMAIN sent \ {frame})
  OBVIOUS
<1>6. /\ DOMAIN queue = (DOMAIN l.queue \union {l.nextSend}) \ {frame}
      /\ frame # l.nextSend => queue[l.nextSend] = out
      /\ \A f \in DOMAIN l.queue \ {frame} : f # l.nextSend => queue[f] = l.queue[f]
  BY <1>4, <1>5 DEF Put, Restrict
<1>7. DOMAIN queue \subseteq Nat /\ \A f \in DOMAIN queue : queue[f] \in Seq(Event)
  BY <1>2, <1>6 DEF LinkTyped
<1>8. AfterSending(l, input, frame) =
        [l EXCEPT !.queue = queue, !.nextSend = @ + 1, !.pending = {}, !.prepared = TRUE]
  BY <1>1, <1>4, <1>5, Zenon DEF AfterSending
<1>9. PICK made : made =
        [l EXCEPT !.queue = queue, !.nextSend = @ + 1, !.pending = {}, !.prepared = TRUE]
  OBVIOUS
<1>10. /\ DOMAIN made = LinkFields /\ made.queue = queue
       /\ made.phase = l.phase /\ made.nextSend = l.nextSend + 1 /\ made.prepared = TRUE
       /\ made.pending = {} /\ made.due = l.due
  BY <1>9 DEF LinkTyped, LinkFields
<1>11. LinkTyped(made)
  <2>1. made.nextSend \in Nat /\ made.phase \in {"starting", "running", "ended"}
        /\ made.due \in SUBSET Nat
    BY <1>10 DEF LinkTyped
  <2>2. made.prepared \in BOOLEAN /\ made.pending \in SUBSET Hash
    BY <1>10
  <2>3. QED
    BY <1>7, <1>10, <2>1, <2>2 DEF LinkTyped
<1>12. SentAndTaken(l, out, frame, made)
  BY <1>6, <1>10 DEF SentAndTaken
<1>13. QED
  BY <1>1, <1>2, <1>3, <1>8, <1>9, <1>11, <1>12

\* What is put into an inbox, and taken out.
LEMMA PushedTypes ==
    ASSUME NEW inbox, PartnerTyped(inbox), NEW msg \in FrameMessages
    PROVE  /\ PartnerTyped(Pushed(inbox, msg))
           /\ \A f \in DOMAIN Pushed(inbox, msg).frames :
                 \/ Pushed(inbox, msg).frames[f] = msg
                 \/ f \in DOMAIN inbox.frames /\ Pushed(inbox, msg).frames[f] = inbox.frames[f]
<1>1. PICK frames : frames = Put(inbox.frames, msg.frame, msg)
  OBVIOUS
<1>2. Pushed(inbox, msg) = inbox \/ Pushed(inbox, msg) = [inbox EXCEPT !.frames = frames]
  BY <1>1, Zenon DEF Pushed
<1>3. /\ DOMAIN frames \subseteq Nat /\ msg.frame \in Nat
      /\ \A f \in DOMAIN frames : \/ f = msg.frame /\ frames[f] = msg
                                  \/ f \in DOMAIN inbox.frames /\ frames[f] = inbox.frames[f]
  BY <1>1 DEF Put, PartnerTyped, FrameMessages
<1>4. PICK made : made = [inbox EXCEPT !.frames = frames]
  OBVIOUS
<1>5. DOMAIN made = {"frames", "applied", "ended"} /\ made.frames = frames
  BY <1>4 DEF PartnerTyped
<1>6. PartnerTyped(made)
  BY <1>3, <1>5 DEF PartnerTyped
<1>7. QED
  BY <1>2, <1>3, <1>4, <1>5, <1>6

LEMMA TakenTypes ==
    ASSUME NEW inbox, PartnerTyped(inbox), NEW frame \in Nat
    PROVE  /\ PartnerTyped(Taken(inbox, frame))
           /\ DOMAIN Taken(inbox, frame).frames \subseteq DOMAIN inbox.frames
           /\ \A f \in DOMAIN Taken(inbox, frame).frames :
                 Taken(inbox, frame).frames[f] = inbox.frames[f]
<1>1. PICK later : later = {f \in DOMAIN inbox.frames : f > frame}
  OBVIOUS
<1>2. PICK frames : frames = Restrict(inbox.frames, later)
  OBVIOUS
<1>3. Taken(inbox, frame) = [inbox EXCEPT !.frames = frames, !.applied = frame + 1]
  BY <1>1, <1>2, Zenon DEF Taken
<1>4. PICK made : made = [inbox EXCEPT !.frames = frames, !.applied = frame + 1]
  OBVIOUS
<1>5. DOMAIN made = {"frames", "applied", "ended"} /\ made.frames = frames
  BY <1>4 DEF PartnerTyped
<1>6. /\ DOMAIN frames \subseteq DOMAIN inbox.frames
      /\ \A f \in DOMAIN frames : frames[f] = inbox.frames[f]
  BY <1>1, <1>2 DEF Restrict
<1>7. PartnerTyped(made)
  BY <1>5, <1>6 DEF PartnerTyped
<1>8. QED
  BY <1>3, <1>4, <1>5, <1>6, <1>7

-----------------------------------------------------------------------------
(* What a turn of the thread does.                                         *)

Prepares(m, h) == ~MidFrame(m, m) /\ ~h.prepared

\* A turn that is machine m's own console's, its hashes seen to (h): a frame is
\* prepared (a, applied) if one is due to be, and the console steps or waits.
LocalEffect(m, h, a, applied) ==
    /\ \/ /\ Prepares(m, h)
          /\ a = AfterSending(h, pad[m], Frame(m, m))
          /\ applied = IF Scheduled(h, Frame(m, m)) # <<>>
                       THEN Applied(m, Scheduled(h, Frame(m, m))) ELSE <<>>
          /\ net' = [net EXCEPT ![Other(m)] = Append(@, FrameMessage(h, pad[m]))]
       \/ ~Prepares(m, h) /\ a = h /\ applied = <<>> /\ net' = net
    /\ \/ /\ Step(m, m, applied)
          /\ link' = [link EXCEPT ![m] =
                [WithDue(a, m, time'[m][m]) EXCEPT !.prepared = @ /\ ~CompletesFrame(m, m)]]
       \/ /\ ~MidFrame(m, m)
          /\ trace' = [trace EXCEPT ![m] = @ \o applied]
          /\ link' = [link EXCEPT ![m] = a]
          /\ time' = time

LEMMA LocalTurnEffect ==
    ASSUME NEW m \in Machine, LocalTurn(m)
    PROVE  /\ Runs(m, m) /\ UNCHANGED <<partner, pad>>
           /\ \E h, a, applied : h = Unmatched(Hashed(m)) /\ LocalEffect(m, h, a, applied)
<1>1. PICK h : h = Unmatched(Hashed(m))
  OBVIOUS
<1>2. PICK a : a = IF Prepares(m, h) THEN AfterSending(h, pad[m], Frame(m, m)) ELSE h
  OBVIOUS
<1>3. PICK applied :
        applied = IF Prepares(m, h) /\ Scheduled(h, Frame(m, m)) # <<>>
                  THEN Applied(m, Scheduled(h, Frame(m, m))) ELSE <<>>
  OBVIOUS
<1>4. LocalEffect(m, h, a, applied)
  BY <1>1, <1>2, <1>3, Zenon DEF LocalTurn, LocalEffect, Prepares
<1>5. QED
  BY <1>1, <1>4 DEF LocalTurn

\* A turn that begins the partner's frame.
BeginsWith(m, events, hashes) ==
    LET k == Other(m)
        frame == Frame(m, k)
    IN  \/ frame < Delay /\ events = <<HeldInput>> /\ hashes = {}
        \/ /\ frame >= Delay /\ frame \in DOMAIN partner[m].frames
           /\ events = partner[m].frames[frame].events
           /\ hashes = partner[m].frames[frame].hash

BeginsEffect(m, events, hashes, l, a, p) ==
    LET k == Other(m)
    IN  /\ l = WithReceived(Unmatched(Hashed(m)), hashes)
        /\ a = IF hashes = {} THEN l ELSE Unmatched(l)
        /\ \/ /\ Mismatch(l)
              /\ Fails(m, "mismatch")
              /\ trace' = [trace EXCEPT ![m] = @ \o Applied(k, events)]
              /\ time' = time
           \/ /\ ~Mismatch(l)
              /\ Step(m, k, Applied(k, events))
              /\ link' = [link EXCEPT ![m] = WithDue(a, k, time'[m][k])]
              /\ p \in {partner[m], Taken(partner[m], Frame(m, k))}
              /\ partner' = [partner EXCEPT ![m] = p]
              /\ net' = net

LEMMA PartnerBeginsEffect ==
    ASSUME Typed, NEW m \in Machine, PartnerBegins(m)
    PROVE  /\ Runs(m, Other(m)) /\ ~MidFrame(m, Other(m)) /\ UNCHANGED pad
           /\ \E events, hashes, l, a, p :
                 BeginsWith(m, events, hashes) /\ BeginsEffect(m, events, hashes, l, a, p)
<1>1. PICK filled \in BOOLEAN : filled <=> Frame(m, Other(m)) < Delay
  OBVIOUS
<1>2. PICK arrived : arrived = partner[m].frames[Frame(m, Other(m))]
  OBVIOUS
<1>3. PICK events : events = IF filled THEN <<HeldInput>> ELSE arrived.events
  OBVIOUS
<1>4. PICK hashes : hashes = IF filled THEN {} ELSE arrived.hash
  OBVIOUS
<1>5. PICK l : l = WithReceived(Unmatched(Hashed(m)), hashes)
  OBVIOUS
<1>6. PICK a : a = IF hashes = {} THEN l ELSE Unmatched(l)
  OBVIOUS
<1>7. PICK p : p = IF filled THEN partner[m] ELSE Taken(partner[m], Frame(m, Other(m)))
  OBVIOUS
<1>8. BeginsEffect(m, events, hashes, l, a, p)
  BY <1>1, <1>2, <1>3, <1>4, <1>5, <1>6, <1>7, Zenon DEF PartnerBegins, BeginsEffect
<1>9. filled \/ Frame(m, Other(m)) \in DOMAIN partner[m].frames
  BY <1>1, Zenon DEF PartnerBegins
<1>10. BeginsWith(m, events, hashes)
  <2>1. Frame(m, Other(m)) \in Nat
    BY Pairs, TypedParts
  <2>2. ~filled => Frame(m, Other(m)) >= Delay
    BY <1>1, <2>1, DelayAssumption
  <2>3. QED
    BY <1>1, <1>2, <1>3, <1>4, <1>9, <2>2, Zenon DEF BeginsWith
<1>11. Runs(m, Other(m)) /\ ~MidFrame(m, Other(m)) /\ UNCHANGED pad
  BY DEF PartnerBegins
<1>12. QED
  BY <1>8, <1>10, <1>11

-----------------------------------------------------------------------------
(* Every step keeps the types.                                             *)

LEMMA EntryTypes ==
    ASSUME NEW k \in Console, NEW events \in Seq(Event)
    PROVE  /\ Applied(k, events) \in Seq(Entries)
           /\ <<[console |-> k, step |-> TRUE]>> \in Seq(Entries)
           /\ Len(Applied(k, events)) = 1
           /\ Applied(k, events)[1] = [console |-> k, events |-> events]
  BY DEF Applied, Entries, Stepped, Happened

\* No step takes back what happened.
TracesGrow ==
    \A j \in Machine : \A i \in DOMAIN trace[j] :
        i \in DOMAIN trace'[j] /\ trace'[j][i] = trace[j][i]

LEMMA Grown ==
    ASSUME Typed, NEW m \in Machine, NEW grown \in Seq(Entries), NEW more \in Seq(Entries),
           grown = trace[m] \o more, trace' = [trace EXCEPT ![m] = grown]
    PROVE  TracesGrow
<1>1. \A s, t \in Seq(Entries) : \A i \in DOMAIN s : i \in DOMAIN (s \o t) /\ (s \o t)[i] = s[i]
  OBVIOUS
<1>2. trace'[m] = trace[m] \o more /\ trace[m] \in Seq(Entries)
  BY DEF Typed
<1>3. \A j \in Machine : j # m => trace'[j] = trace[j]
  BY DEF Typed
<1>4. \A i \in DOMAIN trace[m] : i \in DOMAIN trace'[m] /\ trace'[m][i] = trace[m][i]
  BY <1>1, <1>2
<1>5. QED
  BY <1>3, <1>4 DEF TracesGrow

LEMMA StepTypes ==
    ASSUME Typed, NEW m \in Machine, NEW k \in Console, NEW applied \in Seq(Entries),
           Step(m, k, applied)
    PROVE  /\ time' \in [Machine -> [Console -> Nat]] /\ trace' \in [Machine -> Seq(Entries)]
           /\ time'[m][k] \in Nat /\ TracesGrow
<1>1. <<[console |-> k, step |-> TRUE]>> \in Seq(Entries)
  BY DEF Entries, Stepped
<1>2. PICK grown : grown = trace[m] \o applied \o <<[console |-> k, step |-> TRUE]>>
  OBVIOUS
<1>3. grown \in Seq(Entries)
  BY <1>1, <1>2, TypedParts
<1>4. trace' \in [Machine -> Seq(Entries)]
  BY <1>2, <1>3 DEF Step, Typed
<1>5. time' \in [Machine -> [Console -> Nat]]
  BY DEF Step, Typed
<1>6. TracesGrow
  <2>1. PICK tick \in Entries : tick = [console |-> k, step |-> TRUE]
    BY DEF Entries, Stepped
  <2>2. PICK more : more = applied \o <<tick>>
    OBVIOUS
  <2>3. \A s, t \in Seq(Entries) : \A e \in Entries :
            t \o <<e>> \in Seq(Entries) /\ s \o t \o <<e>> = s \o (t \o <<e>>)
    OBVIOUS
  <2>4. more \in Seq(Entries) /\ grown = trace[m] \o more
    BY <1>2, <2>1, <2>2, <2>3, TypedParts
  <2>5. trace' = [trace EXCEPT ![m] = grown]
    BY <1>2 DEF Step, Typed
  <2>6. QED
    BY <1>3, <2>4, <2>5, Grown
<1>7. QED
  BY <1>4, <1>5, <1>6

LEMMA LocalTurnTypes ==
    ASSUME Typed, NEW m \in Machine, LocalTurn(m)
    PROVE  Typed' /\ TracesGrow
<1>1. PICK h, a, applied : h = Unmatched(Hashed(m)) /\ LocalEffect(m, h, a, applied)
  BY LocalTurnEffect
<1>2. UNCHANGED <<partner, pad>>
  BY LocalTurnEffect
<1>3. LinkTyped(h)
  BY <1>1, HashedKeeps
<1>4. PICK o \in Machine : o = Other(m)
  BY Pairs
<1>5. /\ m \in Console /\ pad[m] \in Pads /\ Frame(m, m) \in Nat
      /\ net[o] \in Seq(Messages) /\ trace[m] \in Seq(Entries)
  BY <1>4, Pairs, TypedParts
<1>6. LinkTyped(a) /\ applied \in Seq(Entries) /\ net' \in [Machine -> Seq(Messages)]
  <2>1. CASE ~Prepares(m, h) /\ a = h /\ applied = <<>> /\ net' = net
    BY <1>3, <2>1 DEF Typed
  <2>2. CASE /\ a = AfterSending(h, pad[m], Frame(m, m))
             /\ applied = IF Scheduled(h, Frame(m, m)) # <<>>
                          THEN Applied(m, Scheduled(h, Frame(m, m))) ELSE <<>>
             /\ net' = [net EXCEPT ![Other(m)] = Append(@, FrameMessage(h, pad[m]))]
    <3>1. LinkTyped(a)
      BY <1>3, <1>5, <2>2, SendingTypes
    <3>2. Scheduled(h, Frame(m, m)) \in Seq(Event)
      BY <1>3, <1>5, ScheduledTypes
    <3>3. Applied(m, Scheduled(h, Frame(m, m))) \in Seq(Entries)
      BY <1>5, <3>2, EntryTypes
    <3>4. applied \in Seq(Entries)
      BY <2>2, <3>3
    <3>5. PICK msg \in Messages : msg = FrameMessage(h, pad[m])
      BY <1>3, <1>5, SendingTypes DEF Messages
    <3>6. PICK box : box = Append(net[o], msg)
      OBVIOUS
    <3>7. box \in Seq(Messages)
      BY <1>5, <3>5, <3>6
    <3>8. net' = [net EXCEPT ![o] = box]
      BY <1>4, <2>2, <3>5, <3>6 DEF Typed
    <3>9. QED
      BY <3>1, <3>4, <3>7, <3>8 DEF Typed
  <2>3. QED
    BY <1>1, <2>1, <2>2, Zenon DEF LocalEffect
<1>7. CASE /\ Step(m, m, applied)
           /\ link' = [link EXCEPT ![m] =
                [WithDue(a, m, time'[m][m]) EXCEPT !.prepared = @ /\ ~CompletesFrame(m, m)]]
  <2>1. /\ time' \in [Machine -> [Console -> Nat]] /\ trace' \in [Machine -> Seq(Entries)]
        /\ time'[m][m] \in Nat /\ TracesGrow
    BY <1>5, <1>6, <1>7, StepTypes
  <2>2. PICK t \in Nat : t = time'[m][m]
    BY <2>1
  <2>3. LinkTyped(WithDue(a, m, t))
    BY <1>5, <1>6, WithDueKeeps
  <2>4. PICK d : d = WithDue(a, m, t)
    OBVIOUS
  <2>5. PICK going : going = (d.prepared /\ ~CompletesFrame(m, m))
    OBVIOUS
  <2>6. PICK l : l = [d EXCEPT !.prepared = going]
    OBVIOUS
  <2>7. LinkTyped(l)
    <3>1. going \in BOOLEAN
      BY <2>5
    <3>2. QED
      BY <2>3, <2>4, <2>6, <3>1 DEF LinkTyped, LinkFields
  <2>8. link' = [link EXCEPT ![m] = l]
    BY <1>7, <2>2, <2>4, <2>5, <2>6, Zenon
  <2>9. DOMAIN link' = Machine /\ \A j \in Machine : LinkTyped(link'[j])
    BY <2>7, <2>8, LinkPut
  <2>10. QED
    BY <1>2, <1>6, <2>1, <2>9 DEF Typed
<1>8. CASE /\ trace' = [trace EXCEPT ![m] = @ \o applied]
           /\ link' = [link EXCEPT ![m] = a]
           /\ time' = time
  <2>1. DOMAIN link' = Machine /\ \A j \in Machine : LinkTyped(link'[j])
    BY <1>6, <1>8, LinkPut
  <2>2. PICK grown : grown = trace[m] \o applied
    OBVIOUS
  <2>3. grown \in Seq(Entries)
    BY <1>5, <1>6, <2>2
  <2>4. trace' = [trace EXCEPT ![m] = grown]
    BY <1>8, <2>2 DEF Typed
  <2>5. trace' \in [Machine -> Seq(Entries)]
    BY <2>3, <2>4 DEF Typed
  <2>6. TracesGrow
    BY <1>6, <2>2, <2>3, <2>4, Grown
  <2>7. QED
    BY <1>2, <1>6, <1>8, <2>1, <2>5, <2>6 DEF Typed
<1>9. QED
  BY <1>1, <1>7, <1>8 DEF LocalEffect

LEMMA PartnerTurnTypes ==
    ASSUME Typed, NEW m \in Machine, PartnerContinues(m) \/ PartnerBegins(m)
    PROVE  Typed' /\ TracesGrow
<1>1. PICK k \in Machine : k = Other(m) /\ k \in Console
  BY Pairs
<1>2. LinkTyped(Unmatched(Hashed(m)))
  BY HashedKeeps
<1>3. ASSUME NEW a, LinkTyped(a), NEW applied \in Seq(Entries), Step(m, k, applied),
             link' = [link EXCEPT ![m] = WithDue(a, k, time'[m][k])]
      PROVE  /\ DOMAIN link' = Machine /\ \A j \in Machine : LinkTyped(link'[j])
             /\ time' \in [Machine -> [Console -> Nat]] /\ trace' \in [Machine -> Seq(Entries)]
             /\ TracesGrow
  <2>1. /\ time' \in [Machine -> [Console -> Nat]] /\ trace' \in [Machine -> Seq(Entries)]
        /\ time'[m][k] \in Nat /\ TracesGrow
    BY <1>1, <1>3, StepTypes
  <2>2. PICK t \in Nat : t = time'[m][k]
    BY <2>1
  <2>3. PICK d : d = WithDue(a, k, t)
    OBVIOUS
  <2>4. LinkTyped(d)
    BY <1>1, <1>3, <2>3, WithDueKeeps
  <2>5. link' = [link EXCEPT ![m] = d]
    BY <1>3, <2>2, <2>3
  <2>6. QED
    BY <2>1, <2>4, <2>5, LinkPut
<1>4. CASE PartnerContinues(m)
  <2>1. <<>> \in Seq(Entries)
    OBVIOUS
  <2>2. /\ Step(m, k, <<>>)
        /\ link' = [link EXCEPT ![m] = WithDue(Unmatched(Hashed(m)), k, time'[m][k])]
        /\ UNCHANGED <<partner, pad, net>>
    BY <1>1, <1>4 DEF PartnerContinues
  <2>3. /\ DOMAIN link' = Machine /\ \A j \in Machine : LinkTyped(link'[j])
        /\ time' \in [Machine -> [Console -> Nat]] /\ trace' \in [Machine -> Seq(Entries)]
        /\ TracesGrow
    BY <1>2, <1>3, <2>1, <2>2
  <2>4. QED
    BY <2>2, <2>3 DEF Typed
<1>5. CASE PartnerBegins(m)
  <2>1. PICK events, hashes, l, a, p :
          BeginsWith(m, events, hashes) /\ BeginsEffect(m, events, hashes, l, a, p)
    BY <1>5, PartnerBeginsEffect
  <2>2. UNCHANGED pad /\ Frame(m, k) \in Nat
    BY <1>1, <1>5, PartnerBeginsEffect, TypedParts
  <2>3. events \in Seq(Event)
    <3>1. <<HeldInput>> \in Seq(Event)
      BY DEF Event, Pads
    <3>2. ASSUME Frame(m, k) \in DOMAIN partner[m].frames
          PROVE  partner[m].frames[Frame(m, k)].events \in Seq(Event)
      BY <3>2, TypedParts DEF PartnerTyped, FrameMessages
    <3>3. QED
      BY <1>1, <2>1, <3>1, <3>2 DEF BeginsWith
  <2>4. Applied(k, events) \in Seq(Entries)
    BY <1>1, <2>3, EntryTypes
  <2>5. CASE /\ Fails(m, "mismatch")
             /\ trace' = [trace EXCEPT ![m] = @ \o Applied(k, events)]
             /\ time' = time
    <3>1. <<Plain("unlink")>> \in Seq(Messages)
      BY DEF Plain, Messages, Signs
    <3>2. /\ DOMAIN link' = Machine /\ \A j \in Machine : LinkTyped(link'[j])
          /\ DOMAIN partner' = Machine /\ \A j \in Machine : PartnerTyped(partner'[j])
          /\ net' \in [Machine -> Seq(Messages)]
      BY <2>5, <3>1, EndsTypes DEF Fails
    <3>3. PICK grown : grown = trace[m] \o Applied(k, events)
      OBVIOUS
    <3>4. grown \in Seq(Entries)
      BY <2>4, <3>3, TypedParts
    <3>5. trace' = [trace EXCEPT ![m] = grown]
      BY <2>5, <3>3 DEF Typed
    <3>6. trace' \in [Machine -> Seq(Entries)] /\ TracesGrow
      BY <2>4, <3>3, <3>4, <3>5, Grown DEF Typed
    <3>7. QED
      BY <2>2, <2>5, <3>2, <3>6 DEF Typed
  <2>6. CASE /\ Step(m, k, Applied(k, events))
             /\ l = WithReceived(Unmatched(Hashed(m)), hashes)
             /\ a \in {l, Unmatched(l)}
             /\ link' = [link EXCEPT ![m] = WithDue(a, k, time'[m][k])]
             /\ p \in {partner[m], Taken(partner[m], Frame(m, k))}
             /\ partner' = [partner EXCEPT ![m] = p]
             /\ net' = net
    <3>1. LinkTyped(l)
      BY <1>2, <2>6, WithReceivedKeeps
    <3>2. LinkTyped(a)
      BY <2>6, <3>1, UnmatchedKeeps
    <3>3. /\ DOMAIN link' = Machine /\ \A j \in Machine : LinkTyped(link'[j])
          /\ time' \in [Machine -> [Console -> Nat]] /\ trace' \in [Machine -> Seq(Entries)]
          /\ TracesGrow
      BY <1>3, <2>4, <2>6, <3>2
    <3>4. PartnerTyped(p)
      BY <2>2, <2>6, TakenTypes, TypedParts
    <3>5. DOMAIN partner' = Machine /\ \A j \in Machine : PartnerTyped(partner'[j])
      BY <2>6, <3>4, PartnerPut
    <3>6. QED
      BY <2>2, <2>6, <3>3, <3>5 DEF Typed
  <2>7. QED
    BY <1>1, <2>1, <2>5, <2>6 DEF BeginsEffect
<1>6. QED
  BY <1>4, <1>5

\* How the link ends, otherwise than in a mismatch.
EndsAnyhow(m) ==
    \/ PartnerEnded(m) \/ StallTimesOut(m) \/ HearLeft(m) \/ Unplug(m) \/ Leave(m)
    \/ Deliver(m) /\ link[m].phase # "ended" /\ Head(net[m]).kind = "unlink"

LEMMA EndsAnyhowEffect ==
    ASSUME NEW m \in Machine, EndsAnyhow(m)
    PROVE  /\ UNCHANGED <<time, trace, pad>>
           /\ \E failure : \E told \in Seq(Signs) : Ends(m, failure, told)
<1>1. /\ <<>> \in Seq(Signs) /\ <<Plain("unlink")>> \in Seq(Signs)
      /\ <<Plain("left")>> \in Seq(Signs)
  BY DEF Plain, Signs
<1>2. CASE PartnerEnded(m) \/ StallTimesOut(m) \/ Unplug(m)
  <2>1. UNCHANGED <<time, trace, pad>> /\ \E failure : Ends(m, failure, <<Plain("unlink")>>)
    BY <1>2, Zenon DEF PartnerEnded, StallTimesOut, Unplug, Fails
  <2>2. QED
    BY <1>1, <2>1
<1>3. CASE HearLeft(m)
  <2>1. UNCHANGED <<time, trace, pad>> /\ Ends(m, "none", <<>>)
    BY <1>3, Zenon DEF HearLeft
  <2>2. QED
    BY <1>1, <2>1
<1>4. CASE Leave(m)
  <2>1. UNCHANGED <<time, trace, pad>> /\ Ends(m, "none", <<Plain("left")>>)
    BY <1>4, Zenon DEF Leave
  <2>2. QED
    BY <1>1, <2>1
<1>5. CASE Deliver(m) /\ link[m].phase # "ended" /\ Head(net[m]).kind = "unlink"
  <2>1. UNCHANGED <<time, trace, pad>> /\ Ends(m, "none", <<>>)
    BY <1>5 DEF Deliver
  <2>2. QED
    BY <1>1, <2>1
<1>6. QED
  BY <1>2, <1>3, <1>4, <1>5 DEF EndsAnyhow

LEMMA EndsAnyhowTypes ==
    ASSUME Typed, NEW m \in Machine, EndsAnyhow(m)
    PROVE  Typed'
<1>1. PICK failure, told : told \in Seq(Signs) /\ Ends(m, failure, told)
  BY EndsAnyhowEffect
<1>2. told \in Seq(Messages)
  BY <1>1 DEF Messages
<1>3. UNCHANGED <<time, trace, pad>>
  BY EndsAnyhowEffect
<1>4. QED
  BY <1>1, <1>2, <1>3, EndsTypes DEF Typed

\* A message that does not end the link.
Arrives(m) == Deliver(m) /\ ~(link[m].phase # "ended" /\ Head(net[m]).kind = "unlink")

LEMMA ArrivesEffect ==
    ASSUME Typed, NEW m \in Machine, Arrives(m)
    PROVE  /\ net[m] # <<>> /\ UNCHANGED <<link, time, trace, pad>>
           /\ net' = [net EXCEPT ![m] = Tail(net[m])]
           /\ \/ partner' = partner
              \/ partner' = [partner EXCEPT ![m].ended = TRUE]
              \/ /\ Head(net[m]).kind = "frame"
                 /\ partner' = [partner EXCEPT ![m] = Pushed(partner[m], Head(net[m]))]
<1>1. Head(net[m]) \in Messages
  BY TypedParts DEF Arrives, Deliver
<1>2. Head(net[m]).kind \in {"frame", "left", "unlink"}
  BY <1>1 DEF Messages, FrameMessages, Signs
<1>3. Typed /\ net' = [net EXCEPT ![m] = Tail(@)] => net' = [net EXCEPT ![m] = Tail(net[m])]
  BY DEF Typed
<1>4. QED
  BY <1>2, <1>3 DEF Arrives, Deliver

LEMMA ArrivesTypes ==
    ASSUME Typed, NEW m \in Machine, Arrives(m)
    PROVE  Typed'
<1>1. PartnerTyped(partner[m]) /\ net[m] \in Seq(Messages) /\ net[m] # <<>>
  BY TypedParts, ArrivesEffect
<1>2. ASSUME partner' = [partner EXCEPT ![m].ended = TRUE]
      PROVE  DOMAIN partner' = Machine /\ \A j \in Machine : PartnerTyped(partner'[j])
  <2>1. PICK p : p = [partner[m] EXCEPT !.ended = TRUE]
    OBVIOUS
  <2>2. PartnerTyped(p)
    BY <1>1, <2>1 DEF PartnerTyped
  <2>3. partner' = [partner EXCEPT ![m] = p]
    BY <1>2, <2>1 DEF Typed
  <2>4. QED
    BY <2>2, <2>3, PartnerPut
<1>3. ASSUME /\ Head(net[m]).kind = "frame"
             /\ partner' = [partner EXCEPT ![m] = Pushed(partner[m], Head(net[m]))]
      PROVE  DOMAIN partner' = Machine /\ \A j \in Machine : PartnerTyped(partner'[j])
  <2>1. Head(net[m]) \in FrameMessages
    BY <1>1, <1>3 DEF Messages, Signs
  <2>2. PartnerTyped(Pushed(partner[m], Head(net[m])))
    BY <1>1, <2>1, PushedTypes
  <2>3. QED
    BY <1>3, <2>2, PartnerPut
<1>4. DOMAIN partner' = Machine /\ \A j \in Machine : PartnerTyped(partner'[j])
  <2>1. ASSUME partner' = partner
        PROVE  DOMAIN partner' = Machine /\ \A j \in Machine : PartnerTyped(partner'[j])
    BY <2>1 DEF Typed
  <2>2. QED
    BY <1>2, <1>3, <2>1, ArrivesEffect
<1>5. net' \in [Machine -> Seq(Messages)]
  <2>1. Tail(net[m]) \in Seq(Messages)
    BY <1>1
  <2>2. QED
    BY <2>1, ArrivesEffect DEF Typed
<1>6. QED
  BY <1>4, <1>5, ArrivesEffect DEF Typed

\* What happens to nobody's plan.
Idles(m) == PlugIn(m) \/ Stall(m) \/ Press(m) \/ Pause(m) \/ Resume(m)

LEMMA IdlesEffect ==
    ASSUME Typed, NEW m \in Machine, Idles(m)
    PROVE  /\ UNCHANGED <<partner, time, trace, net>>
           /\ pad' \in [Machine -> Pads]
           /\ DOMAIN link' = Machine
           /\ \A j \in Machine :
                 /\ LinkTyped(link'[j])
                 /\ link'[j].phase # "ended" <=> link[j].phase # "ended"
                 /\ link'[j].queue = link[j].queue /\ link'[j].nextSend = link[j].nextSend
                 /\ link'[j].prepared = link[j].prepared
<1>1. /\ pad \in [Machine -> Pads] /\ DOMAIN link = Machine
      /\ \A j \in Machine : LinkTyped(link[j])
  BY DEF Typed
<1>2. ASSUME PlugIn(m) \/ Stall(m)
      PROVE  \E l : /\ link' = [link EXCEPT ![m] = l] /\ LinkTyped(l)
                    /\ l.phase # "ended" <=> link[m].phase # "ended"
                    /\ l.queue = link[m].queue /\ l.nextSend = link[m].nextSend
                    /\ l.prepared = link[m].prepared
  <2>1. CASE PlugIn(m)
    <3>1. PICK l : l = [link[m] EXCEPT !.phase = "running"]
      OBVIOUS
    <3>2. link[m].phase = "starting" /\ l.phase = "running"
      BY <1>1, <2>1, <3>1 DEF PlugIn, LinkTyped, LinkFields
    <3>3. link' = [link EXCEPT ![m] = l]
      BY <1>1, <2>1, <3>1 DEF PlugIn
    <3>4. /\ LinkTyped(l)
          /\ l.queue = link[m].queue /\ l.nextSend = link[m].nextSend
          /\ l.prepared = link[m].prepared
      BY <1>1, <3>1 DEF LinkTyped, LinkFields
    <3>5. QED
      BY <3>2, <3>3, <3>4
  <2>2. CASE Stall(m)
    <3>1. PICK l : l = Unmatched(Hashed(m))
      OBVIOUS
    <3>2. LinkTyped(l) /\ SamePlan(l, link[m]) /\ link' = [link EXCEPT ![m] = l]
      BY <2>2, <3>1, HashedKeeps DEF Stall
    <3>3. QED
      BY <3>2 DEF SamePlan
  <2>3. QED
    BY <1>2, <2>1, <2>2
<1>3. CASE PlugIn(m) \/ Stall(m)
  <2>1. UNCHANGED <<partner, time, trace, net, pad>>
    BY <1>3 DEF PlugIn, Stall
  <2>2. QED
    BY <1>1, <1>2, <1>3, <2>1
<1>4. CASE Press(m) \/ Pause(m) \/ Resume(m)
  <2>1. link' = link /\ UNCHANGED <<partner, time, trace, net>>
    BY <1>4 DEF Press, Pause, Resume
  <2>2. pad' \in [Machine -> Pads]
    BY <1>1, <1>4 DEF Press, Pause, Resume
  <2>3. QED
    BY <1>1, <2>1, <2>2
<1>5. QED
  BY <1>3, <1>4 DEF Idles

LEMMA IdlesTypes ==
    ASSUME Typed, NEW m \in Machine, Idles(m)
    PROVE  Typed'
  BY IdlesEffect DEF Typed

LEMMA WriteOrResetEffect ==
    ASSUME Typed, NEW m \in Machine, WriteOrReset(m)
    PROVE  /\ UNCHANGED <<partner, time, trace, pad, net>>
           /\ link[m].phase # "ended"
           /\ \E event \in {"write", "reset"} :
                 link' = [link EXCEPT ![m] = Schedule(link[m], event)]
<1>1. PICK event \in {"write", "reset"} :
          /\ link[m].phase \in (IF event = "write" THEN {"starting", "running"} ELSE {"running"})
          /\ link' = [link EXCEPT ![m] = Schedule(@, event)]
  BY DEF WriteOrReset
<1>2. link' = [link EXCEPT ![m] = Schedule(link[m], event)]
  BY <1>1 DEF Typed
<1>3. link[m].phase # "ended"
  BY <1>1
<1>4. QED
  BY <1>2, <1>3 DEF WriteOrReset

LEMMA WriteOrResetTypes ==
    ASSUME Typed, NEW m \in Machine, WriteOrReset(m)
    PROVE  Typed'
<1>1. PICK event \in {"write", "reset"} :
          link' = [link EXCEPT ![m] = Schedule(link[m], event)]
  BY WriteOrResetEffect
<1>2. PICK l : l = Schedule(link[m], event)
  OBVIOUS
<1>3. LinkTyped(l)
  BY <1>2, ScheduleTypes, TypedParts
<1>4. DOMAIN link' = Machine /\ \A j \in Machine : LinkTyped(link'[j])
  BY <1>1, <1>2, <1>3, LinkPut
<1>5. QED
  BY <1>4, WriteOrResetEffect DEF Typed

LEMMA StrayTypes ==
    ASSUME Typed, NEW m \in Machine, Stray(m)
    PROVE  Typed' /\ Strayed'
<1>1. PICK entry : entry = [stray |-> Frame(m, "first"), on |-> m]
  OBVIOUS
<1>2. entry \in Entries /\ "stray" \in DOMAIN entry
  BY <1>1, TypedParts DEF Entries, StrayEntry, Console
<1>3. PICK grown : grown = Append(trace[m], entry)
  OBVIOUS
<1>4. /\ trace[m] \in Seq(Entries) /\ grown \in Seq(Entries)
      /\ Len(grown) = Len(trace[m]) + 1 /\ grown[Len(grown)] = entry
      /\ Len(grown) \in DOMAIN grown
  BY <1>2, <1>3, TypedParts
<1>5. trace' = [trace EXCEPT ![m] = grown] /\ UNCHANGED <<link, partner, time, pad, net>>
  BY <1>1, <1>3 DEF Stray, Typed
<1>6. trace' \in [Machine -> Seq(Entries)] /\ trace'[m] = grown
  BY <1>4, <1>5 DEF Typed
<1>7. Strayed'
  BY <1>2, <1>4, <1>6 DEF Strayed, Strays
<1>8. QED
  BY <1>5, <1>6, <1>7 DEF Typed

LEMMA NextTypes ==
    ASSUME Typed, [Next]_vars
    PROVE  Typed'
<1>1. CASE UNCHANGED vars
  BY <1>1 DEF vars, Typed
<1>2. ASSUME NEW m \in Machine,
             ThreadStep(m) \/ Stall(m) \/ Deliver(m) \/ HearLeft(m) \/ Unplug(m) \/ Leave(m)
             \/ Press(m) \/ WriteOrReset(m) \/ Pause(m) \/ Resume(m) \/ Stray(m)
      PROVE  Typed'
  <2>1. \/ LocalTurn(m) \/ PartnerContinues(m) \/ PartnerBegins(m)
        \/ EndsAnyhow(m) \/ Arrives(m) \/ Idles(m) \/ WriteOrReset(m) \/ Stray(m)
    BY <1>2, Zenon DEF ThreadStep, EndsAnyhow, Arrives, Idles
  <2>2. QED
    BY <2>1, LocalTurnTypes, PartnerTurnTypes, EndsAnyhowTypes, ArrivesTypes, IdlesTypes,
       WriteOrResetTypes, StrayTypes
<1>3. QED
  BY <1>1, <1>2 DEF Next

LEMMA InitTypes ==
    ASSUME Init
    PROVE  Typed
<1>1. \A m \in Machine : LinkTyped(link[m]) /\ PartnerTyped(partner[m])
  BY LinkInTyped DEF Init
<1>2. QED
  BY <1>1 DEF Init, Typed, Pads

-----------------------------------------------------------------------------
(* On the walk.                                                            *)

LEMMA HereIs ==
    ASSUME Typed, NEW m \in Machine, NEW walk \in Walks, NEW p, p = Here(m, walk),
           p.time = time[m]
    PROVE  /\ p \in Place /\ Turn(p) = NextConsole(m)
           /\ \A k \in Console : Frame(m, k) = p.time[k] \div FrameTicks[k]
           /\ \A k \in Console : MidFrame(m, k) <=> p.time[k] % FrameTicks[k] # 0
           /\ FrameAt(p) = Frame(m, Turn(p))
           /\ Begins(p) <=> ~MidFrame(m, Turn(p)) /\ ~p.begun
<1>1. p \in Place
  BY TypedParts DEF Here, Walks
<1>2. QED
  BY <1>1 DEF Turn, NextConsole, Frame, MidFrame, FrameAt, Begins

LEMMA WalkTypes ==
    ASSUME NEW walk \in Walks, NEW s \in Seq(Entries)
    PROVE  walk[Len(s)] \in Place
  BY DEF Walks

\* More is sent, or a link ends.
LEMMA SentMore ==
    ASSUME NEW script, NEW walk \in Walks, NEW s \in Seq(Entries), NEW times,
           NEW links, NEW more, On(s, times, links, script, walk),
           \A k \in Console :
              /\ links[k].nextSend \in Nat /\ more[k].nextSend \in Nat
              /\ more[k].phase # "ended" =>
                    links[k].phase # "ended" /\ links[k].nextSend <= more[k].nextSend
    PROVE  On(s, times, more, script, walk)
<1> SUFFICES ASSUME NEW k \in Console, more[k].phase # "ended"
             PROVE  Begun(s, walk, k, more[k].nextSend)
  BY DEF On
<1>1. Begun(s, walk, k, links[k].nextSend)
  BY DEF On
<1>2. ASSUME NEW i \in 1..Len(s), Begins(walk[i - 1]), Turn(walk[i - 1]) = k
      PROVE  FrameAt(walk[i - 1]) < more[k].nextSend
  <2>1. walk[i - 1] \in Place
    BY DEF Walks
  <2>2. FrameAt(walk[i - 1]) \in Nat
    BY <2>1, PlaceTypes
  <2>3. FrameAt(walk[i - 1]) < links[k].nextSend
    BY <1>1, <1>2 DEF Begun
  <2>4. QED
    BY <2>2, <2>3
<1>3. QED
  BY <1>2 DEF Begun

\* A frame is settled as it is sent.
LEMMA SettledOn ==
    ASSUME NEW script \in Script, NEW walk \in Walks, NEW s \in Seq(Entries), NEW times,
           NEW links, NEW k \in Console, On(s, times, links, script, walk),
           links[k].phase # "ended", NEW n \in Nat, links[k].nextSend = n,
           NEW events \in Seq(Event) \ {<<>>}
    PROVE  On(s, times, links, Settled(script, k, n, events), walk)
<1>1. Begun(s, walk, k, n) /\ Follows(s, script, walk)
  BY DEF On
<1>2. Follows(s, Settled(script, k, n, events), walk)
  BY <1>1, Settles
<1>3. QED
  BY <1>2 DEF On

\* A frame begun at p was sent.
MayBegin(p, links) ==
    Begins(p) /\ links[Turn(p)].phase # "ended" => FrameAt(p) < links[Turn(p)].nextSend

\* The walk goes on beyond s, as far as t got as ever.
Onward(s, t, there, links, script, p, walk, on) ==
    /\ On(Append(s, Entry(script, p)), After(p).time, links, script, on)
    /\ On(t, there, links, script, on)
    /\ on[Len(s) + 1] = After(p) /\ on[Len(t)] = walk[Len(t)]

\* One more thing happens on the machine of trace s; the other's is t.
LEMMA OneMore ==
    ASSUME NEW script \in Script, NEW walk \in Walks, NEW links,
           NEW s \in Seq(Entries), NEW t \in Seq(Entries), NEW here, NEW there,
           On(s, here, links, script, walk), On(t, there, links, script, walk),
           NEW p \in Place, walk[Len(s)] = p, MayBegin(p, links)
    PROVE  \E on \in Walks : Onward(s, t, there, links, script, p, walk, on)
<1>1. PICK on \in Walks :
             /\ Follows(Append(s, Entry(script, p)), script, on)
             /\ Follows(t, script, on)
             /\ on[Len(s) + 1] = After(p)
             /\ \A i \in 0..Len(s) : on[i] = walk[i]
             /\ \A i \in 0..Len(t) : on[i] = walk[i]
  BY Grows DEF On
<1>2. PICK grown : grown = Append(s, Entry(script, p))
  OBVIOUS
<1>3. Entry(script, p) \in Entries
  BY PlaceTypes, WalkTypes DEF Entries
<1>4. Len(grown) = Len(s) + 1 /\ Len(s) \in Nat /\ Len(t) \in Nat
  BY <1>2, <1>3
<1>5. ASSUME NEW k \in Console, links[k].phase # "ended"
      PROVE  Begun(grown, on, k, links[k].nextSend) /\ Begun(t, on, k, links[k].nextSend)
  <2>1. Begun(s, walk, k, links[k].nextSend) /\ Begun(t, walk, k, links[k].nextSend)
    BY <1>5 DEF On
  <2>2. Begun(t, on, k, links[k].nextSend)
    <3>1. \A i \in 1..Len(t) : on[i - 1] = walk[i - 1]
      BY <1>1, <1>4
    <3>2. QED
      BY <2>1, <3>1 DEF Begun
  <2>3. \A i \in 1..(Len(s) + 1) : on[i - 1] = walk[i - 1]
    BY <1>1, <1>4
  <2>4. ASSUME NEW i \in 1..(Len(s) + 1), Begins(walk[i - 1]), Turn(walk[i - 1]) = k
        PROVE  FrameAt(walk[i - 1]) < links[k].nextSend
    <3>1. CASE i \in 1..Len(s)
      BY <2>1, <2>4, <3>1 DEF Begun
    <3>2. CASE i - 1 = Len(s)
      BY <1>5, <2>4, <3>2 DEF MayBegin
    <3>3. QED
      BY <1>4, <3>1, <3>2
  <2>5. Begun(grown, on, k, links[k].nextSend)
    BY <1>4, <2>3, <2>4 DEF Begun
  <2>6. QED
    BY <2>2, <2>5
<1>6. on[Len(t)] = walk[Len(t)]
  BY <1>1, <1>4
<1>7. On(grown, After(p).time, links, script, on)
  BY <1>1, <1>2, <1>4, <1>5 DEF On
<1>8. On(t, there, links, script, on)
  BY <1>1, <1>5, <1>6 DEF On
<1>9. QED
  BY <1>1, <1>2, <1>6, <1>7, <1>8 DEF Onward

-----------------------------------------------------------------------------
(* Being ready.                                                            *)

LEMMA RanTypes ==
    ASSUME NEW m \in Machine, NEW l, LinkTyped(l), NEW p \in Place
    PROVE  /\ p.time[m] \in Nat /\ p.time[m] \div FrameTicks[m] \in Nat
           /\ p.time[m] % FrameTicks[m] \in Nat /\ FrameTicks[m] \in Nat \ {0}
           /\ Ran(m, l, p) \in Nat
<1>1. FrameTicks[m] \in Nat \ {0} /\ p.time[m] \in Nat
  BY TicksAssumption, Pairs DEF Place
<1>2. p.time[m] \div FrameTicks[m] \in Nat /\ p.time[m] % FrameTicks[m] \in Nat
  <2>1. PICK n \in Nat \ {0} : n = FrameTicks[m]
    BY <1>1
  <2>2. PICK t \in Nat : t = p.time[m]
    BY <1>1
  <2>3. t \div n \in Nat /\ t % n \in 0..(n - 1)
    BY Ticks
  <2>4. QED
    BY <2>1, <2>2, <2>3
<1>3. QED
  BY <1>1, <1>2 DEF Ran

LEMMA ReadySame ==
    ASSUME NEW m \in Machine, NEW l, NEW new, NEW p, NEW script,
           new.queue = l.queue, new.nextSend = l.nextSend, new.prepared = l.prepared,
           Ready(m, l, p, script)
    PROVE  Ready(m, new, p, script)
  BY DEF Ready, Ran

\* A write or a reset joins a frame that was not sent yet.
LEMMA ReadyScheduled ==
    ASSUME NEW m \in Machine, NEW l, LinkTyped(l), NEW event \in {"write", "reset"},
           NEW p \in Place, NEW script, Ready(m, l, p, script)
    PROVE  Ready(m, Schedule(l, event), p, script)
<1>1. PICK new : new = Schedule(l, event)
  OBVIOUS
<1>2. /\ new.nextSend = l.nextSend /\ new.prepared = l.prepared
      /\ DOMAIN new.queue = DOMAIN l.queue \union {l.nextSend}
      /\ \A f \in DOMAIN l.queue : f # l.nextSend => new.queue[f] = l.queue[f]
  BY <1>1, ScheduleTypes
<1>3. Ran(m, new, p) = Ran(m, l, p)
  BY <1>2 DEF Ran
<1>4. l.nextSend \in Nat /\ DOMAIN l.queue \subseteq Nat
  BY DEF LinkTyped
<1>5. \A f \in DOMAIN new.queue : f < new.nextSend => new.queue[f] = script[m][f]
  BY <1>2, <1>4 DEF Ready
<1>6. Ready(m, new, p, script)
  BY <1>2, <1>3, <1>5 DEF Ready
<1>7. QED
  BY <1>1, <1>6

\* The partner's console is the one to go on.
LEMMA ReadyMeanwhile ==
    ASSUME NEW m \in Machine, NEW l, LinkTyped(l), NEW p \in Place, NEW script,
           Ready(m, l, p, script), Turn(p) = Other(m), NEW n \in Place,
           n.time[m] = p.time[m], ~n.begun
    PROVE  Ready(m, l, n, script)
<1>1. Turn(p) # m
  BY Pairs
<1>2. Ran(m, l, n) = Ran(m, l, p)
  BY DEF Ran
<1>3. QED
  BY <1>1, <1>2 DEF Ready

\* The frame that is next is prepared: its events are what the script says, and those
\* of a later frame are settled.
LEMMA ReadyPrepares ==
    ASSUME NEW m \in Machine, NEW l, LinkTyped(l), NEW p \in Place, NEW script \in Script,
           Ready(m, l, p, script), Turn(p) = m,
           p.time[m] % FrameTicks[m] = 0, ~l.prepared, NEW input \in Pads,
           NEW new, new = Settled(script, m, l.nextSend, Outgoing(l, input))
    PROVE  /\ Begins(p) /\ FrameAt(p) < l.nextSend /\ l.nextSend >= Delay
           /\ Scheduled(l, FrameAt(p)) = new[m][FrameAt(p)]
           /\ Scheduled(l, FrameAt(p)) # <<>>
           /\ Ready(m, AfterSending(l, input, FrameAt(p)), After(p), new)
<1>0. PICK a : a = AfterSending(l, input, FrameAt(p))
  OBVIOUS
<1>1. /\ p.time[m] \in Nat /\ FrameAt(p) \in Nat
      /\ FrameAt(p) = p.time[m] \div FrameTicks[m] /\ Ran(m, l, p) = FrameAt(p)
  BY RanTypes DEF FrameAt, Ran
<1>2. Begins(p)
  BY DEF Begins, Ready
<1>3. l.nextSend = FrameAt(p) + Delay /\ l.nextSend \in Nat
  BY <1>1 DEF Ready, LinkTyped
<1>4. FrameAt(p) < l.nextSend /\ l.nextSend >= Delay
  BY <1>1, <1>3, DelayAssumption
<1>5. FrameAt(p) \in DOMAIN l.queue /\ l.queue[FrameAt(p)] = script[m][FrameAt(p)]
  BY <1>1, <1>3, <1>4 DEF Ready
<1>6. Outgoing(l, input) \in Seq(Event) \ {<<>>} /\ m \in Console
  BY <1>1, SendingTypes, Pairs
<1>7. /\ new \in Script /\ new[m][l.nextSend] = Outgoing(l, input)
      /\ \A f \in Nat : f # l.nextSend => new[m][f] = script[m][f]
  <2>1. PICK n \in Nat : n = l.nextSend /\ n >= Delay
    BY <1>3, <1>4
  <2>2. PICK out \in Seq(Event) \ {<<>>} : out = Outgoing(l, input)
    BY <1>6
  <2>3. new = Settled(script, m, n, out)
    BY <2>1, <2>2
  <2>4. QED
    BY <1>6, <2>1, <2>2, <2>3, SettledScript
<1>8. Scheduled(l, FrameAt(p)) = new[m][FrameAt(p)]
  BY <1>1, <1>4, <1>5, <1>7 DEF Scheduled
<1>9. Scheduled(l, FrameAt(p)) # <<>>
  <2>1. new[m][FrameAt(p)] \in Seq(Event) \ {<<>>}
    BY <1>1, <1>6, <1>7, SMTT(30) DEF Script
  <2>2. QED
    BY <1>8, <2>1
<1>10. /\ a.nextSend = l.nextSend + 1 /\ a.prepared = TRUE
       /\ DOMAIN a.queue = (DOMAIN l.queue \union {l.nextSend}) \ {FrameAt(p)}
       /\ a.queue[l.nextSend] = Outgoing(l, input)
       /\ \A f \in DOMAIN l.queue \ {FrameAt(p)} : f # l.nextSend => a.queue[f] = l.queue[f]
  <2>1. SentAndTaken(l, Outgoing(l, input), FrameAt(p), a)
    BY <1>0, <1>1, SendingTypes
  <2>2. QED
    BY <1>1, <1>3, <1>4, <2>1 DEF SentAndTaken
<1>11. After(p) = [time |-> p.time, begun |-> TRUE] /\ Turn(After(p)) = m
  BY <1>2 DEF After, Turn
<1>12. Ran(m, a, After(p)) = FrameAt(p) + 1
  BY <1>1, <1>10, <1>11 DEF Ran
<1>13. ASSUME NEW f \in (FrameAt(p) + 1)..l.nextSend
       PROVE  f \in DOMAIN a.queue
  <2>1. f = l.nextSend \/ f \in Ran(m, l, p)..(l.nextSend - 1)
    BY <1>1, <1>3
  <2>2. f # FrameAt(p)
    BY <1>1, <1>3
  <2>3. f = l.nextSend \/ f \in DOMAIN l.queue
    BY <2>1 DEF Ready
  <2>4. QED
    BY <1>10, <2>2, <2>3
<1>14. ASSUME NEW f \in DOMAIN a.queue, f < a.nextSend
       PROVE  a.queue[f] = new[m][f]
  <2>1. CASE f = l.nextSend
    BY <1>7, <1>10, <2>1
  <2>2. CASE f # l.nextSend
    <3>1. f \in DOMAIN l.queue \ {FrameAt(p)} /\ f \in Nat /\ f < l.nextSend
      BY <1>3, <1>10, <1>14, <2>2 DEF LinkTyped
    <3>2. a.queue[f] = l.queue[f] /\ l.queue[f] = script[m][f]
      BY <1>10, <2>2, <3>1 DEF Ready
    <3>3. QED
      BY <1>7, <2>2, <3>1, <3>2
  <2>3. QED
    BY <2>1, <2>2
<1>15. Ready(m, a, After(p), new)
  <2>1. a.nextSend = Ran(m, a, After(p)) + Delay
    BY <1>1, <1>3, <1>10, <1>12, DelayAssumption
  <2>2. \A f \in Ran(m, a, After(p))..(a.nextSend - 1) : f \in DOMAIN a.queue
    BY <1>3, <1>10, <1>12, <1>13
  <2>3. After(p).begun /\ After(p).time[m] % FrameTicks[m] = 0
    BY <1>11
  <2>4. \A f \in DOMAIN a.queue : f < a.nextSend => a.queue[f] = new[m][f]
    BY <1>14
  <2>5. QED
    BY <1>10, <1>11, <2>1, <2>2, <2>3, <2>4 DEF Ready
<1>16. QED
  BY <1>0, <1>2, <1>4, <1>8, <1>9, <1>15

\* Its own console steps, its frame prepared.
LEMMA ReadySteps ==
    ASSUME NEW m \in Machine, NEW l, LinkTyped(l), NEW p \in Place, NEW script,
           Ready(m, l, p, script), Turn(p) = m, ~Begins(p), NEW new,
           new.queue = l.queue, new.nextSend = l.nextSend,
           new.prepared = (l.prepared /\ (p.time[m] + 1) % FrameTicks[m] # 0)
    PROVE  Ready(m, new, After(p), script)
<1>1. /\ p.time[m] \in Nat /\ FrameTicks[m] \in Nat \ {0} /\ Ran(m, l, p) \in Nat
      /\ p.time \in [Console -> Nat] /\ m \in Console
  BY RanTypes, PlaceTypes, Pairs
<1>2. After(p).time[m] = p.time[m] + 1 /\ ~After(p).begun
  BY <1>1 DEF After
<1>3. l.prepared
  BY DEF Ready, Begins
<1>4. CASE (p.time[m] + 1) % FrameTicks[m] = 0
  <2>1. new.prepared = FALSE
    BY <1>4
  <2>2. (p.time[m] + 1) \div FrameTicks[m] = p.time[m] \div FrameTicks[m] + 1
    BY <1>1, <1>4, Ticks
  <2>3. Ran(m, new, After(p)) = Ran(m, l, p)
    BY <1>2, <1>3, <2>1, <2>2, RanTypes DEF Ran
  <2>4. QED
    BY <1>2, <1>4, <2>1, <2>3 DEF Ready
<1>5. CASE (p.time[m] + 1) % FrameTicks[m] # 0
  <2>1. new.prepared = TRUE
    BY <1>3, <1>5
  <2>2. (p.time[m] + 1) \div FrameTicks[m] = p.time[m] \div FrameTicks[m]
    BY <1>1, <1>5, Ticks
  <2>3. Ran(m, new, After(p)) = Ran(m, l, p)
    BY <1>2, <1>3, <2>1, <2>2 DEF Ran
  <2>4. QED
    BY <1>2, <1>5, <2>1, <2>3 DEF Ready
<1>6. QED
  BY <1>4, <1>5

-----------------------------------------------------------------------------
(* Every step keeps the agreement.                                         *)

\* The links go on: nobody takes back what was sent, and who has ended stays so.
LinksGoOn == \A k \in Machine :
    link'[k].phase # "ended" => link[k].phase # "ended" /\ link[k].nextSend <= link'[k].nextSend

LEMMA StillTruthful ==
    ASSUME Typed, Typed', LinksGoOn, NEW k \in Machine, NEW msg \in FrameMessages,
           NEW script, NEW new, new[k][msg.frame] = script[k][msg.frame],
           Truthful(msg, k, link[k], script)
    PROVE  Truthful(msg, k, link'[k], new)
<1>1. /\ msg.frame \in Nat /\ link[k].nextSend \in Nat
      /\ link'[k].phase # "ended" => link'[k].nextSend \in Nat
  BY DEF FrameMessages, Typed, LinkTyped
<1>2. QED
  BY <1>1 DEF Truthful, LinksGoOn

LEMMA FramesTyped ==
    ASSUME Typed, NEW m \in Machine
    PROVE  /\ \A f \in DOMAIN partner[m].frames : partner[m].frames[f] \in FrameMessages
           /\ \A i \in 1..Len(net[m]) :
                 net[m][i].kind = "frame" => net[m][i] \in FrameMessages
<1>1. PartnerTyped(partner[m]) /\ net[m] \in Seq(Messages)
  BY TypedParts
<1>2. QED
  BY <1>1 DEF PartnerTyped, Messages, Signs

LEMMA StillOn ==
    ASSUME Typed, Typed', LinksGoOn, NEW script \in Script, NEW walk \in Walks,
           NEW s \in Seq(Entries), NEW times, On(s, times, link, script, walk)
    PROVE  On(s, times, link', script, walk)
<1>1. \A k \in Console : link[k].nextSend \in Nat /\ link'[k].nextSend \in Nat
  BY DEF Typed, LinkTyped, Machine
<1>2. \A k \in Console :
        link'[k].phase # "ended" => link[k].phase # "ended" /\ link[k].nextSend <= link'[k].nextSend
  BY DEF LinksGoOn, Machine
<1>3. PICK more : more = link'
  OBVIOUS
<1>4. On(s, times, more, script, walk)
  BY <1>1, <1>2, <1>3, SentMore
<1>5. QED
  BY <1>3, <1>4

\* The end of a link.
LEMMA EndsTruth ==
    ASSUME Typed, Typed', NEW m \in Machine, NEW failure, NEW told \in Seq(Signs),
           Ends(m, failure, told), NEW script,
           \A j \in Machine : TruthArrives(j, script)
    PROVE  /\ LinksGoOn /\ link'[m].phase = "ended" /\ link'[Other(m)] = link[Other(m)]
           /\ \A j \in Machine : TruthArrives(j, script)'
<1>1. PICK o \in Machine : o = Other(m) /\ o # m /\ Other(o) = m /\ Machine = {m, o}
  BY Pairs DEF Machine, Console
<1>2. link'[m].phase = "ended" /\ link'[o] = link[o]
  BY <1>1 DEF Ends, Typed, LinkIn
<1>3. LinksGoOn
  BY <1>1, <1>2 DEF LinksGoOn, Typed, LinkTyped
<1>4. TruthArrives(m, script)'
  <2>1. partner'[m] = NoFrames /\ net'[m] = <<>>
    BY <1>1 DEF Ends, Typed
  <2>2. DOMAIN partner'[m].frames = {} /\ Len(net'[m]) = 0
    BY <2>1 DEF NoFrames
  <2>3. QED
    BY <2>2 DEF TruthArrives
<1>5. TruthArrives(o, script)'
  <2>1. partner'[o] = partner[o] /\ net'[o] = net[o] \o told
    BY <1>1 DEF Ends, Typed
  <2>2. \A msg : Truthful(msg, m, link[m], script) => Truthful(msg, m, link'[m], script)
    BY <1>2 DEF Truthful
  <2>3. ASSUME NEW f \in DOMAIN partner[o].frames
        PROVE  Truthful(partner[o].frames[f], m, link'[m], script)
    BY <1>1, <2>2 DEF TruthArrives
  <2>4. net[o] \in Seq(Messages)
    BY TypedParts
  <2>5. ASSUME NEW i \in 1..Len(net'[o]), net'[o][i].kind = "frame"
        PROVE  Truthful(net'[o][i], m, link'[m], script)
    <3>1. CASE i \in 1..Len(net[o])
      <4>1. net'[o][i] = net[o][i]
        BY <2>1, <2>4, <3>1
      <4>2. Truthful(net[o][i], m, link[m], script)
        BY <1>1, <2>5, <3>1, <4>1 DEF TruthArrives
      <4>3. QED
        BY <2>2, <4>1, <4>2
    <3>2. CASE i \notin 1..Len(net[o])
      <4>1. i - Len(net[o]) \in 1..Len(told) /\ net'[o][i] = told[i - Len(net[o])]
        BY <2>1, <2>4, <2>5, <3>2
      <4>2. net'[o][i] \in Signs
        BY <4>1
      <4>3. QED
        BY <2>5, <4>2 DEF Signs
    <3>3. QED
      BY <3>1, <3>2
  <2>6. QED
    BY <1>1, <2>1, <2>3, <2>5 DEF TruthArrives
<1>6. QED
  BY <1>1, <1>2, <1>3, <1>4, <1>5

\* Where neither trace changes, every machine stays where it is.
LEMMA NobodyMoves ==
    ASSUME Typed, Typed', LinksGoOn, UNCHANGED <<time, trace>>,
           NEW script \in Script, NEW walk \in Walks, Agreed(script, walk),
           \A j \in Machine : TruthArrives(j, script)',
           \A j \in Machine : link'[j].phase # "ended" =>
              Ready(j, link'[j], Here(j, walk), script)
    PROVE  Agreed(script, walk)'
<1>1. ASSUME NEW j \in Machine
      PROVE  On(trace[j], time[j], link', script, walk)
  BY StillOn, TypedParts DEF Agreed
<1>2. \A j \in Machine : On(trace'[j], time'[j], link', script, walk)
  BY <1>1
<1>3. \A j \in Machine : link'[j].phase # "ended" =>
          Ready(j, link'[j], Here(j, walk)', script)
  BY DEF Here
<1>4. QED
  BY <1>2, <1>3 DEF Agreed

LEMMA EndsAnyhowAgreed ==
    ASSUME Typed, Typed', NEW m \in Machine, EndsAnyhow(m),
           NEW script \in Script, NEW walk \in Walks, Agreed(script, walk)
    PROVE  Agreed(script, walk)'
<1>1. PICK failure, told : told \in Seq(Signs) /\ Ends(m, failure, told)
  BY EndsAnyhowEffect
<1>2. UNCHANGED <<time, trace>>
  BY EndsAnyhowEffect
<1>3. /\ LinksGoOn /\ link'[m].phase = "ended" /\ link'[Other(m)] = link[Other(m)]
      /\ \A j \in Machine : TruthArrives(j, script)'
  BY <1>1, EndsTruth DEF Agreed
<1>4. ASSUME NEW j \in Machine, link'[j].phase # "ended"
      PROVE  Ready(j, link'[j], Here(j, walk), script)
  <2>1. link'[j] = link[j]
    BY <1>3, <1>4, Pairs
  <2>2. QED
    BY <1>4, <2>1 DEF Agreed
<1>5. QED
  BY <1>2, <1>3, <1>4, NobodyMoves

LEMMA ArrivesAgreed ==
    ASSUME Typed, Typed', NEW m \in Machine, Arrives(m),
           NEW script \in Script, NEW walk \in Walks, Agreed(script, walk)
    PROVE  Agreed(script, walk)'
<1>1. /\ net[m] # <<>> /\ UNCHANGED <<link, time, trace>>
      /\ net' = [net EXCEPT ![m] = Tail(net[m])]
      /\ \/ partner' = partner
         \/ partner' = [partner EXCEPT ![m].ended = TRUE]
         \/ /\ Head(net[m]).kind = "frame"
            /\ partner' = [partner EXCEPT ![m] = Pushed(partner[m], Head(net[m]))]
  BY ArrivesEffect
<1>2. LinksGoOn
  BY <1>1 DEF LinksGoOn, Typed, LinkTyped
<1>3. PICK k \in Machine : k = Other(m) /\ k # m
  BY Pairs
<1>4. net[m] \in Seq(Messages) /\ PartnerTyped(partner[m])
  BY TypedParts
<1>5. ASSUME NEW f \in DOMAIN partner'[m].frames
      PROVE  Truthful(partner'[m].frames[f], k, link[k], script)
  <2>1. \A g \in DOMAIN partner[m].frames : Truthful(partner[m].frames[g], k, link[k], script)
    BY <1>3 DEF Agreed, TruthArrives
  <2>2. CASE partner' = partner
    BY <1>5, <2>1, <2>2
  <2>3. CASE partner' = [partner EXCEPT ![m].ended = TRUE]
    <3>1. partner'[m].frames = partner[m].frames
      BY <1>4, <2>3 DEF Typed, PartnerTyped
    <3>2. QED
      BY <1>5, <2>1, <3>1
  <2>4. CASE /\ Head(net[m]).kind = "frame"
             /\ partner' = [partner EXCEPT ![m] = Pushed(partner[m], Head(net[m]))]
    <3>1. PICK msg : msg = Head(net[m])
      OBVIOUS
    <3>2. msg \in FrameMessages /\ msg = net[m][1] /\ 1 \in 1..Len(net[m])
      BY <1>1, <1>4, <2>4, <3>1 DEF Messages, Signs
    <3>3. Truthful(msg, k, link[k], script)
      BY <1>3, <2>4, <3>1, <3>2 DEF Agreed, TruthArrives
    <3>4. partner'[m] = Pushed(partner[m], msg)
      BY <2>4, <3>1 DEF Typed
    <3>5. \/ partner'[m].frames[f] = msg
          \/ f \in DOMAIN partner[m].frames /\ partner'[m].frames[f] = partner[m].frames[f]
      BY <1>4, <1>5, <3>2, <3>4, PushedTypes
    <3>6. QED
      BY <2>1, <3>3, <3>5
  <2>5. QED
    BY <1>1, <2>2, <2>3, <2>4
<1>6. ASSUME NEW i \in 1..Len(net'[m]), net'[m][i].kind = "frame"
      PROVE  Truthful(net'[m][i], k, link[k], script)
  <2>1. net'[m] = Tail(net[m])
    BY <1>1 DEF Typed
  <2>2. net'[m][i] = net[m][i + 1] /\ i + 1 \in 1..Len(net[m])
    <3>1. \A box \in Seq(Messages) : box # <<>> =>
            \A n \in 1..Len(Tail(box)) : Tail(box)[n] = box[n + 1] /\ n + 1 \in 1..Len(box)
      OBVIOUS
    <3>2. i \in 1..Len(Tail(net[m]))
      BY <1>6, <2>1
    <3>3. QED
      BY <1>1, <1>4, <2>1, <3>1, <3>2
  <2>3. QED
    BY <1>3, <1>6, <2>2 DEF Agreed, TruthArrives
<1>7. ASSUME NEW j \in Machine
      PROVE  TruthArrives(j, script)'
  <2>1. CASE j = m
    BY <1>1, <1>3, <1>5, <1>6, <2>1 DEF TruthArrives
  <2>2. CASE j # m
    <3>1. partner'[j] = partner[j] /\ net'[j] = net[j] /\ link' = link
      BY <1>1, <2>2 DEF Typed
    <3>2. QED
      BY <3>1 DEF Agreed, TruthArrives
  <2>3. QED
    BY <2>1, <2>2
<1>8. \A j \in Machine : link'[j].phase # "ended" =>
          Ready(j, link'[j], Here(j, walk), script)
  BY <1>1 DEF Agreed
<1>9. QED
  BY <1>1, <1>2, <1>7, <1>8, NobodyMoves

\* Where nothing arrives and nothing is sent, what is on its way stays true.
LEMMA StillTrue ==
    ASSUME Typed, Typed', LinksGoOn, NEW script, UNCHANGED <<partner, net>>,
           \A j \in Machine : TruthArrives(j, script)
    PROVE  \A j \in Machine : TruthArrives(j, script)'
<1> SUFFICES ASSUME NEW j \in Machine
             PROVE  TruthArrives(j, script)'
  OBVIOUS
<1>1. PICK k \in Machine : k = Other(j)
  BY Pairs
<1>2. ASSUME NEW msg \in FrameMessages, Truthful(msg, k, link[k], script)
      PROVE  Truthful(msg, k, link'[k], script)
  BY <1>2, StillTruthful
<1>3. QED
  BY <1>1, <1>2, FramesTyped DEF TruthArrives

LEMMA IdlesAgreed ==
    ASSUME Typed, Typed', NEW m \in Machine, Idles(m),
           NEW script \in Script, NEW walk \in Walks, Agreed(script, walk)
    PROVE  Agreed(script, walk)'
<1>1. /\ UNCHANGED <<partner, time, trace, net>>
      /\ \A j \in Machine :
            /\ link'[j].phase # "ended" => link[j].phase # "ended"
            /\ link'[j].queue = link[j].queue /\ link'[j].nextSend = link[j].nextSend
            /\ link'[j].prepared = link[j].prepared
  BY IdlesEffect
<1>2. LinksGoOn
  <2>1. \A j \in Machine : link[j].nextSend \in Nat
    BY DEF Typed, LinkTyped
  <2>2. \A n \in Nat : n <= n
    OBVIOUS
  <2>3. QED
    BY <1>1, <2>1, <2>2 DEF LinksGoOn
<1>3. \A j \in Machine : TruthArrives(j, script)'
  BY <1>1, <1>2, StillTrue DEF Agreed
<1>4. ASSUME NEW j \in Machine, link'[j].phase # "ended"
      PROVE  Ready(j, link'[j], Here(j, walk), script)
  <2>1. Ready(j, link[j], Here(j, walk), script)
    BY <1>1, <1>4 DEF Agreed
  <2>2. QED
    BY <1>1, <2>1, ReadySame
<1>5. QED
  BY <1>1, <1>2, <1>3, <1>4, NobodyMoves

LEMMA WriteOrResetAgreed ==
    ASSUME Typed, Typed', NEW m \in Machine, WriteOrReset(m),
           NEW script \in Script, NEW walk \in Walks, Agreed(script, walk)
    PROVE  Agreed(script, walk)'
<1>1. PICK event \in {"write", "reset"} :
          link' = [link EXCEPT ![m] = Schedule(link[m], event)]
  BY WriteOrResetEffect
<1>2. UNCHANGED <<partner, time, trace, net>> /\ link[m].phase # "ended"
  BY WriteOrResetEffect
<1>3. /\ link'[m] = Schedule(link[m], event)
      /\ \A j \in Machine : j # m => link'[j] = link[j]
  BY <1>1 DEF Typed
<1>4. LinkTyped(link[m]) /\ link'[m].nextSend = link[m].nextSend
  BY <1>3, TypedParts, ScheduleTypes
<1>5. LinksGoOn
  <2>1. \A j \in Machine : link[j].nextSend \in Nat
    BY DEF Typed, LinkTyped
  <2>2. \A n \in Nat : n <= n
    OBVIOUS
  <2>3. QED
    BY <1>2, <1>3, <1>4, <2>1, <2>2 DEF LinksGoOn
<1>6. \A j \in Machine : TruthArrives(j, script)'
  BY <1>2, <1>5, StillTrue DEF Agreed
<1>7. ASSUME NEW j \in Machine, link'[j].phase # "ended"
      PROVE  Ready(j, link'[j], Here(j, walk), script)
  <2>1. CASE j = m
    <3>1. Ready(m, link[m], Here(m, walk), script) /\ Here(m, walk) \in Place
      BY <1>2, WalkTypes, TypedParts DEF Agreed, Here
    <3>2. QED
      BY <1>3, <1>4, <2>1, <3>1, ReadyScheduled
  <2>2. CASE j # m
    BY <1>3, <1>7, <2>2 DEF Agreed
  <2>3. QED
    BY <2>1, <2>2
<1>8. QED
  BY <1>2, <1>5, <1>6, <1>7, NobodyMoves

\* Machine m moves on, to n.
LEMMA OneMoves ==
    ASSUME NEW m \in Machine, NEW o \in Machine, o = Other(m),
           NEW script, NEW walk, NEW on, NEW n,
           On(trace'[m], time'[m], link', script, on),
           on[Len(trace'[m])] = n,
           link'[m].phase # "ended" => Ready(m, link'[m], n, script),
           trace'[o] = trace[o], time'[o] = time[o], link'[o] = link[o],
           On(trace[o], time[o], link', script, on),
           on[Len(trace[o])] = Here(o, walk),
           link[o].phase # "ended" => Ready(o, link[o], Here(o, walk), script),
           \A j \in Machine : TruthArrives(j, script)'
    PROVE  Agreed(script, on)'
<1>1. Here(m, on)' = n /\ Here(o, on)' = Here(o, walk)
  BY DEF Here
<1>2. ASSUME NEW j \in Machine
      PROVE  /\ On(trace'[j], time'[j], link', script, on)
             /\ link'[j].phase # "ended" => Ready(j, link'[j], Here(j, on)', script)
  <2>1. j = m \/ j = o
    BY Pairs
  <2>2. QED
    BY <1>1, <2>1
<1>3. QED
  BY <1>2 DEF Agreed

\* A step of console k on machine m, which is at p and in no need to begin a frame.
LEMMA StepEntry ==
    ASSUME Typed, NEW m \in Machine, NEW script, NEW p \in Place, p.time = time[m],
           NEW k \in Console, Turn(p) = k, ~Begins(p), NEW applied, Step(m, k, applied)
    PROVE  /\ Entry(script, p) = [console |-> k, step |-> TRUE]
           /\ After(p).time = time'[m] /\ ~After(p).begun /\ After(p) \in Place
           /\ \A j \in Machine : j # m => time'[j] = time[j]
<1>1. time'[m] = [time[m] EXCEPT ![k] = @ + 1]
  BY DEF Step, Typed
<1>2. \A j \in Machine : j # m => time'[j] = time[j]
  BY DEF Step, Typed
<1>3. QED
  BY <1>1, <1>2, PlaceTypes DEF Entry, After

LEMMA PartnerContinuesAgreed ==
    ASSUME Typed, Typed', NEW m \in Machine, PartnerContinues(m),
           NEW script \in Script, NEW walk \in Walks, Agreed(script, walk)
    PROVE  Scripted'
<1>1. PICK k \in Machine : k = Other(m) /\ k # m /\ k \in Console
  BY Pairs
<1>2. PICK p : p = Here(m, walk)
  OBVIOUS
<1>3. /\ link[m].phase = "running" /\ NextConsole(m) = k /\ MidFrame(m, k)
      /\ Step(m, k, <<>>)
      /\ link' = [link EXCEPT ![m] = WithDue(Unmatched(Hashed(m)), k, time'[m][k])]
      /\ UNCHANGED <<partner, pad, net>>
  BY <1>1 DEF PartnerContinues, Runs
<1>4. p.time = time[m] /\ Ready(m, link[m], p, script)
  BY <1>2, <1>3 DEF Agreed, On, Here
<1>5. p \in Place /\ Turn(p) = k /\ ~Begins(p)
  BY <1>1, <1>2, <1>3, <1>4, HereIs
<1>6. /\ Entry(script, p) = [console |-> k, step |-> TRUE]
      /\ After(p).time = time'[m] /\ ~After(p).begun /\ After(p) \in Place
      /\ time'[k] = time[k]
  BY <1>1, <1>3, <1>4, <1>5, StepEntry
<1>7. SamePlan(link'[m], link[m]) /\ link'[k] = link[k]
  <2>1. PICK u : u = Unmatched(Hashed(m))
    OBVIOUS
  <2>2. LinkTyped(u) /\ SamePlan(u, link[m])
    BY <2>1, HashedKeeps
  <2>3. PICK t \in Nat : t = time'[m][k]
    BY <1>1 DEF Typed
  <2>4. SamePlan(WithDue(u, k, t), u)
    BY <1>1, <2>2, WithDueKeeps
  <2>5. link'[m] = WithDue(u, k, t) /\ link'[k] = link[k]
    BY <1>1, <1>3, <2>1, <2>3 DEF Typed
  <2>6. QED
    BY <2>2, <2>4, <2>5 DEF SamePlan
<1>8. LinksGoOn
  <2>1. \A j \in Machine : link[j].nextSend \in Nat
    BY DEF Typed, LinkTyped
  <2>2. \A j \in Machine : j = m \/ j = k
    BY <1>1, Pairs
  <2>3. \A n \in Nat : n <= n
    OBVIOUS
  <2>4. QED
    BY <1>7, <2>1, <2>2, <2>3 DEF LinksGoOn, SamePlan
<1>9. trace[m] \in Seq(Entries) /\ trace[k] \in Seq(Entries)
  BY TypedParts
<1>10. On(trace[m], time[m], link', script, walk) /\ On(trace[k], time[k], link', script, walk)
  BY <1>8, <1>9, StillOn DEF Agreed
<1>11. PICK on \in Walks : Onward(trace[m], trace[k], time[k], link', script, p, walk, on)
  <2>1. PICK links : links = link'
    OBVIOUS
  <2>2. On(trace[m], time[m], links, script, walk) /\ On(trace[k], time[k], links, script, walk)
    BY <1>10, <2>1
  <2>3. walk[Len(trace[m])] = p /\ MayBegin(p, links)
    BY <1>2, <1>5 DEF Here, MayBegin
  <2>4. \E on \in Walks : Onward(trace[m], trace[k], time[k], links, script, p, walk, on)
    BY <1>5, <1>9, <2>2, <2>3, OneMore
  <2>5. QED
    BY <2>1, <2>4
<1>12. /\ trace'[m] = Append(trace[m], Entry(script, p)) /\ trace'[k] = trace[k]
       /\ Len(trace'[m]) = Len(trace[m]) + 1
  <2>1. PICK e : e = [console |-> k, step |-> TRUE]
    OBVIOUS
  <2>2. \A s \in Seq(Entries) : s \o <<>> \o <<e>> = Append(s, e)
                                /\ Len(Append(s, e)) = Len(s) + 1
    OBVIOUS
  <2>3. trace'[m] = trace[m] \o <<>> \o <<e>> /\ trace'[k] = trace[k]
    BY <1>1, <1>3, <2>1 DEF Step, Typed
  <2>4. QED
    BY <1>6, <1>9, <2>1, <2>2, <2>3
<1>13. Ready(m, link'[m], After(p), script)
  <2>1. After(p).time[m] = p.time[m]
    BY <1>1, <1>4, <1>6, <1>3, Pairs DEF Step, Typed
  <2>2. Ready(m, link[m], After(p), script)
    BY <1>1, <1>4, <1>5, <1>6, <2>1, ReadyMeanwhile, TypedParts
  <2>3. QED
    BY <1>7, <2>2, ReadySame DEF SamePlan
<1>14. \A j \in Machine : TruthArrives(j, script)'
  BY <1>3, <1>8, StillTrue DEF Agreed
<1>15. Agreed(script, on)'
  <2>1. On(trace'[m], time'[m], link', script, on)
    BY <1>6, <1>11, <1>12 DEF Onward
  <2>2. on[Len(trace'[m])] = After(p)
    BY <1>11, <1>12 DEF Onward
  <2>3. on[Len(trace[k])] = Here(k, walk)
    BY <1>11 DEF Here, Onward
  <2>4. link[k].phase # "ended" => Ready(k, link[k], Here(k, walk), script)
    BY DEF Agreed
  <2>5. On(trace[k], time[k], link', script, on)
    BY <1>11 DEF Onward
  <2>6. QED
    BY <1>1, <1>6, <1>7, <1>12, <1>13, <1>14, <2>1, <2>2, <2>3, <2>4, <2>5,
       OneMoves
<1>16. QED
  BY <1>15 DEF Scripted

\* What machine m applies to the partner's console is what the script says.
LEMMA BeginsHere ==
    ASSUME Typed, NEW m \in Machine, NEW script \in Script, NEW walk \in Walks,
           Agreed(script, walk), NEW p, p = Here(m, walk),
           Runs(m, Other(m)), ~MidFrame(m, Other(m)), NEW events, NEW hashes,
           BeginsWith(m, events, hashes)
    PROVE  /\ p \in Place /\ p.time = time[m] /\ Turn(p) = Other(m) /\ Begins(p)
           /\ Entry(script, p) = [console |-> Other(m), events |-> events]
           /\ MayBegin(p, link)
<1>1. PICK k \in Machine : k = Other(m) /\ k # m /\ k \in Console
  BY Pairs
<1>2. link[m].phase = "running" /\ NextConsole(m) = k
  BY <1>1 DEF Runs
<1>3. p.time = time[m] /\ Ready(m, link[m], p, script)
  BY <1>2 DEF Agreed, On, Here
<1>4. p \in Place /\ Turn(p) = k /\ FrameAt(p) = Frame(m, k)
  BY <1>1, <1>2, <1>3, HereIs
<1>5. Begins(p)
  <2>1. ~p.begun
    BY <1>1, <1>3, <1>4 DEF Ready
  <2>2. QED
    BY <1>1, <1>3, <1>4, <2>1, HereIs
<1>6. PICK frame \in Nat : frame = Frame(m, k)
  BY <1>1, TypedParts
<1>7. events = script[k][frame]
      /\ (link[k].phase # "ended" => frame < link[k].nextSend)
  <2>1. CASE frame < Delay /\ events = <<HeldInput>>
    <3>1. events = script[k][frame]
      BY <1>1, <1>6, <2>1 DEF Script
    <3>2. ASSUME link[k].phase # "ended"
          PROVE  frame < link[k].nextSend
      <4>1. LinkTyped(link[k]) /\ Here(k, walk) \in Place
        BY TypedParts, WalkTypes DEF Here
      <4>2. Ran(k, link[k], Here(k, walk)) \in Nat
        BY <4>1, RanTypes
      <4>3. link[k].nextSend = Ran(k, link[k], Here(k, walk)) + Delay
        BY <3>2 DEF Agreed, Ready
      <4>4. QED
        BY <2>1, <4>2, <4>3, DelayAssumption
    <3>3. QED
      BY <3>1, <3>2
  <2>2. CASE frame \in DOMAIN partner[m].frames /\ events = partner[m].frames[frame].events
    <3>1. Truthful(partner[m].frames[frame], k, link[k], script)
      BY <1>1, <2>2 DEF Agreed, TruthArrives
    <3>2. partner[m].frames[frame].frame = frame
      BY <2>2, TypedParts DEF PartnerTyped
    <3>3. QED
      BY <2>2, <3>1, <3>2 DEF Truthful
  <2>3. QED
    BY <1>1, <1>6, <2>1, <2>2 DEF BeginsWith
<1>8. Entry(script, p) = [console |-> k, events |-> events]
  BY <1>4, <1>5, <1>6, <1>7 DEF Entry
<1>9. MayBegin(p, link)
  BY <1>4, <1>6, <1>7 DEF MayBegin
<1>10. QED
  BY <1>1, <1>3, <1>4, <1>5, <1>8, <1>9

LEMMA StillMay ==
    ASSUME Typed, Typed', LinksGoOn, NEW p \in Place, MayBegin(p, link)
    PROVE  MayBegin(p, link')
<1>1. Turn(p) \in Machine /\ FrameAt(p) \in Nat
  BY PlaceTypes DEF Machine
<1>2. link[Turn(p)].nextSend \in Nat /\ link'[Turn(p)].nextSend \in Nat
  BY <1>1 DEF Typed, LinkTyped
<1>3. QED
  BY <1>1, <1>2 DEF MayBegin, LinksGoOn

\* One more thing, by the links as they are after the step.
LEMMA OneMoreNow ==
    ASSUME NEW script \in Script, NEW walk \in Walks,
           NEW s \in Seq(Entries), NEW t \in Seq(Entries), NEW here, NEW there,
           On(s, here, link', script, walk), On(t, there, link', script, walk),
           NEW p \in Place, walk[Len(s)] = p, MayBegin(p, link')
    PROVE  \E on \in Walks : Onward(s, t, there, link', script, p, walk, on)
<1>1. PICK links : links = link'
  OBVIOUS
<1>2. \E on \in Walks : Onward(s, t, there, links, script, p, walk, on)
  BY <1>1, OneMore
<1>3. QED
  BY <1>1, <1>2

LEMMA MismatchAgreed ==
    ASSUME Typed, Typed', NEW m \in Machine, NEW events,
           Fails(m, "mismatch"),
           trace' = [trace EXCEPT ![m] = @ \o Applied(Other(m), events)], time' = time,
           NEW script \in Script, NEW walk \in Walks, Agreed(script, walk),
           NEW p \in Place, p = Here(m, walk), p.time = time[m], Begins(p),
           Entry(script, p) = [console |-> Other(m), events |-> events], MayBegin(p, link)
    PROVE  Scripted'
<1>1. PICK k \in Machine : k = Other(m) /\ k # m
  BY Pairs
<1>2. /\ LinksGoOn /\ link'[m].phase = "ended" /\ link'[k] = link[k]
      /\ \A j \in Machine : TruthArrives(j, script)'
  <2>1. <<Plain("unlink")>> \in Seq(Signs)
    BY DEF Plain, Signs
  <2>2. QED
    BY <1>1, <2>1, EndsTruth DEF Fails, Agreed
<1>3. trace[m] \in Seq(Entries) /\ trace[k] \in Seq(Entries)
  BY TypedParts
<1>4. On(trace[m], time[m], link', script, walk) /\ On(trace[k], time[k], link', script, walk)
  BY <1>2, <1>3, StillOn DEF Agreed
<1>5. PICK on \in Walks : Onward(trace[m], trace[k], time[k], link', script, p, walk, on)
  <2>1. walk[Len(trace[m])] = p /\ MayBegin(p, link')
    BY <1>2, StillMay DEF Here
  <2>2. QED
    BY <1>3, <1>4, <2>1, OneMoreNow
<1>6. /\ trace'[m] = Append(trace[m], Entry(script, p)) /\ trace'[k] = trace[k]
      /\ Len(trace'[m]) = Len(trace[m]) + 1
  <2>1. PICK e : e = Entry(script, p)
    OBVIOUS
  <2>2. \A s \in Seq(Entries) : s \o <<e>> = Append(s, e) /\ Len(Append(s, e)) = Len(s) + 1
    OBVIOUS
  <2>3. trace'[m] = trace[m] \o <<e>> /\ trace'[k] = trace[k]
    BY <1>1, <2>1 DEF Applied, Typed
  <2>4. QED
    BY <1>3, <2>1, <2>2, <2>3
<1>7. After(p).time = time'[m] /\ time'[k] = time[k]
  BY DEF After
<1>8. Agreed(script, on)'
  <2>1. On(trace'[m], time'[m], link', script, on) /\ On(trace[k], time[k], link', script, on)
    BY <1>5, <1>6, <1>7 DEF Onward
  <2>2. on[Len(trace'[m])] = After(p) /\ on[Len(trace[k])] = Here(k, walk)
    BY <1>5, <1>6 DEF Onward, Here
  <2>3. link[k].phase # "ended" => Ready(k, link[k], Here(k, walk), script)
    BY DEF Agreed
  <2>4. QED
    BY <1>1, <1>2, <1>6, <1>7, <2>1, <2>2, <2>3, OneMoves
<1>9. QED
  BY <1>8 DEF Scripted

\* A frame begins, and its first step is made.
OnwardTwice(s, t, there, links, script, p, walk, on) ==
    /\ On(Append(Append(s, Entry(script, p)), Entry(script, After(p))),
          After(After(p)).time, links, script, on)
    /\ On(t, there, links, script, on)
    /\ on[Len(s) + 2] = After(After(p)) /\ on[Len(t)] = walk[Len(t)]

LEMMA TwoMoreNow ==
    ASSUME NEW script \in Script, NEW walk \in Walks,
           NEW s \in Seq(Entries), NEW t \in Seq(Entries), NEW here, NEW there,
           On(s, here, link', script, walk), On(t, there, link', script, walk),
           NEW p \in Place, walk[Len(s)] = p, MayBegin(p, link'), Begins(p)
    PROVE  \E on \in Walks : OnwardTwice(s, t, there, link', script, p, walk, on)
<1>1. PICK mid \in Walks : Onward(s, t, there, link', script, p, walk, mid)
  BY OneMoreNow
<1>2. PICK u : u = Append(s, Entry(script, p))
  OBVIOUS
<1>3. u \in Seq(Entries) /\ Len(u) = Len(s) + 1 /\ Len(s) \in Nat
  <2>1. Entry(script, p) \in Entries
    BY PlaceTypes DEF Entries
  <2>2. QED
    BY <1>2, <2>1
<1>4. PICK q \in Place : q = After(p)
  BY PlaceTypes
<1>5. ~Begins(q)
  BY <1>4 DEF After, Begins
<1>6. mid[Len(u)] = q /\ MayBegin(q, link')
  BY <1>1, <1>3, <1>4, <1>5 DEF Onward, MayBegin
<1>7. On(u, q.time, link', script, mid) /\ On(t, there, link', script, mid)
  BY <1>1, <1>2, <1>4 DEF Onward
<1>8. PICK on \in Walks : Onward(u, t, there, link', script, q, mid, on)
  BY <1>3, <1>6, <1>7, OneMoreNow
<1>9. QED
  BY <1>1, <1>2, <1>3, <1>4, <1>8 DEF Onward, OnwardTwice

LEMMA BeginStepsAgreed ==
    ASSUME Typed, Typed', NEW m \in Machine, NEW events, NEW hashes, NEW l, NEW a, NEW pn,
           Step(m, Other(m), Applied(Other(m), events)),
           l = WithReceived(Unmatched(Hashed(m)), hashes),
           a \in {l, Unmatched(l)},
           link' = [link EXCEPT ![m] = WithDue(a, Other(m), time'[m][Other(m)])],
           pn \in {partner[m], Taken(partner[m], Frame(m, Other(m)))},
           partner' = [partner EXCEPT ![m] = pn], net' = net,
           link[m].phase # "ended",
           NEW script \in Script, NEW walk \in Walks, Agreed(script, walk),
           NEW p \in Place, p = Here(m, walk), p.time = time[m], Begins(p),
           Turn(p) = Other(m),
           Entry(script, p) = [console |-> Other(m), events |-> events], MayBegin(p, link)
    PROVE  Scripted'
<1>1. PICK k \in Machine : k = Other(m) /\ k # m /\ k \in Console
  BY Pairs
<1>2. SamePlan(link'[m], link[m]) /\ link'[k] = link[k]
  <2>1. PICK u : u = Unmatched(Hashed(m))
    OBVIOUS
  <2>2. LinkTyped(u) /\ SamePlan(u, link[m])
    BY <2>1, HashedKeeps
  <2>3. LinkTyped(l) /\ SamePlan(l, u)
    BY <2>1, <2>2, WithReceivedKeeps
  <2>4. LinkTyped(a) /\ SamePlan(a, link[m])
    <3>1. LinkTyped(Unmatched(l)) /\ SamePlan(Unmatched(l), l)
      BY <2>3, UnmatchedKeeps
    <3>2. QED
      BY <2>2, <2>3, <3>1 DEF SamePlan
  <2>5. PICK t \in Nat : t = time'[m][k]
    BY <1>1 DEF Typed
  <2>6. SamePlan(WithDue(a, k, t), a)
    BY <1>1, <2>4, WithDueKeeps
  <2>7. link'[m] = WithDue(a, k, t) /\ link'[k] = link[k]
    BY <1>1, <2>5 DEF Typed
  <2>8. QED
    BY <2>4, <2>6, <2>7 DEF SamePlan
<1>3. LinksGoOn
  <2>1. \A j \in Machine : link[j].nextSend \in Nat
    BY DEF Typed, LinkTyped
  <2>2. \A j \in Machine : j = m \/ j = k
    BY <1>1, Pairs
  <2>3. \A n \in Nat : n <= n
    OBVIOUS
  <2>4. QED
    BY <1>2, <2>1, <2>2, <2>3 DEF LinksGoOn, SamePlan
<1>4. trace[m] \in Seq(Entries) /\ trace[k] \in Seq(Entries)
  BY TypedParts
<1>5. On(trace[m], time[m], link', script, walk) /\ On(trace[k], time[k], link', script, walk)
  BY <1>3, <1>4, StillOn DEF Agreed
<1>6. PICK q \in Place : q = After(p)
  BY PlaceTypes
<1>7. q.time = time[m] /\ q.begun /\ Turn(q) = k /\ ~Begins(q)
  BY <1>1, <1>6 DEF After, Turn, Begins
<1>8. /\ Entry(script, q) = [console |-> k, step |-> TRUE]
      /\ After(q).time = time'[m] /\ ~After(q).begun /\ After(q) \in Place
      /\ time'[k] = time[k]
  BY <1>1, <1>7, StepEntry
<1>9. PICK on \in Walks : OnwardTwice(trace[m], trace[k], time[k], link', script, p, walk, on)
  <2>1. walk[Len(trace[m])] = p /\ MayBegin(p, link')
    BY <1>3, StillMay DEF Here
  <2>2. QED
    BY <1>4, <1>5, <2>1, TwoMoreNow
<1>10. /\ trace'[m] = Append(Append(trace[m], Entry(script, p)), Entry(script, q))
       /\ trace'[k] = trace[k] /\ Len(trace'[m]) = Len(trace[m]) + 2
  <2>1. PICK e, d : e = Entry(script, p) /\ d = Entry(script, q)
    OBVIOUS
  <2>2. \A s \in Seq(Entries) : s \o <<e>> \o <<d>> = Append(Append(s, e), d)
                                /\ Len(Append(Append(s, e), d)) = Len(s) + 2
    OBVIOUS
  <2>3. trace'[m] = trace[m] \o <<e>> \o <<d>> /\ trace'[k] = trace[k]
    BY <1>1, <1>8, <2>1 DEF Step, Applied, Typed
  <2>4. QED
    BY <1>4, <2>1, <2>2, <2>3
<1>11. Ready(m, link'[m], After(q), script)
  <2>1. Ready(m, link[m], p, script)
    BY DEF Agreed
  <2>2. After(q).time[m] = p.time[m]
    BY <1>1, <1>7, <1>8 DEF Step, Typed
  <2>3. Ready(m, link[m], After(q), script)
    BY <1>1, <1>8, <2>1, <2>2, ReadyMeanwhile, TypedParts
  <2>4. QED
    BY <1>2, <2>3, ReadySame DEF SamePlan
<1>12. \A j \in Machine : TruthArrives(j, script)'
  <2>1. ASSUME NEW msg \in FrameMessages, NEW j \in Machine, Truthful(msg, j, link[j], script)
        PROVE  Truthful(msg, j, link'[j], script)
    BY <1>3, <2>1, StillTruthful
  <2>2. TruthArrives(k, script)'
    <3>1. partner'[k] = partner[k]
      BY <1>1 DEF Typed
    <3>2. QED
      BY <1>1, <2>1, <3>1, FramesTyped DEF Agreed, TruthArrives
  <2>3. TruthArrives(m, script)'
    <3>1. partner'[m] = pn
      BY DEF Typed
    <3>2. /\ DOMAIN pn.frames \subseteq DOMAIN partner[m].frames
          /\ \A f \in DOMAIN pn.frames : pn.frames[f] = partner[m].frames[f]
      <4>1. PartnerTyped(partner[m]) /\ Frame(m, k) \in Nat
        BY <1>1, TypedParts
      <4>2. QED
        BY <1>1, <4>1, TakenTypes
    <3>3. QED
      BY <1>1, <2>1, <3>1, <3>2, FramesTyped DEF Agreed, TruthArrives
  <2>4. QED
    BY <1>1, <2>2, <2>3, Pairs
<1>13. Agreed(script, on)'
  <2>1. On(trace'[m], time'[m], link', script, on) /\ On(trace[k], time[k], link', script, on)
    BY <1>6, <1>8, <1>9, <1>10 DEF OnwardTwice
  <2>2. on[Len(trace'[m])] = After(q) /\ on[Len(trace[k])] = Here(k, walk)
    BY <1>6, <1>9, <1>10 DEF Here, OnwardTwice
  <2>3. link[k].phase # "ended" => Ready(k, link[k], Here(k, walk), script)
    BY DEF Agreed
  <2>4. QED
    BY <1>1, <1>2, <1>8, <1>10, <1>11, <1>12, <2>1, <2>2, <2>3, OneMoves
<1>14. QED
  BY <1>13 DEF Scripted

LEMMA PartnerBeginsAgreed ==
    ASSUME Typed, Typed', NEW m \in Machine, PartnerBegins(m),
           NEW script \in Script, NEW walk \in Walks, Agreed(script, walk)
    PROVE  Scripted'
<1>1. PICK events, hashes, l, a, pn :
          BeginsWith(m, events, hashes) /\ BeginsEffect(m, events, hashes, l, a, pn)
  BY PartnerBeginsEffect
<1>2. Runs(m, Other(m)) /\ ~MidFrame(m, Other(m))
  BY PartnerBeginsEffect
<1>3. PICK p : p = Here(m, walk)
  OBVIOUS
<1>4. /\ p \in Place /\ p.time = time[m] /\ Turn(p) = Other(m) /\ Begins(p)
      /\ Entry(script, p) = [console |-> Other(m), events |-> events]
      /\ MayBegin(p, link)
  BY <1>1, <1>2, <1>3, BeginsHere
<1>5. link[m].phase # "ended"
  BY <1>2 DEF Runs
<1>6. CASE /\ Fails(m, "mismatch")
           /\ trace' = [trace EXCEPT ![m] = @ \o Applied(Other(m), events)]
           /\ time' = time
  BY <1>3, <1>4, <1>6, MismatchAgreed
<1>7. CASE /\ Step(m, Other(m), Applied(Other(m), events))
           /\ l = WithReceived(Unmatched(Hashed(m)), hashes)
           /\ a \in {l, Unmatched(l)}
           /\ link' = [link EXCEPT ![m] = WithDue(a, Other(m), time'[m][Other(m)])]
           /\ pn \in {partner[m], Taken(partner[m], Frame(m, Other(m)))}
           /\ partner' = [partner EXCEPT ![m] = pn]
           /\ net' = net
  BY <1>3, <1>4, <1>5, <1>7, BeginStepsAgreed
<1>8. QED
  BY <1>1, <1>6, <1>7 DEF BeginsEffect

\* Machine m sends a frame: the script is settled for it, and nothing else changes.
LEMMA SendsAgreed ==
    ASSUME Typed, Typed', NEW m \in Machine, NEW k \in Machine, k = Other(m),
           NEW script \in Script, NEW walk \in Walks, Agreed(script, walk),
           NEW h, LinkTyped(h), SamePlan(h, link[m]), link[m].phase # "ended",
           h.nextSend >= Delay,
           link'[m].phase = h.phase, link'[m].nextSend = h.nextSend + 1, link'[k] = link[k],
           partner' = partner,
           net' = [net EXCEPT ![k] = Append(@, FrameMessage(h, pad[m]))],
           NEW new, new = Settled(script, m, h.nextSend, Outgoing(h, pad[m]))
    PROVE  /\ new \in Script /\ LinksGoOn
           /\ \A j \in Machine : TruthArrives(j, new)'
           /\ \A j \in Machine : On(trace[j], time[j], link', new, walk)
           /\ link[k].phase # "ended" => Ready(k, link[k], Here(k, walk), new)
<1>1. k # m /\ m \in Console /\ k \in Console /\ Other(k) = m /\ \A j \in Machine : j = m \/ j = k
  BY Pairs
<1>2. PICK n \in Nat : n = h.nextSend /\ n = link[m].nextSend /\ n >= Delay
  BY DEF LinkTyped, SamePlan
<1>3. pad[m] \in Pads /\ net[k] \in Seq(Messages)
  BY TypedParts
<1>4. PICK out \in Seq(Event) \ {<<>>} : out = Outgoing(h, pad[m])
  BY <1>3, SendingTypes
<1>5. /\ new \in Script /\ new[m][n] = out
      /\ \A j \in Console : \A f \in Nat : j # m \/ f # n => new[j][f] = script[j][f]
  BY <1>1, <1>2, <1>4, SettledScript
<1>6. LinksGoOn
  <2>1. \A j \in Machine : link[j].nextSend \in Nat
    BY DEF Typed, LinkTyped
  <2>2. \A i \in Nat : i <= i /\ i <= i + 1
    OBVIOUS
  <2>3. QED
    BY <1>1, <1>2, <2>1, <2>2 DEF LinksGoOn
<1>7. ASSUME NEW j \in Machine
      PROVE  On(trace[j], time[j], link', new, walk)
  <2>1. trace[j] \in Seq(Entries) /\ On(trace[j], time[j], link, script, walk)
    BY TypedParts DEF Agreed
  <2>2. On(trace[j], time[j], link, new, walk)
    BY <1>1, <1>2, <1>4, <2>1, SettledOn
  <2>3. QED
    BY <1>5, <1>6, <2>1, <2>2, StillOn
<1>8. PICK msg : msg = FrameMessage(h, pad[m])
  OBVIOUS
<1>9. Truthful(msg, m, link'[m], new)
  <2>1. msg.frame = n /\ msg.events = out
    BY <1>2, <1>4, <1>8 DEF FrameMessage
  <2>2. QED
    BY <1>2, <1>5, <2>1 DEF Truthful
<1>10. ASSUME NEW j \in Machine, NEW old \in FrameMessages,
              Truthful(old, j, link[j], script)
       PROVE  Truthful(old, j, link'[j], new)
  <2>1. old.frame \in Nat
    BY DEF FrameMessages
  <2>2. j = m => old.frame # n
    BY <1>2, <1>10, <2>1 DEF Truthful
  <2>3. new[j][old.frame] = script[j][old.frame]
    BY <1>1, <1>5, <2>1, <2>2
  <2>4. QED
    BY <1>6, <1>10, <2>3, StillTruthful
<1>11. TruthArrives(m, new)'
  <2>1. net'[m] = net[m] /\ partner'[m] = partner[m]
    BY <1>1 DEF Typed
  <2>2. QED
    BY <1>10, <2>1, FramesTyped DEF Agreed, TruthArrives
<1>12. TruthArrives(k, new)'
  <2>1. net'[k] = Append(net[k], msg) /\ partner'[k] = partner[k]
    BY <1>8 DEF Typed
  <2>2. ASSUME NEW i \in 1..Len(net'[k]), net'[k][i].kind = "frame"
        PROVE  Truthful(net'[k][i], m, link'[m], new)
    <3>1. \/ i \in 1..Len(net[k]) /\ net'[k][i] = net[k][i]
          \/ net'[k][i] = msg
      BY <1>3, <2>1, <2>2
    <3>2. ASSUME i \in 1..Len(net[k]), net'[k][i] = net[k][i]
          PROVE  Truthful(net'[k][i], m, link'[m], new)
      BY <1>1, <1>10, <2>2, <3>2, FramesTyped DEF Agreed, TruthArrives
    <3>3. QED
      BY <1>9, <3>1, <3>2
  <2>3. ASSUME NEW f \in DOMAIN partner'[k].frames
        PROVE  Truthful(partner'[k].frames[f], m, link'[m], new)
    BY <1>1, <1>10, <2>1, FramesTyped DEF Agreed, TruthArrives
  <2>4. QED
    BY <1>1, <2>2, <2>3 DEF TruthArrives
<1>13. ASSUME link[k].phase # "ended"
       PROVE  Ready(k, link[k], Here(k, walk), new)
  <2>1. Ready(k, link[k], Here(k, walk), script)
    BY <1>13 DEF Agreed
  <2>2. \A f \in DOMAIN link[k].queue : new[k][f] = script[k][f]
    BY <1>1, <1>5, TypedParts DEF LinkTyped
  <2>3. QED
    BY <2>1, <2>2 DEF Ready
<1>14. QED
  BY <1>1, <1>5, <1>6, <1>7, <1>11, <1>12, <1>13

\* Machine m has prepared its own console's frame if need be: it is at q, its trace is s,
\* its link a, and its console need not begin a frame.
Prepared(m, k, a, s, script, walk, on, q) ==
    /\ On(s, time[m], link', script, on) /\ on[Len(s)] = q
    /\ On(trace[k], time[k], link', script, on) /\ on[Len(trace[k])] = Here(k, walk)
    /\ Ready(m, a, q, script) /\ Turn(q) = m /\ ~Begins(q) /\ q.time = time[m]
    /\ link[k].phase # "ended" => Ready(k, link[k], Here(k, walk), script)
    /\ \A j \in Machine : TruthArrives(j, script)'

\* Where a frame is due to be prepared.
LEMMA PreparesAgreed ==
    ASSUME Typed, Typed', NEW m \in Machine, NEW k \in Machine, k = Other(m), Runs(m, m),
           NEW script \in Script, NEW walk \in Walks, Agreed(script, walk),
           NEW h, LinkTyped(h), SamePlan(h, link[m]), Prepares(m, h),
           NEW a, a = AfterSending(h, pad[m], Frame(m, m)),
           NEW applied, applied = IF Scheduled(h, Frame(m, m)) # <<>>
                                  THEN Applied(m, Scheduled(h, Frame(m, m))) ELSE <<>>,
           link'[m].phase = a.phase, link'[m].nextSend = a.nextSend, link'[k] = link[k],
           partner' = partner,
           net' = [net EXCEPT ![k] = Append(@, FrameMessage(h, pad[m]))]
    PROVE  \E new \in Script, on \in Walks, q \in Place :
              /\ Prepared(m, k, a, trace[m] \o applied, new, walk, on, q)
              /\ trace[m] \o applied \in Seq(Entries)
<1>1. k # m /\ m \in Console
  BY Pairs
<1>2. PICK p : p = Here(m, walk)
  OBVIOUS
<1>3. link[m].phase # "ended" /\ NextConsole(m) = m
  BY DEF Runs
<1>4. p.time = time[m] /\ Ready(m, h, p, script)
  <2>1. p.time = time[m] /\ Ready(m, link[m], p, script)
    BY <1>2, <1>3 DEF Agreed, On, Here
  <2>2. QED
    BY <2>1, ReadySame DEF SamePlan
<1>5. /\ p \in Place /\ Turn(p) = m /\ FrameAt(p) = Frame(m, m)
      /\ p.time[m] % FrameTicks[m] = 0 /\ ~h.prepared
  BY <1>1, <1>2, <1>3, <1>4, HereIs DEF Prepares
<1>6. pad[m] \in Pads
  BY TypedParts
<1>7. PICK new : new = Settled(script, m, h.nextSend, Outgoing(h, pad[m]))
  OBVIOUS
<1>8. /\ Begins(p) /\ FrameAt(p) < h.nextSend /\ h.nextSend >= Delay
      /\ Scheduled(h, FrameAt(p)) = new[m][FrameAt(p)]
      /\ Scheduled(h, FrameAt(p)) # <<>>
      /\ Ready(m, AfterSending(h, pad[m], FrameAt(p)), After(p), new)
  BY <1>4, <1>5, <1>6, <1>7, ReadyPrepares
<1>9. a.phase = h.phase /\ a.nextSend = h.nextSend + 1
  <2>1. PICK frame \in Nat : frame = Frame(m, m)
    BY <1>1, TypedParts
  <2>2. SentAndTaken(h, Outgoing(h, pad[m]), frame, AfterSending(h, pad[m], frame))
    BY <1>6, SendingTypes
  <2>3. QED
    BY <2>1, <2>2 DEF SentAndTaken
<1>10. /\ new \in Script /\ LinksGoOn
       /\ \A j \in Machine : TruthArrives(j, new)'
       /\ \A j \in Machine : On(trace[j], time[j], link', new, walk)
       /\ link[k].phase # "ended" => Ready(k, link[k], Here(k, walk), new)
  BY <1>3, <1>7, <1>8, <1>9, SendsAgreed
<1>11. PICK q \in Place : q = After(p)
  BY <1>5, PlaceTypes
<1>12. q.time = time[m] /\ Turn(q) = m /\ ~Begins(q)
  BY <1>4, <1>5, <1>8, <1>11 DEF After, Begins, Turn
<1>13. MayBegin(p, link')
  <2>1. FrameAt(p) \in Nat /\ h.nextSend \in Nat
    BY <1>5, PlaceTypes DEF LinkTyped
  <2>2. QED
    BY <1>5, <1>8, <1>9, <2>1 DEF MayBegin
<1>14. trace[m] \in Seq(Entries) /\ trace[k] \in Seq(Entries)
  BY TypedParts
<1>15. PICK on \in Walks : Onward(trace[m], trace[k], time[k], link', new, p, walk, on)
  <2>1. walk[Len(trace[m])] = p
    BY <1>2 DEF Here
  <2>2. QED
    BY <1>5, <1>10, <1>13, <1>14, <2>1, OneMoreNow
<1>16. /\ trace[m] \o applied = Append(trace[m], Entry(new, p))
       /\ Append(trace[m], Entry(new, p)) \in Seq(Entries)
       /\ Len(Append(trace[m], Entry(new, p))) = Len(trace[m]) + 1
  <2>1. PICK e : e = Entry(new, p)
    OBVIOUS
  <2>2. e \in Entries
    BY <1>5, <1>10, <2>1, PlaceTypes DEF Entries
  <2>3. applied = <<e>>
    BY <1>5, <1>8, <2>1 DEF Applied, Entry
  <2>4. \A s \in Seq(Entries) : \A x \in Entries :
            s \o <<x>> = Append(s, x) /\ Append(s, x) \in Seq(Entries)
            /\ Len(Append(s, x)) = Len(s) + 1
    OBVIOUS
  <2>5. QED
    BY <1>14, <2>1, <2>2, <2>3, <2>4
<1>17. Prepared(m, k, a, Append(trace[m], Entry(new, p)), new, walk, on, q)
  <2>1. /\ On(Append(trace[m], Entry(new, p)), time[m], link', new, on)
        /\ on[Len(Append(trace[m], Entry(new, p)))] = q
    BY <1>11, <1>12, <1>15, <1>16 DEF Onward
  <2>2. On(trace[k], time[k], link', new, on) /\ on[Len(trace[k])] = Here(k, walk)
    BY <1>15 DEF Onward, Here
  <2>3. Ready(m, a, q, new)
    BY <1>5, <1>8, <1>11
  <2>4. QED
    BY <1>10, <1>12, <2>1, <2>2, <2>3 DEF Prepared
<1>18. QED
  BY <1>10, <1>16, <1>17

\* Where none is.
LEMMA GoesOnAgreed ==
    ASSUME Typed, Typed', NEW m \in Machine, NEW k \in Machine, k = Other(m), Runs(m, m),
           NEW script \in Script, NEW walk \in Walks, Agreed(script, walk),
           NEW h, LinkTyped(h), SamePlan(h, link[m]), ~Prepares(m, h),
           link'[m].phase = h.phase, link'[m].nextSend = h.nextSend, link'[k] = link[k],
           partner' = partner, net' = net
    PROVE  \E q \in Place : Prepared(m, k, h, trace[m] \o <<>>, script, walk, walk, q)
<1>1. k # m /\ m \in Console /\ \A j \in Machine : j = m \/ j = k
  BY Pairs
<1>2. PICK p : p = Here(m, walk)
  OBVIOUS
<1>3. link[m].phase # "ended" /\ NextConsole(m) = m
  BY DEF Runs
<1>4. p.time = time[m] /\ Ready(m, h, p, script)
  <2>1. p.time = time[m] /\ Ready(m, link[m], p, script)
    BY <1>2, <1>3 DEF Agreed, On, Here
  <2>2. QED
    BY <2>1, ReadySame DEF SamePlan
<1>5. p \in Place /\ Turn(p) = m /\ ~Begins(p)
  <2>1. /\ p \in Place /\ Turn(p) = m
        /\ MidFrame(m, m) <=> p.time[m] % FrameTicks[m] # 0
        /\ Begins(p) <=> ~MidFrame(m, m) /\ ~p.begun
    BY <1>1, <1>2, <1>3, <1>4, HereIs
  <2>2. ~MidFrame(m, m) => p.begun
    BY <1>4, <2>1 DEF Prepares, Ready
  <2>3. QED
    BY <2>1, <2>2
<1>6. LinksGoOn
  <2>1. \A j \in Machine : link[j].nextSend \in Nat
    BY DEF Typed, LinkTyped
  <2>2. \A i \in Nat : i <= i
    OBVIOUS
  <2>3. QED
    BY <1>1, <2>1, <2>2 DEF LinksGoOn, SamePlan
<1>7. trace[m] \in Seq(Entries) /\ trace[k] \in Seq(Entries)
  BY TypedParts
<1>8. On(trace[m], time[m], link', script, walk) /\ On(trace[k], time[k], link', script, walk)
  BY <1>6, <1>7, StillOn DEF Agreed
<1>9. \A j \in Machine : TruthArrives(j, script)'
  BY <1>6, StillTrue DEF Agreed
<1>10. trace[m] \o <<>> = trace[m]
  BY <1>7
<1>11. Prepared(m, k, h, trace[m], script, walk, walk, p)
  <2>1. /\ walk[Len(trace[m])] = p /\ walk[Len(trace[k])] = Here(k, walk)
        /\ link[k].phase # "ended" => Ready(k, link[k], Here(k, walk), script)
    BY <1>2 DEF Here, Agreed
  <2>2. QED
    BY <1>4, <1>5, <1>8, <1>9, <2>1 DEF Prepared
<1>12. QED
  BY <1>5, <1>10, <1>11

\* Then the console steps or waits.
LEMMA PreparedAgreed ==
    ASSUME Typed, Typed', NEW m \in Machine, NEW k \in Machine, k = Other(m),
           NEW script \in Script, NEW walk \in Walks, NEW on \in Walks, NEW q \in Place,
           NEW a, LinkTyped(a), NEW applied, NEW s \in Seq(Entries), s = trace[m] \o applied,
           Prepared(m, k, a, s, script, walk, on, q),
           link'[k] = link[k], trace'[k] = trace[k],
           \/ /\ Step(m, m, applied) /\ SamePlan([link'[m] EXCEPT !.prepared = a.prepared], a)
              /\ link'[m].prepared = (a.prepared /\ ~CompletesFrame(m, m))
           \/ /\ trace'[m] = s /\ time' = time /\ link'[m] = a
    PROVE  Scripted'
<1>1. k # m /\ m \in Console
  BY Pairs
<1>2. /\ On(s, time[m], link', script, on) /\ on[Len(s)] = q
      /\ On(trace[k], time[k], link', script, on) /\ on[Len(trace[k])] = Here(k, walk)
      /\ Ready(m, a, q, script) /\ Turn(q) = m /\ ~Begins(q) /\ q.time = time[m]
      /\ link[k].phase # "ended" => Ready(k, link[k], Here(k, walk), script)
      /\ \A j \in Machine : TruthArrives(j, script)'
  BY DEF Prepared
<1>3. CASE trace'[m] = s /\ time' = time /\ link'[m] = a
  <2>1. Agreed(script, on)'
    <3>1. On(trace'[m], time'[m], link', script, on) /\ on[Len(trace'[m])] = q
      BY <1>2, <1>3
    <3>2. Ready(m, link'[m], q, script)
      BY <1>2, <1>3
    <3>3. time'[k] = time[k]
      BY <1>3
    <3>4. QED
      BY <1>2, <3>1, <3>2, <3>3, OneMoves
  <2>2. QED
    BY <2>1 DEF Scripted
<1>4. CASE /\ Step(m, m, applied) /\ SamePlan([link'[m] EXCEPT !.prepared = a.prepared], a)
           /\ link'[m].prepared = (a.prepared /\ ~CompletesFrame(m, m))
  <2>1. /\ Entry(script, q) = [console |-> m, step |-> TRUE]
        /\ After(q).time = time'[m] /\ time'[k] = time[k]
    BY <1>1, <1>2, <1>4, StepEntry, SMTT(30)
  <2>2. trace[k] \in Seq(Entries)
    BY TypedParts
  <2>3. PICK to \in Walks : Onward(s, trace[k], time[k], link', script, q, on, to)
    <3>1. MayBegin(q, link')
      BY <1>2 DEF MayBegin
    <3>2. QED
      BY <1>2, <2>2, <3>1, OneMoreNow
  <2>4. trace'[m] = Append(s, Entry(script, q)) /\ Len(trace'[m]) = Len(s) + 1
    <3>1. PICK e : e = Entry(script, q)
      OBVIOUS
    <3>2. trace'[m] = s \o <<e>>
      BY <1>4, <2>1, <3>1 DEF Step, Typed
    <3>3. s \o <<e>> = Append(s, e) /\ Len(Append(s, e)) = Len(s) + 1
      OBVIOUS
    <3>4. QED
      BY <3>1, <3>2, <3>3
  <2>5. Ready(m, link'[m], After(q), script)
    <3>1. link'[m].queue = a.queue /\ link'[m].nextSend = a.nextSend
      BY <1>4 DEF SamePlan, Typed, LinkTyped, LinkFields
    <3>2. link'[m].prepared = (a.prepared /\ (q.time[m] + 1) % FrameTicks[m] # 0)
      BY <1>2, <1>4 DEF CompletesFrame
    <3>3. QED
      BY <1>2, <3>1, <3>2, ReadySteps
  <2>6. Agreed(script, to)'
    <3>1. On(trace'[m], time'[m], link', script, to) /\ to[Len(trace'[m])] = After(q)
      BY <2>1, <2>3, <2>4 DEF Onward
    <3>2. On(trace[k], time[k], link', script, to) /\ to[Len(trace[k])] = Here(k, walk)
      BY <1>2, <2>3 DEF Onward
    <3>3. QED
      BY <1>2, <2>1, <2>5, <3>1, <3>2, OneMoves
  <2>7. QED
    BY <2>6 DEF Scripted
<1>5. QED
  BY <1>3, <1>4

LEMMA LocalTurnAgreed ==
    ASSUME Typed, Typed', NEW m \in Machine, LocalTurn(m),
           NEW script \in Script, NEW walk \in Walks, Agreed(script, walk)
    PROVE  Scripted'
<1>1. PICK k \in Machine : k = Other(m) /\ k # m /\ m \in Console
  BY Pairs
<1>2. PICK h, a, applied : h = Unmatched(Hashed(m)) /\ LocalEffect(m, h, a, applied)
  BY LocalTurnEffect
<1>3. Runs(m, m) /\ partner' = partner /\ link[m].phase # "ended"
  BY LocalTurnEffect DEF Runs
<1>4. LinkTyped(h) /\ SamePlan(h, link[m])
  BY <1>2, HashedKeeps
<1>5. LinkTyped(a)
  <2>1. PICK frame \in Nat : frame = Frame(m, m)
    BY <1>1, TypedParts
  <2>2. LinkTyped(AfterSending(h, pad[m], frame))
    BY <1>4, SendingTypes, TypedParts
  <2>3. QED
    BY <1>2, <1>4, <2>1, <2>2 DEF LocalEffect
<1>6. \/ Step(m, m, applied) /\ trace'[k] = trace[k]
      \/ trace'[m] = trace[m] \o applied /\ trace'[k] = trace[k]
  BY <1>1, <1>2 DEF LocalEffect, Step, Typed
<1>7. /\ link'[k] = link[k] /\ link'[m].phase = a.phase /\ link'[m].nextSend = a.nextSend
      /\ \/ /\ Step(m, m, applied)
            /\ SamePlan([link'[m] EXCEPT !.prepared = a.prepared], a)
            /\ link'[m].prepared = (a.prepared /\ ~CompletesFrame(m, m))
         \/ trace'[m] = trace[m] \o applied /\ time' = time /\ link'[m] = a
  <2>1. CASE /\ Step(m, m, applied)
             /\ link' = [link EXCEPT ![m] =
                  [WithDue(a, m, time'[m][m]) EXCEPT !.prepared = @ /\ ~CompletesFrame(m, m)]]
    <3>1. PICK t \in Nat : t = time'[m][m]
      BY <1>1 DEF Typed
    <3>2. PICK d : d = WithDue(a, m, t)
      OBVIOUS
    <3>3. LinkTyped(d) /\ SamePlan(d, a)
      BY <1>1, <1>5, <3>2, WithDueKeeps
    <3>4. link'[m] = [d EXCEPT !.prepared = (d.prepared /\ ~CompletesFrame(m, m))]
          /\ link'[k] = link[k]
      BY <1>1, <2>1, <3>1, <3>2 DEF Typed
    <3>5. link'[m].prepared = (d.prepared /\ ~CompletesFrame(m, m))
      BY <3>3, <3>4 DEF LinkTyped, LinkFields
    <3>6. link'[m].phase = d.phase /\ link'[m].nextSend = d.nextSend /\ link'[m].queue = d.queue
      BY <3>3, <3>4 DEF LinkTyped, LinkFields
    <3>7. SamePlan([link'[m] EXCEPT !.prepared = a.prepared], a)
      <4>1. PICK l : l = link'[m] /\ DOMAIN l = LinkFields
        BY DEF Typed, LinkTyped
      <4>2. PICK b : b = a.prepared
        OBVIOUS
      <4>3. [l EXCEPT !.prepared = b].prepared = b
        BY <4>1 DEF LinkFields
      <4>4. /\ [l EXCEPT !.prepared = b].phase = l.phase
            /\ [l EXCEPT !.prepared = b].queue = l.queue
            /\ [l EXCEPT !.prepared = b].nextSend = l.nextSend
        BY <4>1 DEF LinkFields
      <4>5. QED
        BY <3>3, <3>6, <4>1, <4>2, <4>3, <4>4 DEF SamePlan
    <3>8. QED
      BY <2>1, <3>3, <3>4, <3>5, <3>6, <3>7 DEF SamePlan
  <2>2. CASE /\ trace' = [trace EXCEPT ![m] = @ \o applied]
             /\ link' = [link EXCEPT ![m] = a]
             /\ time' = time
    BY <1>1, <2>2 DEF Typed
  <2>3. QED
    BY <1>2, <2>1, <2>2 DEF LocalEffect
<1>8. \E new \in Script, on \in Walks, q \in Place :
          /\ Prepared(m, k, a, trace[m] \o applied, new, walk, on, q)
          /\ trace[m] \o applied \in Seq(Entries)
  <2>1. CASE /\ Prepares(m, h)
             /\ a = AfterSending(h, pad[m], Frame(m, m))
             /\ applied = IF Scheduled(h, Frame(m, m)) # <<>>
                          THEN Applied(m, Scheduled(h, Frame(m, m))) ELSE <<>>
             /\ net' = [net EXCEPT ![Other(m)] = Append(@, FrameMessage(h, pad[m]))]
    BY <1>1, <1>3, <1>4, <1>7, <2>1, PreparesAgreed
  <2>2. CASE ~Prepares(m, h) /\ a = h /\ applied = <<>> /\ net' = net
    <3>1. \E q \in Place : Prepared(m, k, h, trace[m] \o <<>>, script, walk, walk, q)
      BY <1>1, <1>3, <1>4, <1>7, <2>2, GoesOnAgreed
    <3>2. trace[m] \o <<>> \in Seq(Entries)
      BY TypedParts
    <3>3. QED
      BY <2>2, <3>1, <3>2
  <2>3. QED
    BY <1>2, <2>1, <2>2, Zenon DEF LocalEffect
<1>9. PICK new \in Script, on \in Walks, q \in Place :
          /\ Prepared(m, k, a, trace[m] \o applied, new, walk, on, q)
          /\ trace[m] \o applied \in Seq(Entries)
  BY <1>8
<1>10. PICK s \in Seq(Entries) : s = trace[m] \o applied
  BY <1>9
<1>11. Prepared(m, k, a, s, new, walk, on, q) /\ trace'[k] = trace[k]
  BY <1>6, <1>9, <1>10
<1>12. \/ /\ Step(m, m, applied) /\ SamePlan([link'[m] EXCEPT !.prepared = a.prepared], a)
          /\ link'[m].prepared = (a.prepared /\ ~CompletesFrame(m, m))
       \/ trace'[m] = s /\ time' = time /\ link'[m] = a
  BY <1>7, <1>10
<1>13. QED
  BY <1>1, <1>5, <1>7, <1>10, <1>11, <1>12, PreparedAgreed

-----------------------------------------------------------------------------
(* The invariant holds, and the machines are in step.                      *)

LEMMA StrayedStays ==
    ASSUME TracesGrow, Strayed
    PROVE  Strayed'
<1>1. PICK m \in Machine : Strays(m) # {}
  BY DEF Strayed
<1>2. PICK i \in DOMAIN trace[m] : "stray" \in DOMAIN trace[m][i]
  BY <1>1 DEF Strays
<1>3. i \in DOMAIN trace'[m] /\ trace'[m][i] = trace[m][i]
  BY DEF TracesGrow
<1>4. QED
  BY <1>2, <1>3 DEF Strayed, Strays

\* At the plug-in the script is that nobody presses or writes anything, for nobody has yet.
LEMMA InitScripted ==
    ASSUME Init
    PROVE  Scripted
<1>1. PICK script : script = [k \in Console |-> [n \in Nat |-> <<HeldInput>>]]
  OBVIOUS
<1>2. script \in Script
  <2>1. <<HeldInput>> \in Seq(Event) \ {<<>>}
    BY DEF Event, Pads
  <2>2. QED
    BY <1>1, <2>1, DelayAssumption DEF Script
<1>3. PICK walk : walk = [i \in Nat |-> Start]
  OBVIOUS
<1>4. Start \in Place /\ walk \in Walks /\ walk[0] = Start
  <2>1. Start \in Place
    BY DEF Start, Place
  <2>2. QED
    BY <1>3, <2>1 DEF Walks
<1>5. ASSUME NEW m \in Machine
      PROVE  /\ On(trace[m], time[m], link, script, walk)
             /\ Ready(m, link[m], Here(m, walk), script)
             /\ TruthArrives(m, script)
  <2>1. /\ trace[m] = <<>> /\ net[m] = <<>> /\ partner[m] = NoFrames
        /\ time[m] = [k \in Console |-> 0] /\ link[m] = LinkIn("starting", "none")
    BY <1>5 DEF Init
  <2>2. Len(trace[m]) = 0 /\ Len(net[m]) = 0 /\ Here(m, walk) = Start
    BY <1>4, <2>1 DEF Here
  <2>3. On(trace[m], time[m], link, script, walk)
    BY <1>4, <2>1, <2>2 DEF On, Follows, Begun, Start
  <2>4. TruthArrives(m, script)
    BY <2>1, <2>2 DEF TruthArrives, NoFrames
  <2>5. 0 \div FrameTicks[m] = 0 /\ 0 % FrameTicks[m] = 0
    <3>1. PICK n \in Nat \ {0} : n = FrameTicks[m]
      BY TicksAssumption, Pairs
    <3>2. 0 \div n = 0 /\ 0 % n = 0
      OBVIOUS
    <3>3. QED
      BY <3>1, <3>2
  <2>6. PICK l : l = link[m]
    OBVIOUS
  <2>7. l.prepared = FALSE /\ l.nextSend = Delay /\ l.queue = Prefill
    BY <2>1, <2>6 DEF LinkIn
  <2>8. DOMAIN Prefill = 0..(Delay - 1) /\ \A f \in 0..(Delay - 1) : Prefill[f] = <<HeldInput>>
    BY DEF Prefill
  <2>9. /\ Start.time[m] = 0 /\ Start.begun = FALSE
        /\ \A f \in Nat : script[m][f] = <<HeldInput>>
    BY <1>1, Pairs DEF Start
  <2>10. Ran(m, l, Start) = 0
    BY <2>5, <2>7, <2>9 DEF Ran
  <2>11. Ready(m, l, Start, script)
    BY <2>5, <2>7, <2>8, <2>9, <2>10, DelayAssumption DEF Ready
  <2>12. QED
    BY <2>2, <2>3, <2>4, <2>6, <2>11
<1>6. Agreed(script, walk)
  BY <1>5 DEF Agreed
<1>7. QED
  BY <1>2, <1>4, <1>6 DEF Scripted

LEMMA LockstepStep ==
    ASSUME LockstepInv, [Next]_vars
    PROVE  LockstepInv'
<1>1. Typed /\ Typed'
  BY NextTypes DEF LockstepInv
<1>2. CASE UNCHANGED vars
  <2>1. Strayed => Strayed'
    BY <1>2 DEF vars, Strayed, Strays
  <2>2. ASSUME Scripted
        PROVE  Scripted'
    <3>1. PICK script \in Script, walk \in Walks : Agreed(script, walk)
      BY <2>2 DEF Scripted
    <3>2. Agreed(script, walk)'
      BY <1>2, <3>1 DEF vars, Agreed, Here, TruthArrives
    <3>3. QED
      BY <3>2 DEF Scripted
  <2>3. QED
    BY <1>1, <2>1, <2>2 DEF LockstepInv
<1>3. ASSUME NEW m \in Machine,
             ThreadStep(m) \/ Stall(m) \/ Deliver(m) \/ HearLeft(m) \/ Unplug(m) \/ Leave(m)
             \/ Press(m) \/ WriteOrReset(m) \/ Pause(m) \/ Resume(m) \/ Stray(m)
      PROVE  LockstepInv'
  <2>1. \/ LocalTurn(m) \/ PartnerContinues(m) \/ PartnerBegins(m)
        \/ EndsAnyhow(m) \/ Arrives(m) \/ Idles(m) \/ WriteOrReset(m) \/ Stray(m)
    BY <1>3, Zenon DEF ThreadStep, EndsAnyhow, Arrives, Idles
  <2>2. CASE Stray(m)
    BY <1>1, <2>2, StrayTypes DEF LockstepInv
  <2>3. ASSUME ~Stray(m)
        PROVE  TracesGrow
    <3>1. ASSUME trace' = trace
          PROVE  TracesGrow
      BY <3>1 DEF TracesGrow
    <3>2. QED
      BY <1>1, <2>1, <2>3, <3>1, LocalTurnTypes, PartnerTurnTypes, EndsAnyhowEffect,
         ArrivesEffect, IdlesEffect, WriteOrResetEffect
  <2>4. ASSUME ~Stray(m), Scripted
        PROVE  Scripted'
    <3>1. PICK script \in Script, walk \in Walks : Agreed(script, walk)
      BY <2>4 DEF Scripted
    <3>2. CASE LocalTurn(m)
      BY <1>1, <3>1, <3>2, LocalTurnAgreed
    <3>3. CASE PartnerContinues(m)
      BY <1>1, <3>1, <3>3, PartnerContinuesAgreed
    <3>4. CASE PartnerBegins(m)
      BY <1>1, <3>1, <3>4, PartnerBeginsAgreed
    <3>5. CASE EndsAnyhow(m) \/ Arrives(m) \/ Idles(m) \/ WriteOrReset(m)
      <4>1. Agreed(script, walk)'
        BY <1>1, <3>1, <3>5, EndsAnyhowAgreed, ArrivesAgreed, IdlesAgreed, WriteOrResetAgreed
      <4>2. QED
        BY <4>1 DEF Scripted
    <3>6. QED
      BY <2>1, <2>4, <3>2, <3>3, <3>4, <3>5
  <2>5. QED
    BY <1>1, <2>2, <2>3, <2>4, StrayedStays DEF LockstepInv
<1>4. QED
  BY <1>2, <1>3 DEF Next

\* Machines that follow one script are in step.
LEMMA ScriptedInStep ==
    ASSUME Typed, Strayed \/ Scripted
    PROVE  InStep
<1>1. SUFFICES ASSUME Scripted
               PROVE  \/ IsPrefix(trace["first"], trace["second"])
                      \/ IsPrefix(trace["second"], trace["first"])
  BY DEF InStep
<1>2. PICK script \in Script, walk \in Walks : Agreed(script, walk)
  BY <1>1 DEF Scripted
<1>3. PICK s \in Seq(Entries) : s = trace["first"]
  BY DEF Typed, Machine, Console
<1>4. PICK t \in Seq(Entries) : t = trace["second"]
  BY DEF Typed, Machine, Console
<1>5. Follows(s, script, walk) /\ Follows(t, script, walk)
  BY <1>2, <1>3, <1>4 DEF Agreed, On, Machine, Console
<1>6. Len(s) <= Len(t) \/ Len(t) <= Len(s)
  OBVIOUS
<1>7. IsPrefix(s, t) \/ IsPrefix(t, s)
  BY <1>5, <1>6, Agreeing
<1>8. QED
  BY <1>3, <1>4, <1>7

\* There is always a script that both machines followed so far, every queue, inbox and
\* message included, unless something else than the link changed a console.
THEOREM AlwaysScripted == Spec => []LockstepInv
<1>1. Init => LockstepInv
  BY InitTypes, InitScripted DEF LockstepInv
<1>2. LockstepInv /\ [Next]_vars => LockstepInv'
  BY LockstepStep
<1>3. QED
  BY <1>1, <1>2, PTL DEF Spec

\* The two machines run the pair from identical inputs, however the threads and the
\* messages interleave: what run_linked did on one of them is the beginning of what it
\* did on the other, unless something else than the link changed a console.
THEOREM MachinesInStep == Spec => []InStep
<1>1. LockstepInv => InStep
  BY ScriptedInStep DEF LockstepInv
<1>2. QED
  BY <1>1, AlwaysScripted, PTL

-----------------------------------------------------------------------------
(* No frame is dropped. Each machine sends no further ahead than it hears  *)
(* from the other, so that what is on its way fits the inbox.              *)

\* The frames that machine m sent, past those of the plug-in.
Sent(m) == link[m].nextSend - Delay

\* On a tie the first console runs next: the second begins a frame strictly behind.
Late(m) == IF m = "second" THEN 1 ELSE 0

\* Machine m is in the frame it sent last, or done with it, and when it sent that one
\* the copy of the partner's console had come as far.
Paced(m) ==
    /\ Sent(m) \in Nat
    /\ link[m].prepared => /\ (Sent(m) - 1) * FrameTicks[m] <= time[m][m]
                           /\ time[m][m] < Sent(m) * FrameTicks[m]
    /\ ~link[m].prepared => time[m][m] = Sent(m) * FrameTicks[m]
    /\ (Sent(m) - 1) * FrameTicks[m] + Late(m) <= time[m][Other(m)]

\* Frame f is needed no more, or in the inbox, or on its way.
Kept(m, f) ==
    \/ f < Needed(m) \/ f \in DOMAIN partner[m].frames
    \/ \E i \in DOMAIN net[m] : net[m][i].kind = "frame" /\ net[m][i].frame = f

\* Machine m runs and receives only frames the partner sent, its inbox knows how far it
\* came, and what was sent and is still needed is there.
Fed(m) ==
    LET k == Other(m)
        sent == link[k].nextSend
    IN  /\ time[m][k] <= sent * FrameTicks[k]
        /\ \A f \in DOMAIN partner[m].frames : f < sent
        /\ \A i \in DOMAIN net[m] : net[m][i].kind = "frame" => net[m][i].frame < sent
        /\ partner[m].applied = IF Needed(m) <= Delay THEN 0 ELSE Needed(m)
        /\ \A f \in Delay..(sent - 1) : Kept(m, f)

Alive(m) == link[m].phase # "ended"

Keeping == \A m \in Machine :
    /\ Alive(m) => Paced(m)
    /\ Alive(m) /\ Alive(Other(m)) => Fed(m)
    /\ ~Alive(m) => link[m].nextSend = Delay
KeepingInv == Typed /\ Keeping

\* T ticks in, in the frame before number r begins.
LEMMA Within ==
    ASSUME NEW n \in Nat \ {0}, NEW r \in Int, NEW t \in Nat, (r - 1) * n <= t, t < r * n
    PROVE  (t + 1) % n = 0 <=> t + 1 = r * n
<1>1. PICK q \in Nat, c \in 0..(n - 1) : q = (t + 1) \div n /\ c = (t + 1) % n /\ t + 1 = q * n + c
  <2>1. \A u \in Nat : u \div n \in Nat /\ u % n \in 0..(n - 1) /\ u = n * (u \div n) + (u % n)
    OBVIOUS
  <2>2. QED
    BY <2>1
<1>2. \A a, b \in Int : a * n < b * n <=> a < b
  OBVIOUS
<1>3. \A a \in Int : (a + 1) * n = a * n + n /\ (a - 1) * n = a * n - n
  OBVIOUS
<1>4. PICK x \in Int : x = r * n
  OBVIOUS
<1>5. PICK y \in Int : y = q * n
  OBVIOUS
<1>6. r - 1 <= q /\ q <= r
  <2>1. x - n <= y + c - 1 /\ y + c - 1 < x
    BY <1>1, <1>3, <1>4, <1>5
  <2>2. (q + 1) * n = y + n /\ (r - 1) * n = x - n
    BY <1>3, <1>4, <1>5
  <2>3. ~ (q < r - 1)
    <3>1. ASSUME q + 1 < r PROVE FALSE
      <4>1. (q + 1) * n < r * n
        BY <1>2, <3>1
      <4>2. q + 2 <= r /\ ~ (r * n < (q + 2) * n) /\ (q + 2) * n = y + n + n
        BY <1>2, <1>3, <1>5, <3>1
      <4>3. QED
        BY <1>1, <1>4, <2>1, <4>2
    <3>2. QED
      BY <3>1
  <2>4. ~ (r < q)
    <3>1. ASSUME r < q PROVE FALSE
      <4>1. r * n < q * n
        BY <1>2, <3>1
      <4>2. QED
        BY <1>4, <1>5, <2>1, <4>1
    <3>2. QED
      BY <3>1
  <2>5. QED
    BY <2>3, <2>4
<1>7. CASE q = r
  BY <1>1, <1>4, <1>5, <1>7
<1>8. CASE q = r - 1
  <2>1. t + 1 = x - n + c
    BY <1>1, <1>3, <1>4, <1>5, <1>8
  <2>2. c # 0 /\ t + 1 # x
    BY <1>1, <1>3, <1>4, <2>1
  <2>3. QED
    BY <1>1, <1>4, <2>2
<1>9. QED
  BY <1>6, <1>7, <1>8

\* The frame of the partner's console that is needed next.
LEMMA NeededTicks ==
    ASSUME Typed, NEW m \in Machine
    PROVE  /\ Needed(m) \in Nat /\ Frame(m, Other(m)) \in Nat
           /\ time[m][Other(m)] <= Needed(m) * FrameTicks[Other(m)]
           /\ ~MidFrame(m, Other(m)) =>
                 /\ Needed(m) = Frame(m, Other(m))
                 /\ time[m][Other(m)] = Needed(m) * FrameTicks[Other(m)]
<1>1. PICK n \in Nat \ {0} : n = FrameTicks[Other(m)]
  BY TicksAssumption, Pairs
<1>2. PICK t \in Nat : t = time[m][Other(m)]
  BY TypedParts, Pairs
<1>3. PICK q \in Nat, c \in 0..(n - 1) : q = t \div n /\ c = t % n /\ t = n * q + c
  BY Ticks
<1>4. (q + 1) * n = n * q + n /\ q * n = n * q
  OBVIOUS
<1>5. Frame(m, Other(m)) = q /\ (MidFrame(m, Other(m)) <=> c # 0)
  BY <1>1, <1>2, <1>3 DEF Frame, MidFrame
<1>6. Needed(m) = q + (IF c # 0 THEN 1 ELSE 0)
  BY <1>5 DEF Needed
<1>7. CASE c = 0
  <2>1. Needed(m) = q /\ t = q * n
    BY <1>3, <1>4, <1>6, <1>7
  <2>2. QED
    BY <1>1, <1>2, <1>5, <2>1
<1>8. CASE c # 0
  <2>1. Needed(m) = q + 1 /\ t <= (q + 1) * n
    BY <1>3, <1>4, <1>6, <1>8
  <2>2. QED
    BY <1>1, <1>2, <1>5, <1>8, <2>1
<1>9. QED
  BY <1>7, <1>8

\* Within a frame the next one is needed already, and a frame that begins is needed no more.
LEMMA NeededNext ==
    ASSUME Typed, NEW m \in Machine, time'[m][Other(m)] = time[m][Other(m)] + 1
    PROVE  Needed(m)' = IF MidFrame(m, Other(m)) THEN Needed(m) ELSE Needed(m) + 1
<1>1. PICK n \in Nat \ {0} : n = FrameTicks[Other(m)]
  BY TicksAssumption, Pairs
<1>2. PICK t \in Nat : t = time[m][Other(m)]
  BY TypedParts, Pairs
<1>3. Frame(m, Other(m)) = t \div n /\ (MidFrame(m, Other(m)) <=> t % n # 0)
  BY <1>1, <1>2 DEF Frame, MidFrame
<1>4. Frame(m, Other(m))' = (t + 1) \div n /\ (MidFrame(m, Other(m))' <=> (t + 1) % n # 0)
  BY <1>1, <1>2 DEF Frame, MidFrame
<1>5. Needed(m) = t \div n + (IF t % n # 0 THEN 1 ELSE 0)
  BY <1>3 DEF Needed
<1>6. Needed(m)' = (t + 1) \div n + (IF (t + 1) % n # 0 THEN 1 ELSE 0)
  BY <1>4 DEF Needed
<1>7. /\ t \div n \in Nat
      /\ (t + 1) % n = 0 => (t + 1) \div n = t \div n + 1
      /\ (t + 1) % n # 0 => (t + 1) \div n = t \div n
  BY Ticks
<1>8. Needed(m)' = t \div n + 1
  BY <1>6, <1>7
<1>9. QED
  BY <1>3, <1>5, <1>7, <1>8

\* What the other machine may have sent by now fits the inbox.
LEMMA InboxFits ==
    ASSUME Typed, NEW m \in Machine, Paced(m), Paced(Other(m)), Fed(m), Fed(Other(m)),
           NEW f \in Nat, f < link[Other(m)].nextSend
    PROVE  f <= partner[m].applied + MaxAhead
<1>1. PICK o \in Machine : o = Other(m) /\ o # m /\ Other(o) = m
  BY Pairs
<1>2. PICK n \in Nat \ {0}, k \in Nat \ {0} : n = FrameTicks[o] /\ k = FrameTicks[m]
  BY TicksAssumption DEF Machine
<1>3. PICK mine \in Nat, theirs \in Nat : mine = Sent(m) /\ theirs = Sent(o)
  BY <1>1 DEF Paced
<1>4. PICK ahead \in Nat, here \in Nat : ahead = time[o][m] /\ here = time[m][o]
  BY <1>1, TypedParts, Pairs
<1>5. PICK need \in Nat : need = Needed(m)
  BY NeededTicks
<1>6. link[m].nextSend = mine + Delay /\ f <= theirs + Delay - 1
  <2>1. link[m].nextSend \in Nat /\ link[o].nextSend \in Nat
    BY TypedParts DEF LinkTyped
  <2>2. mine = link[m].nextSend - Delay /\ theirs = link[o].nextSend - Delay
    BY <1>3 DEF Sent
  <2>3. QED
    BY <1>1, <2>1, <2>2, DelayAssumption
<1>7. (theirs - 1) * n + Late(o) <= ahead /\ (mine - 1) * k + Late(m) <= here
  BY <1>1, <1>2, <1>3, <1>4 DEF Paced
<1>8. ahead <= (mine + Delay) * k
  BY <1>1, <1>2, <1>4, <1>6 DEF Fed
<1>9. here <= need * n
  BY <1>1, <1>2, <1>4, <1>5, NeededTicks
<1>10. Late(o) + Late(m) = 1 /\ Late(o) \in Nat /\ Late(m) \in Nat
  BY <1>1, Pairs DEF Late, Machine, Console
<1>11. (mine + Delay) * k = (mine - 1) * k + (Delay + 1) * k
  BY DelayAssumption
<1>12. PICK x \in Int : x = (Delay + 1) * k
  BY DelayAssumption
<1>13. (theirs - 1) * n + 1 <= need * n + x
  BY <1>7, <1>8, <1>9, <1>10, <1>11, <1>12, DelayAssumption
<1>14. MaxAhead * n + 1 >= 2 * Delay * n + x
  BY <1>1, <1>2, <1>12, AheadAssumption
<1>15. \A a, b \in Int : a <= b <=> a * n <= b * n
  OBVIOUS
<1>16. (f - Delay) * n <= (theirs - 1) * n
  BY <1>6, <1>15, DelayAssumption
<1>17. (f - Delay) * n <= need * n + MaxAhead * n - 2 * Delay * n
  BY <1>13, <1>14, <1>16, DelayAssumption, WindowsAssumption
<1>18. need * n + MaxAhead * n - 2 * Delay * n = (need + MaxAhead - 2 * Delay) * n
  BY DelayAssumption, WindowsAssumption
<1>19. f - Delay <= need + MaxAhead - 2 * Delay
  BY <1>15, <1>17, <1>18, DelayAssumption, WindowsAssumption
<1>20. partner[m].applied = IF need <= Delay THEN 0 ELSE need
  BY <1>5 DEF Fed
<1>21. QED
  BY <1>19, <1>20, DelayAssumption, WindowsAssumption

\* The machine's own console stands still, and so does its plan.
LEMMA StillPaced ==
    ASSUME Typed, NEW m \in Machine, Paced(m),
           link'[m].nextSend = link[m].nextSend, link'[m].prepared = link[m].prepared,
           time'[m][m] = time[m][m], time'[m][Other(m)] \in Nat,
           time'[m][Other(m)] >= time[m][Other(m)]
    PROVE  Paced(m)'
<1>1. Sent(m)' = Sent(m)
  BY DEF Sent
<1>2. PICK r \in Nat : r = Sent(m)
  BY DEF Paced
<1>3. PICK n \in Nat \ {0} : n = FrameTicks[m]
  BY TicksAssumption DEF Machine
<1>4. PICK x \in Int : x = (r - 1) * n
  OBVIOUS
<1>5. x + Late(m) <= time[m][Other(m)] /\ Late(m) \in Nat /\ time[m][Other(m)] \in Nat
  BY <1>2, <1>3, <1>4, TypedParts, Pairs DEF Paced, Late
<1>6. x + Late(m) <= time'[m][Other(m)]
  BY <1>5
<1>7. (Sent(m)' - 1) * FrameTicks[m] + Late(m) <= time'[m][Other(m)]
  BY <1>1, <1>2, <1>3, <1>4, <1>6
<1>8. QED
  BY <1>1, <1>7 DEF Paced, Late

\* Nothing comes or goes at machine m, whatever more the partner says it sent.
LEMMA StillFed ==
    ASSUME Typed, NEW m \in Machine, Fed(m),
           link'[Other(m)].nextSend = link[Other(m)].nextSend,
           time'[m][Other(m)] = time[m][Other(m)],
           partner'[m].frames = partner[m].frames, partner'[m].applied = partner[m].applied,
           net'[m] = net[m]
    PROVE  Fed(m)'
<1>1. Needed(m)' = Needed(m)
  BY DEF Needed, Frame, MidFrame
<1>2. \A f : Kept(m, f) => Kept(m, f)'
  BY <1>1 DEF Kept
<1>3. QED
  BY <1>1, <1>2 DEF Fed

\* Writes, resets, presses, pauses and what strays change nobody's place.
LEMMA QuietKeeps ==
    ASSUME KeepingInv, UNCHANGED <<partner, time, net>>,
           \A j \in Machine :
              /\ link'[j].phase # "ended" <=> link[j].phase # "ended"
              /\ link'[j].nextSend = link[j].nextSend
              /\ link'[j].prepared = link[j].prepared
    PROVE  Keeping'
<1> SUFFICES ASSUME NEW m \in Machine
             PROVE  /\ Alive(m)' => Paced(m)'
                    /\ Alive(m)' /\ Alive(Other(m))' => Fed(m)'
                    /\ ~Alive(m)' => link'[m].nextSend = Delay
  BY DEF Keeping
<1>1. /\ Typed /\ Other(m) \in Machine
      /\ Alive(m)' <=> Alive(m)
      /\ Alive(Other(m))' <=> Alive(Other(m))
  BY Pairs DEF KeepingInv, Alive
<1>2. time[m][Other(m)] \in Nat
  BY <1>1, TypedParts, Pairs
<1>3. Alive(m)' => Paced(m)'
  BY <1>1, <1>2, StillPaced DEF KeepingInv, Keeping
<1>4. Alive(m)' /\ Alive(Other(m))' => Fed(m)'
  BY <1>1, StillFed DEF KeepingInv, Keeping
<1>5. QED
  BY <1>1, <1>3, <1>4 DEF KeepingInv, Keeping

\* What ends on one machine needs nothing there any more, and sends nothing more.
LEMMA EndsKeeps ==
    ASSUME KeepingInv, NEW m \in Machine, NEW failure, NEW told, Ends(m, failure, told),
           time' = time
    PROVE  Keeping'
<1>1. PICK o \in Machine : o = Other(m) /\ o # m /\ Other(o) = m /\ \A j \in Machine : j = m \/ j = o
  BY Pairs
<1>2. Typed /\ Keeping
  BY DEF KeepingInv
<1>3. link'[m] = LinkIn("ended", failure) /\ link'[o] = link[o]
  BY <1>1, <1>2 DEF Ends, Typed
<1>4. ~Alive(m)' /\ link'[m].nextSend = Delay
  BY <1>3 DEF Alive, LinkIn
<1>5. (Alive(o)' <=> Alive(o)) /\ time[o][m] \in Nat
  BY <1>1, <1>2, <1>3, TypedParts, Pairs DEF Alive
<1>6. Alive(o) => Paced(o)'
  BY <1>1, <1>2, <1>3, <1>5, StillPaced DEF Keeping
<1>7. ~Alive(o) => link'[o].nextSend = Delay
  BY <1>2, <1>3 DEF Keeping
<1>8. QED
  BY <1>1, <1>4, <1>5, <1>6, <1>7 DEF Keeping

\* A message reaches machine m: a frame goes into the inbox if it is still needed.
LEMMA ArrivesFed ==
    ASSUME Typed, NEW m \in Machine, Arrives(m), Alive(m), Paced(m), Paced(Other(m)),
           Fed(m), Fed(Other(m))
    PROVE  Fed(m)'
<1>1. /\ net[m] # <<>> /\ UNCHANGED <<link, time>> /\ net' = [net EXCEPT ![m] = Tail(net[m])]
      /\ \/ partner' = partner
         \/ partner' = [partner EXCEPT ![m].ended = TRUE]
         \/ /\ Head(net[m]).kind = "frame"
            /\ partner' = [partner EXCEPT ![m] = Pushed(partner[m], Head(net[m]))]
  BY ArrivesEffect
<1>2. PICK box \in Seq(Messages) : box = net[m] /\ box # <<>> /\ net'[m] = Tail(box)
  BY <1>1, TypedParts DEF Typed
<1>3. PICK msg \in Messages : msg = box[1] /\ msg = Head(box)
  BY <1>2
<1>4. \A i \in DOMAIN Tail(box) : i + 1 \in DOMAIN box /\ Tail(box)[i] = box[i + 1]
  BY <1>2
<1>5. \A i \in DOMAIN box : i = 1 \/ (i - 1 \in DOMAIN Tail(box) /\ Tail(box)[i - 1] = box[i])
  BY <1>2
<1>6. Needed(m)' = Needed(m)
  BY <1>1 DEF Needed, Frame, MidFrame
<1>7. PartnerTyped(partner[m]) /\ DOMAIN partner = Machine /\ Needed(m) \in Nat
  BY TypedParts, NeededTicks DEF Typed
<1>8. ASSUME msg.kind = "frame"
      PROVE  /\ partner'[m].applied = partner[m].applied
             /\ DOMAIN partner'[m].frames \subseteq DOMAIN partner[m].frames \union {msg.frame}
             /\ DOMAIN partner[m].frames \subseteq DOMAIN partner'[m].frames
             /\ msg.frame < Needed(m) \/ msg.frame \in DOMAIN partner'[m].frames
  <2>1. msg \in FrameMessages /\ msg.frame \in Nat
    BY <1>8 DEF Messages, Signs, FrameMessages
  <2>2. partner'[m] = Pushed(partner[m], msg)
    BY <1>1, <1>2, <1>3, <1>7, <1>8 DEF Arrives, Deliver, Alive
  <2>3. msg.frame < link[Other(m)].nextSend
    BY <1>2, <1>3, <1>8 DEF Fed
  <2>4. msg.frame <= partner[m].applied + MaxAhead
    BY <2>1, <2>3, InboxFits
  <2>5. partner[m].applied \in Nat /\ partner[m].applied <= Needed(m)
    BY <1>7 DEF Fed
  <2>6. CASE Pushed(partner[m], msg) = partner[m] /\ msg.frame < partner[m].applied
    BY <1>7, <2>1, <2>2, <2>5, <2>6
  <2>7. CASE Pushed(partner[m], msg) = [partner[m] EXCEPT !.frames = Put(@, msg.frame, msg)]
    <3>1. PICK frames : frames = Put(partner[m].frames, msg.frame, msg)
      OBVIOUS
    <3>2. DOMAIN frames = DOMAIN partner[m].frames \union {msg.frame}
      BY <3>1 DEF Put
    <3>3. partner'[m] = [partner[m] EXCEPT !.frames = frames]
      BY <2>2, <2>7, <3>1
    <3>4. partner'[m].frames = frames /\ partner'[m].applied = partner[m].applied
      BY <1>7, <3>3 DEF PartnerTyped
    <3>5. QED
      BY <3>2, <3>4
  <2>8. QED
    BY <2>1, <2>4, <2>5, <2>6, <2>7, WindowsAssumption DEF Pushed
<1>9. ASSUME msg.kind # "frame"
      PROVE  partner'[m].applied = partner[m].applied /\ partner'[m].frames = partner[m].frames
  BY <1>1, <1>2, <1>3, <1>7, <1>9 DEF PartnerTyped
<1>10. \A i \in DOMAIN net'[m] : net'[m][i].kind = "frame" =>
          net'[m][i].frame < link[Other(m)].nextSend
  BY <1>2, <1>4 DEF Fed
<1>11. partner'[m].applied = partner[m].applied
  BY <1>8, <1>9
<1>12. \A f \in DOMAIN partner'[m].frames : f < link[Other(m)].nextSend
  BY <1>2, <1>3, <1>8, <1>9 DEF Fed
<1>13. ASSUME NEW f \in Delay..(link[Other(m)].nextSend - 1)
       PROVE  Kept(m, f)'
  <2>1. Kept(m, f)
    BY <1>13 DEF Fed
  <2>2. CASE f < Needed(m)
    BY <1>6, <2>2 DEF Kept
  <2>3. CASE f \in DOMAIN partner[m].frames
    BY <1>8, <1>9, <2>3 DEF Kept
  <2>4. ASSUME NEW i \in DOMAIN box, box[i].kind = "frame", box[i].frame = f
        PROVE  Kept(m, f)'
    <3>1. CASE i = 1
      BY <1>3, <1>6, <1>8, <2>4, <3>1 DEF Kept
    <3>2. CASE i # 1
      <4>1. i - 1 \in DOMAIN net'[m] /\ net'[m][i - 1] = box[i]
        BY <1>2, <1>5, <3>2
      <4>2. QED
        BY <2>4, <4>1 DEF Kept
    <3>3. QED
      BY <3>1, <3>2
  <2>5. QED
    BY <1>2, <2>1, <2>2, <2>3, <2>4 DEF Kept
<1>14. link' = link /\ time' = time
  BY <1>1
<1>15. QED
  BY <1>6, <1>10, <1>11, <1>12, <1>13, <1>14 DEF Fed

LEMMA ArrivesKeeps ==
    ASSUME KeepingInv, NEW m \in Machine, Arrives(m)
    PROVE  Keeping'
<1>1. PICK o \in Machine : o = Other(m) /\ o # m /\ Other(o) = m /\ \A j \in Machine : j = m \/ j = o
  BY Pairs
<1>2. Typed /\ Keeping
  BY DEF KeepingInv
<1>3. /\ UNCHANGED <<link, time>> /\ net' = [net EXCEPT ![m] = Tail(net[m])]
      /\ partner'[o] = partner[o]
  <2>1. PICK p : p = Pushed(partner[m], Head(net[m]))
    OBVIOUS
  <2>2. \/ partner' = partner \/ partner' = [partner EXCEPT ![m].ended = TRUE]
        \/ partner' = [partner EXCEPT ![m] = p]
    BY <1>2, <2>1, ArrivesEffect
  <2>3. QED
    BY <1>1, <1>2, <2>2, ArrivesEffect DEF Typed
<1>4. net'[o] = net[o]
  BY <1>1, <1>2, <1>3 DEF Typed
<1>5. \A j \in Machine : Alive(j)' <=> Alive(j)
  BY <1>3 DEF Alive
<1>6. ASSUME NEW j \in Machine, Alive(j)
      PROVE  Paced(j)'
  <2>1. Other(j) \in Machine /\ time[j][Other(j)] \in Nat
    BY <1>2, TypedParts, Pairs
  <2>2. QED
    BY <1>2, <1>3, <1>6, <2>1, StillPaced DEF Keeping
<1>7. Alive(m) /\ Alive(o) => Fed(o)' /\ Fed(m)'
  <2>1. SUFFICES ASSUME Alive(m), Alive(o)
                 PROVE  Fed(o)' /\ Fed(m)'
    OBVIOUS
  <2>2. Paced(m) /\ Paced(o) /\ Fed(m) /\ Fed(o)
    BY <1>1, <1>2, <2>1 DEF Keeping
  <2>3. Fed(o)'
    BY <1>1, <1>2, <1>3, <1>4, <2>2, StillFed
  <2>4. QED
    BY <1>1, <1>2, <2>1, <2>2, <2>3, ArrivesFed
<1>8. QED
  BY <1>1, <1>2, <1>3, <1>5, <1>6, <1>7 DEF Keeping

\* A turn of the own console as the other machine sees it: whether it sends a frame
\* (message), and whether the console steps.
LocalOutcome(m, sends, steps, message) ==
    /\ sends <=> ~MidFrame(m, m) /\ ~link[m].prepared
    /\ link'[m].phase = link[m].phase /\ link'[Other(m)] = link[Other(m)]
    /\ link'[m].nextSend = link[m].nextSend + (IF sends THEN 1 ELSE 0)
    /\ link'[m].prepared <=> (sends \/ link[m].prepared) /\ ~(steps /\ CompletesFrame(m, m))
    /\ time'[m][m] = time[m][m] + (IF steps THEN 1 ELSE 0)
    /\ time'[m][Other(m)] = time[m][Other(m)] /\ time'[Other(m)] = time[Other(m)]
    /\ message \in Messages /\ message.kind = "frame" /\ message.frame = link[m].nextSend
    /\ net'[m] = net[m]
    /\ net'[Other(m)] = IF sends THEN Append(net[Other(m)], message) ELSE net[Other(m)]
    /\ partner' = partner

LEMMA LocalTurnOutcome ==
    ASSUME Typed, NEW m \in Machine, LocalTurn(m)
    PROVE  \E sends, steps \in BOOLEAN : \E message : LocalOutcome(m, sends, steps, message)
<1>1. PICK h, a, applied : h = Unmatched(Hashed(m)) /\ LocalEffect(m, h, a, applied)
  BY LocalTurnEffect
<1>2. partner' = partner
  BY LocalTurnEffect
<1>3. LinkTyped(h) /\ SamePlan(h, link[m])
  BY <1>1, HashedKeeps
<1>4. PICK o \in Machine : o = Other(m) /\ o # m
  BY Pairs
<1>5. /\ m \in Console /\ o \in Console /\ pad[m] \in Pads /\ Frame(m, m) \in Nat
      /\ net[o] \in Seq(Messages) /\ time[m][m] \in Nat
  BY <1>4, Pairs, TypedParts
<1>6. PICK sends \in BOOLEAN : sends <=> Prepares(m, h)
  OBVIOUS
<1>7. sends <=> ~MidFrame(m, m) /\ ~link[m].prepared
  BY <1>3, <1>6 DEF Prepares, SamePlan
<1>8. PICK message \in Messages :
          /\ message = FrameMessage(h, pad[m])
          /\ message.kind = "frame" /\ message.frame = link[m].nextSend
  <2>1. FrameMessage(h, pad[m]) \in Messages
    BY <1>3, <1>5, SendingTypes DEF Messages
  <2>2. FrameMessage(h, pad[m]).kind = "frame" /\ FrameMessage(h, pad[m]).frame = h.nextSend
    BY DEF FrameMessage
  <2>3. QED
    BY <1>3, <2>1, <2>2 DEF SamePlan
<1>9. /\ LinkTyped(a) /\ a.phase = link[m].phase
      /\ a.nextSend = link[m].nextSend + (IF sends THEN 1 ELSE 0)
      /\ a.prepared <=> sends \/ link[m].prepared
      /\ net'[m] = net[m] /\ net'[o] = IF sends THEN Append(net[o], message) ELSE net[o]
  <2>1. CASE sends
    <3>1. PICK f \in Nat : f = Frame(m, m)
      BY <1>5
    <3>2. /\ a = AfterSending(h, pad[m], f)
          /\ net' = [net EXCEPT ![o] = Append(@, message)]
      BY <1>1, <1>4, <1>6, <1>8, <2>1, <3>1, Zenon DEF LocalEffect
    <3>3. LinkTyped(a) /\ SentAndTaken(h, Outgoing(h, pad[m]), f, a)
      BY <1>3, <1>5, <3>2, SendingTypes
    <3>4. net'[m] = net[m] /\ net'[o] = Append(net[o], message)
      BY <1>4, <3>2 DEF Typed
    <3>5. QED
      BY <1>3, <2>1, <3>3, <3>4 DEF SentAndTaken, SamePlan
  <2>2. CASE ~sends
    <3>1. a = h /\ net' = net
      BY <1>1, <1>6, <2>2, Zenon DEF LocalEffect
    <3>2. link[m].nextSend \in Nat
      BY TypedParts DEF LinkTyped
    <3>3. QED
      BY <1>3, <2>2, <3>1, <3>2 DEF SamePlan
  <2>3. QED
    BY <2>1, <2>2
<1>10. CASE /\ Step(m, m, applied)
            /\ link' = [link EXCEPT ![m] =
                 [WithDue(a, m, time'[m][m]) EXCEPT !.prepared = @ /\ ~CompletesFrame(m, m)]]
  <2>1. PICK t \in Nat : t = time'[m][m] /\ t = time[m][m] + 1
    <3>1. time'[m][m] = time[m][m] + 1
      BY <1>5, <1>10 DEF Step, Typed
    <3>2. QED
      BY <1>5, <3>1
  <2>2. time'[m][o] = time[m][o] /\ time'[o] = time[o]
    BY <1>4, <1>5, <1>10 DEF Step, Typed
  <2>3. PICK d : d = WithDue(a, m, t)
    OBVIOUS
  <2>4. LinkTyped(d) /\ SamePlan(d, a)
    BY <1>5, <1>9, <2>3, WithDueKeeps
  <2>5. PICK going : going = (d.prepared /\ ~CompletesFrame(m, m))
    OBVIOUS
  <2>6. PICK l : l = [d EXCEPT !.prepared = going]
    OBVIOUS
  <2>7. l.phase = d.phase /\ l.nextSend = d.nextSend /\ l.prepared = going
    BY <2>4, <2>6 DEF LinkTyped, LinkFields
  <2>8. link' = [link EXCEPT ![m] = l]
    BY <1>10, <2>1, <2>3, <2>5, <2>6, Zenon
  <2>9. link'[m] = l /\ link'[o] = link[o]
    BY <1>4, <2>8 DEF Typed
  <2>10. /\ link'[m].phase = link[m].phase
         /\ link'[m].nextSend = link[m].nextSend + (IF sends THEN 1 ELSE 0)
         /\ link'[m].prepared <=> (sends \/ link[m].prepared) /\ ~CompletesFrame(m, m)
    BY <1>9, <2>4, <2>5, <2>7, <2>9 DEF SamePlan
  <2>11. LocalOutcome(m, sends, TRUE, message)
    BY <1>2, <1>4, <1>7, <1>8, <1>9, <2>1, <2>2, <2>9, <2>10 DEF LocalOutcome
  <2>12. QED
    BY <2>11
<1>11. CASE link' = [link EXCEPT ![m] = a] /\ time' = time
  <2>1. link'[m] = a /\ link'[o] = link[o]
    BY <1>4, <1>11 DEF Typed
  <2>2. LocalOutcome(m, sends, FALSE, message)
    BY <1>2, <1>4, <1>5, <1>7, <1>8, <1>9, <1>11, <2>1 DEF LocalOutcome
  <2>3. QED
    BY <2>2
<1>12. QED
  BY <1>1, <1>10, <1>11 DEF LocalEffect

LEMMA LocalTurnPaced ==
    ASSUME Typed, NEW m \in Machine, Paced(m), Runs(m, m),
           NEW sends \in BOOLEAN, NEW steps \in BOOLEAN, NEW message,
           LocalOutcome(m, sends, steps, message)
    PROVE  Paced(m)'
<1>1. PICK n \in Nat \ {0} : n = FrameTicks[m]
  BY TicksAssumption DEF Machine
<1>2. PICK t \in Nat, u \in Nat : t = time[m][m] /\ u = time[m][Other(m)]
  BY TypedParts, Pairs
<1>3. PICK r \in Nat : r = Sent(m)
  BY DEF Paced
<1>4. PICK q \in Nat : q = r + (IF sends THEN 1 ELSE 0)
  OBVIOUS
<1>5. Sent(m)' = q
  <2>1. link[m].nextSend \in Nat
    BY TypedParts DEF LinkTyped
  <2>2. QED
    BY <1>3, <1>4, <2>1, DelayAssumption DEF Sent, LocalOutcome
<1>6. \A a \in Int : (a - 1) * n = a * n - n /\ (a + 1) * n = a * n + n /\ a * n \in Int
  OBVIOUS
<1>7. /\ ~link[m].prepared => t = r * n
      /\ link[m].prepared => (r - 1) * n <= t /\ t < r * n
  BY <1>1, <1>2, <1>3 DEF Paced
<1>8. ~link[m].prepared => sends
  <2>1. \A a \in Nat : (a * n) % n = 0
    OBVIOUS
  <2>2. QED
    BY <1>1, <1>2, <1>7, <2>1 DEF LocalOutcome, MidFrame
<1>9. (q - 1) * n <= t /\ t < q * n
  <2>1. CASE sends
    <3>1. t = r * n /\ q = r + 1
      BY <1>4, <1>7, <2>1 DEF LocalOutcome
    <3>2. QED
      BY <1>6, <3>1
  <2>2. CASE ~sends
    BY <1>4, <1>7, <1>8, <2>2
  <2>3. QED
    BY <2>1, <2>2
<1>10. (q - 1) * n + Late(m) <= u
  <2>1. CASE sends
    <3>1. t = r * n /\ q - 1 = r
      BY <1>4, <1>7, <2>1 DEF LocalOutcome
    <3>2. t + Late(m) <= u
      BY <1>2 DEF Runs, NextConsole, Late, Other, Machine, Console
    <3>3. QED
      BY <3>1, <3>2
  <2>2. CASE ~sends
    BY <1>1, <1>2, <1>3, <1>4, <2>2 DEF Paced
  <2>3. QED
    BY <2>1, <2>2
<1>11. CompletesFrame(m, m) <=> t + 1 = q * n
  <2>1. (t + 1) % n = 0 <=> t + 1 = q * n
    <3>1. q \in Int
      OBVIOUS
    <3>2. QED
      BY <1>9, <3>1, Within, Zenon
  <2>2. CompletesFrame(m, m) <=> (t + 1) % n = 0
    BY <1>1, <1>2 DEF CompletesFrame
  <2>3. QED
    BY <2>1, <2>2
<1>12. /\ link'[m].prepared <=> ~(steps /\ CompletesFrame(m, m))
       /\ time'[m][m] = t + (IF steps THEN 1 ELSE 0) /\ time'[m][Other(m)] = u
  BY <1>2, <1>8 DEF LocalOutcome
<1>13. PICK x \in Int, y \in Int : x = (q - 1) * n /\ y = q * n
  OBVIOUS
<1>14. /\ link'[m].prepared => x <= time'[m][m] /\ time'[m][m] < y
       /\ ~link'[m].prepared => time'[m][m] = y
  BY <1>9, <1>11, <1>12, <1>13
<1>15. QED
  BY <1>1, <1>5, <1>10, <1>12, <1>13, <1>14 DEF Paced, Late

\* The frame that machine m sends is on its way to the other.
LEMMA LocalTurnFeeds ==
    ASSUME Typed, NEW m \in Machine, Fed(Other(m)),
           NEW sends \in BOOLEAN, NEW steps \in BOOLEAN, NEW message,
           LocalOutcome(m, sends, steps, message)
    PROVE  Fed(Other(m))'
<1>1. PICK o \in Machine : o = Other(m) /\ o # m /\ Other(o) = m
  BY Pairs
<1>2. PICK sent \in Nat : sent = link[m].nextSend
  BY TypedParts DEF LinkTyped
<1>3. PICK n \in Nat \ {0} : n = FrameTicks[m]
  BY TicksAssumption DEF Machine
<1>4. time'[o] = time[o] /\ partner' = partner
  BY <1>1 DEF LocalOutcome
<1>5. Needed(o)' = Needed(o)
  BY <1>1, <1>4 DEF Needed, Frame, MidFrame
<1>6. PICK box \in Seq(Messages) : box = net[o]
  BY TypedParts
<1>7. CASE ~sends
  <2>1. link'[m].nextSend = link[m].nextSend /\ net'[o] = net[o]
    BY <1>1, <1>2, <1>7 DEF LocalOutcome
  <2>2. QED
    BY <1>1, <1>4, <2>1, StillFed
<1>8. CASE sends
  <2>1. /\ link'[m].nextSend = sent + 1 /\ net'[o] = Append(box, message)
        /\ message \in Messages /\ message.kind = "frame" /\ message.frame = sent
    BY <1>1, <1>2, <1>6, <1>8 DEF LocalOutcome
  <2>2. PICK more : more = Append(box, message)
    OBVIOUS
  <2>3. /\ \A i \in DOMAIN box : i \in DOMAIN more /\ more[i] = box[i]
        /\ Len(box) + 1 \in DOMAIN more /\ more[Len(box) + 1] = message
        /\ \A i \in DOMAIN more : i \in DOMAIN box \/ more[i] = message
    BY <2>1, <2>2
  <2>4. time'[o][m] <= (sent + 1) * n
    <3>1. (sent + 1) * n = sent * n + n /\ sent * n \in Nat
      OBVIOUS
    <3>2. time[o][m] <= sent * n /\ time[o][m] \in Nat
      BY <1>1, <1>2, <1>3, TypedParts, Pairs DEF Fed
    <3>3. QED
      BY <1>4, <3>1, <3>2
  <2>5. \A f \in DOMAIN partner[o].frames : f < sent + 1
    <3>1. \A f \in DOMAIN partner[o].frames : f \in Nat /\ f < sent
      BY <1>1, <1>2, TypedParts DEF Fed, PartnerTyped
    <3>2. QED
      BY <3>1
  <2>6. \A i \in DOMAIN more : more[i].kind = "frame" => more[i].frame < sent + 1
    <3>1. \A i \in DOMAIN box : box[i].kind = "frame" => box[i].frame \in Nat /\ box[i].frame < sent
      BY <1>1, <1>2, <1>6 DEF Fed, Messages, FrameMessages, Signs
    <3>2. QED
      BY <2>1, <2>3, <3>1
  <2>7. ASSUME NEW f \in Delay..sent
        PROVE  Kept(o, f)'
    <3>1. CASE f = sent
      BY <2>1, <2>2, <2>3, <3>1 DEF Kept
    <3>2. CASE f # sent
      <4>1. f \in Delay..(sent - 1)
        BY <2>7, <3>2, DelayAssumption
      <4>2. Kept(o, f)
        BY <1>1, <1>2, <4>1 DEF Fed
      <4>3. QED
        BY <1>4, <1>5, <1>6, <2>1, <2>2, <2>3, <4>2 DEF Kept
    <3>3. QED
      BY <3>1, <3>2
  <2>8. sent + 1 - 1 = sent
    OBVIOUS
  <2>9. QED
    BY <1>1, <1>3, <1>4, <1>5, <2>1, <2>2, <2>4, <2>5, <2>6, <2>7, <2>8 DEF Fed
<1>9. QED
  BY <1>7, <1>8

LEMMA LocalTurnKeeps ==
    ASSUME KeepingInv, NEW m \in Machine, LocalTurn(m)
    PROVE  Keeping'
<1>1. PICK o \in Machine : o = Other(m) /\ o # m /\ Other(o) = m /\ \A j \in Machine : j = m \/ j = o
  BY Pairs
<1>2. Typed /\ Keeping
  BY DEF KeepingInv
<1>3. PICK sends \in BOOLEAN, steps \in BOOLEAN :
          \E message : LocalOutcome(m, sends, steps, message)
  BY <1>2, LocalTurnOutcome
<1>0. PICK message : LocalOutcome(m, sends, steps, message)
  BY <1>3
<1>4. Runs(m, m) /\ Alive(m) /\ Paced(m)
  BY <1>2 DEF LocalTurn, Runs, Alive, Keeping
<1>5. /\ Alive(m)' /\ (Alive(o)' <=> Alive(o)) /\ link'[o] = link[o]
      /\ time'[o] = time[o] /\ time'[m][o] = time[m][o] /\ net'[m] = net[m] /\ partner' = partner
  BY <1>1, <1>0, <1>4 DEF LocalOutcome, Alive
<1>6. Paced(m)'
  BY <1>2, <1>0, <1>4, LocalTurnPaced
<1>7. Alive(o) => Paced(o)'
  <2>1. time[o][m] \in Nat
    BY <1>1, <1>2, TypedParts, Pairs
  <2>2. QED
    BY <1>1, <1>2, <1>5, <2>1, StillPaced DEF Keeping
<1>8. Alive(o) => Fed(o)'
  BY <1>1, <1>2, <1>0, <1>4, LocalTurnFeeds DEF Keeping
<1>9. Alive(o) => Fed(m)'
  BY <1>1, <1>2, <1>4, <1>5, StillFed DEF Keeping
<1>10. ~Alive(o) => link'[o].nextSend = Delay
  BY <1>2, <1>5 DEF Keeping
<1>11. QED
  BY <1>1, <1>5, <1>6, <1>7, <1>8, <1>9, <1>10 DEF Keeping

\* A tick of the partner's console: the inbox may have given a frame for it.
PartnerOutcome(m, p) ==
    /\ link'[m].phase = link[m].phase /\ link'[Other(m)] = link[Other(m)]
    /\ link'[m].nextSend = link[m].nextSend /\ link'[m].prepared = link[m].prepared
    /\ time'[m][Other(m)] = time[m][Other(m)] + 1
    /\ time'[m][m] = time[m][m] /\ time'[Other(m)] = time[Other(m)]
    /\ partner'[m] = p /\ partner'[Other(m)] = partner[Other(m)]
    /\ net' = net

LEMMA PartnerStepOutcome ==
    ASSUME Typed, NEW m \in Machine, NEW applied, Step(m, Other(m), applied),
           NEW a, LinkTyped(a), SamePlan(a, link[m]),
           link' = [link EXCEPT ![m] = WithDue(a, Other(m), time'[m][Other(m)])],
           NEW p, partner'[m] = p, partner'[Other(m)] = partner[Other(m)], net' = net
    PROVE  PartnerOutcome(m, p)
<1>1. PICK o \in Machine : o = Other(m) /\ o # m /\ o \in Console /\ m \in Console
  BY Pairs
<1>2. PICK t \in Nat : t = time'[m][o] /\ t = time[m][o] + 1
  <2>1. time[m][o] \in Nat
    BY <1>1, TypedParts
  <2>2. QED
    BY <1>1, <2>1 DEF Step, Typed
<1>3. time'[m][m] = time[m][m] /\ time'[o] = time[o]
  BY <1>1 DEF Step, Typed
<1>4. PICK l : l = WithDue(a, o, t)
  OBVIOUS
<1>5. SamePlan(l, a)
  BY <1>1, <1>4, WithDueKeeps
<1>6. link'[m] = l /\ link'[o] = link[o]
  BY <1>1, <1>2, <1>4 DEF Typed
<1>7. QED
  BY <1>1, <1>2, <1>3, <1>5, <1>6 DEF PartnerOutcome, SamePlan

\* What a tick of the partner's console leaves to show: what machine m itself receives.
LEMMA PartnerTurnKeeps ==
    ASSUME KeepingInv, NEW m \in Machine, Alive(m), NEW p, PartnerOutcome(m, p),
           Alive(Other(m)) => Fed(m)'
    PROVE  Keeping'
<1>1. PICK o \in Machine : o = Other(m) /\ o # m /\ Other(o) = m /\ \A j \in Machine : j = m \/ j = o
  BY Pairs
<1>2. Typed /\ Keeping
  BY DEF KeepingInv
<1>3. Alive(m)' /\ (Alive(o)' <=> Alive(o))
  BY <1>1 DEF PartnerOutcome, Alive
<1>4. Paced(m)'
  <2>1. time[m][o] \in Nat
    BY <1>1, <1>2, TypedParts, Pairs
  <2>2. time'[m][o] \in Nat /\ time'[m][o] >= time[m][o]
    BY <1>1, <2>1 DEF PartnerOutcome
  <2>3. QED
    BY <1>1, <1>2, <2>2, StillPaced DEF PartnerOutcome, Keeping
<1>5. Alive(o) => Paced(o)'
  <2>1. time[o][m] \in Nat
    BY <1>1, <1>2, TypedParts, Pairs
  <2>2. QED
    BY <1>1, <1>2, <2>1, StillPaced DEF PartnerOutcome, Keeping
<1>6. Alive(o) => Fed(o)'
  BY <1>1, <1>2, StillFed DEF PartnerOutcome, Keeping
<1>7. ~Alive(o) => link'[o].nextSend = Delay
  BY <1>1, <1>2 DEF PartnerOutcome, Keeping
<1>8. QED
  BY <1>1, <1>3, <1>4, <1>5, <1>6, <1>7 DEF Keeping

LEMMA PartnerContinuesKeeps ==
    ASSUME KeepingInv, NEW m \in Machine, PartnerContinues(m)
    PROVE  Keeping'
<1>1. PICK o \in Machine : o = Other(m) /\ o # m /\ Other(o) = m
  BY Pairs
<1>2. Typed /\ Keeping
  BY DEF KeepingInv
<1>3. Alive(m) /\ MidFrame(m, o)
  BY <1>1 DEF PartnerContinues, Runs, Alive
<1>4. PartnerOutcome(m, partner[m])
  <2>1. PICK a : a = Unmatched(Hashed(m))
    OBVIOUS
  <2>2. LinkTyped(a) /\ SamePlan(a, link[m])
    BY <1>2, <2>1, HashedKeeps
  <2>3. /\ Step(m, o, <<>>) /\ link' = [link EXCEPT ![m] = WithDue(a, o, time'[m][o])]
        /\ partner' = partner /\ net' = net
    BY <1>1, <2>1 DEF PartnerContinues
  <2>4. QED
    BY <1>1, <1>2, <2>2, <2>3, PartnerStepOutcome
<1>5. ASSUME Alive(o)
      PROVE  Fed(m)'
  <2>1. Fed(m)
    BY <1>1, <1>2, <1>3, <1>5 DEF Keeping
  <2>2. PICK n \in Nat \ {0}, t \in Nat : n = FrameTicks[o] /\ t = time[m][o]
    BY <1>1, <1>2, TicksAssumption, TypedParts, Pairs
  <2>3. PICK sent \in Nat : sent = link[o].nextSend
    BY <1>2, TypedParts DEF LinkTyped
  <2>4. t + 1 <= sent * n
    <3>1. t <= sent * n /\ sent * n \in Nat
      BY <1>1, <2>1, <2>2, <2>3 DEF Fed
    <3>2. (sent * n) % n = 0 /\ t % n # 0
      BY <1>3, <2>2 DEF MidFrame
    <3>3. QED
      BY <3>1, <3>2
  <2>5. /\ link'[o] = link[o] /\ time'[m][o] = t + 1 /\ net' = net
        /\ partner'[m] = partner[m]
    BY <1>1, <1>4, <2>2 DEF PartnerOutcome
  <2>6. Needed(m)' = Needed(m)
    BY <1>1, <1>2, <1>3, <2>2, <2>5, NeededNext
  <2>7. \A f : Kept(m, f) => Kept(m, f)'
    BY <2>5, <2>6 DEF Kept
  <2>8. QED
    BY <1>1, <2>1, <2>2, <2>3, <2>4, <2>5, <2>6, <2>7 DEF Fed
<1>6. QED
  BY <1>1, <1>3, <1>4, <1>5, PartnerTurnKeeps

\* A frame of the partner's console begins: it was sent, and those before it are moot.
LEMMA BeginsFed ==
    ASSUME Typed, NEW m \in Machine, Fed(m), Paced(Other(m)), ~MidFrame(m, Other(m)),
           Frame(m, Other(m)) >= Delay => Frame(m, Other(m)) \in DOMAIN partner[m].frames,
           PartnerOutcome(m, IF Frame(m, Other(m)) < Delay THEN partner[m]
                             ELSE Taken(partner[m], Frame(m, Other(m))))
    PROVE  Fed(m)'
<1>1. PICK o \in Machine : o = Other(m) /\ o # m /\ Other(o) = m
  BY Pairs
<1>2. PICK n \in Nat \ {0}, t \in Nat : n = FrameTicks[o] /\ t = time[m][o]
  BY <1>1, TicksAssumption, TypedParts, Pairs
<1>3. PICK frame \in Nat : frame = Frame(m, o) /\ frame = Needed(m) /\ t = frame * n
  BY <1>1, <1>2, NeededTicks
<1>4. PICK sent \in Nat : sent = link[o].nextSend /\ Delay <= sent
  <2>1. link[o].nextSend \in Nat /\ Sent(o) \in Nat
    BY <1>1, TypedParts DEF LinkTyped, Paced
  <2>2. QED
    BY <2>1, DelayAssumption DEF Sent
<1>5. PICK old : old = partner[m] /\ PartnerTyped(old)
  BY TypedParts
<1>6. /\ link'[o] = link[o] /\ time'[m][o] = t + 1 /\ net' = net
      /\ partner'[m] = IF frame < Delay THEN old ELSE Taken(old, frame)
  BY <1>1, <1>2, <1>3, <1>5 DEF PartnerOutcome
<1>7. Needed(m)' = frame + 1
  BY <1>1, <1>2, <1>3, <1>6, NeededNext
<1>8. frame < sent
  BY <1>1, <1>3, <1>4, <1>5, DelayAssumption DEF Fed
<1>9. t + 1 <= sent * n
  <2>1. (frame + 1) * n = frame * n + n /\ \A a, b \in Int : a < b <=> a * n < b * n
    OBVIOUS
  <2>2. ~(sent * n < (frame + 1) * n)
    BY <1>8, <2>1
  <2>3. QED
    BY <1>3, <2>1, <2>2
<1>10. /\ DOMAIN partner'[m].frames \subseteq DOMAIN old.frames
       /\ \A f \in DOMAIN old.frames : f > frame => f \in DOMAIN partner'[m].frames
       /\ partner'[m].applied = IF frame + 1 <= Delay THEN 0 ELSE frame + 1
  <2>1. CASE frame < Delay
    <3>1. old.applied = 0
      BY <1>3, <1>5, <2>1, DelayAssumption DEF Fed
    <3>2. QED
      BY <1>6, <2>1, <3>1, DelayAssumption
  <2>2. CASE frame >= Delay
    <3>1. PICK later : later = {f \in DOMAIN old.frames : f > frame}
      OBVIOUS
    <3>2. PICK frames : frames = Restrict(old.frames, later)
      OBVIOUS
    <3>3. partner'[m] = [old EXCEPT !.frames = frames, !.applied = frame + 1]
      <4>1. Taken(old, frame) = [old EXCEPT !.frames = frames, !.applied = frame + 1]
        BY <3>1, <3>2, Zenon DEF Taken
      <4>2. QED
        BY <1>6, <2>2, <4>1, DelayAssumption
    <3>4. DOMAIN frames = later
      BY <3>1, <3>2 DEF Restrict
    <3>5. partner'[m].frames = frames /\ partner'[m].applied = frame + 1
      BY <1>5, <3>3 DEF PartnerTyped
    <3>6. QED
      BY <2>2, <3>1, <3>4, <3>5, DelayAssumption
  <2>3. QED
    BY <2>1, <2>2, DelayAssumption
<1>11. ASSUME NEW f \in Delay..(sent - 1)
       PROVE  Kept(m, f)'
  <2>1. Kept(m, f)
    BY <1>1, <1>4, <1>11 DEF Fed
  <2>2. CASE f <= frame
    BY <1>7, <1>11, <2>2, DelayAssumption DEF Kept
  <2>3. CASE f > frame
    BY <1>3, <1>5, <1>6, <1>10, <1>11, <2>1, <2>3, DelayAssumption DEF Kept
  <2>4. QED
    BY <1>11, <2>2, <2>3, DelayAssumption
<1>12. \A f \in DOMAIN partner'[m].frames : f < sent
  BY <1>1, <1>4, <1>5, <1>10 DEF Fed
<1>13. \A i \in DOMAIN net'[m] : net'[m][i].kind = "frame" => net'[m][i].frame < sent
  BY <1>1, <1>4, <1>6 DEF Fed
<1>14. QED
  BY <1>1, <1>2, <1>4, <1>6, <1>7, <1>9, <1>10, <1>11, <1>12, <1>13 DEF Fed

LEMMA PartnerBeginsKeeps ==
    ASSUME KeepingInv, NEW m \in Machine, PartnerBegins(m)
    PROVE  Keeping'
<1>1. PICK o \in Machine : o = Other(m) /\ o # m /\ Other(o) = m
  BY Pairs
<1>2. Typed /\ Keeping
  BY DEF KeepingInv
<1>3. PICK frame \in Nat : frame = Frame(m, o)
  BY <1>1, <1>2, TypedParts, Pairs
<1>4. PICK filled \in BOOLEAN : filled <=> frame < Delay
  OBVIOUS
<1>5. PICK events, hashes :
        /\ events = IF filled THEN <<HeldInput>> ELSE partner[m].frames[frame].events
        /\ hashes = IF filled THEN {} ELSE partner[m].frames[frame].hash
  OBVIOUS
<1>6. PICK l : l = WithReceived(Unmatched(Hashed(m)), hashes)
  OBVIOUS
<1>7. PICK a : a = IF hashes = {} THEN l ELSE Unmatched(l)
  OBVIOUS
<1>8. PICK p : p = IF filled THEN partner[m] ELSE Taken(partner[m], frame)
  OBVIOUS
<1>9. /\ Runs(m, o) /\ ~MidFrame(m, o)
      /\ filled \/ frame \in DOMAIN partner[m].frames
      /\ \/ Fails(m, "mismatch") /\ time' = time
         \/ /\ Step(m, o, Applied(o, events))
            /\ link' = [link EXCEPT ![m] = WithDue(a, o, time'[m][o])]
            /\ partner' = [partner EXCEPT ![m] = p]
            /\ net' = net
  BY <1>1, <1>3, <1>4, <1>5, <1>6, <1>7, <1>8, Zenon DEF PartnerBegins
<1>10. LinkTyped(a) /\ SamePlan(a, link[m])
  <2>1. LinkTyped(l) /\ SamePlan(l, link[m])
    BY <1>2, <1>6, HashedKeeps, WithReceivedKeeps DEF SamePlan
  <2>2. QED
    BY <1>7, <2>1, UnmatchedKeeps DEF SamePlan
<1>11. CASE Fails(m, "mismatch") /\ time' = time
  BY <1>11, EndsKeeps DEF Fails
<1>12. CASE /\ Step(m, o, Applied(o, events))
            /\ link' = [link EXCEPT ![m] = WithDue(a, o, time'[m][o])]
            /\ partner' = [partner EXCEPT ![m] = p]
            /\ net' = net
  <2>1. PartnerOutcome(m, p)
    <3>1. partner'[m] = p /\ partner'[o] = partner[o]
      BY <1>1, <1>2, <1>12 DEF Typed
    <3>2. QED
      BY <1>1, <1>2, <1>10, <1>12, <3>1, PartnerStepOutcome
  <2>2. Alive(m) /\ ~MidFrame(m, o)
    BY <1>9 DEF Runs, Alive
  <2>3. p = IF frame < Delay THEN partner[m] ELSE Taken(partner[m], frame)
    BY <1>4, <1>8
  <2>4. frame >= Delay => frame \in DOMAIN partner[m].frames
    BY <1>4, <1>9, DelayAssumption
  <2>5. Alive(o) => Fed(m)'
    BY <1>1, <1>2, <1>3, <2>1, <2>2, <2>3, <2>4, BeginsFed DEF Keeping
  <2>6. QED
    BY <1>1, <2>1, <2>2, <2>5, PartnerTurnKeeps
<1>13. QED
  BY <1>9, <1>11, <1>12

LEMMA KeepingStep ==
    ASSUME KeepingInv, [Next]_vars
    PROVE  KeepingInv'
<1>1. Typed /\ Typed'
  BY NextTypes DEF KeepingInv
<1>2. CASE UNCHANGED vars
  BY <1>1, <1>2, QuietKeeps DEF KeepingInv, vars
<1>3. ASSUME NEW m \in Machine,
             ThreadStep(m) \/ Stall(m) \/ Deliver(m) \/ HearLeft(m) \/ Unplug(m) \/ Leave(m)
             \/ Press(m) \/ WriteOrReset(m) \/ Pause(m) \/ Resume(m) \/ Stray(m)
      PROVE  Keeping'
  <2>1. \/ LocalTurn(m) \/ PartnerContinues(m) \/ PartnerBegins(m)
        \/ EndsAnyhow(m) \/ Arrives(m) \/ Idles(m) \/ WriteOrReset(m) \/ Stray(m)
    BY <1>3, Zenon DEF ThreadStep, EndsAnyhow, Arrives, Idles
  <2>2. CASE EndsAnyhow(m)
    <3>1. PICK failure, told : Ends(m, failure, told) /\ time' = time
      BY <2>2, EndsAnyhowEffect
    <3>2. QED
      BY <3>1, EndsKeeps
  <2>3. CASE Idles(m)
    BY <1>1, <2>3, IdlesEffect, QuietKeeps
  <2>4. CASE WriteOrReset(m)
    <3>1. PICK event \in {"write", "reset"} :
            link' = [link EXCEPT ![m] = Schedule(link[m], event)]
      BY <1>1, <2>4, WriteOrResetEffect
    <3>2. PICK l : l = Schedule(link[m], event)
      OBVIOUS
    <3>3. /\ l.phase = link[m].phase /\ l.nextSend = link[m].nextSend
          /\ l.prepared = link[m].prepared
      BY <1>1, <3>2, ScheduleTypes, TypedParts
    <3>4. \A j \in Machine : link'[j] = IF j = m THEN l ELSE link[j]
      BY <1>1, <3>1, <3>2 DEF Typed
    <3>5. QED
      BY <1>1, <2>4, <3>3, <3>4, WriteOrResetEffect, QuietKeeps
  <2>5. CASE Stray(m)
    BY <2>5, QuietKeeps DEF Stray
  <2>6. QED
    BY <2>1, <2>2, <2>3, <2>4, <2>5, LocalTurnKeeps, PartnerContinuesKeeps, PartnerBeginsKeeps,
       ArrivesKeeps
<1>4. QED
  BY <1>1, <1>2, <1>3 DEF Next, KeepingInv

LEMMA InitKeeping ==
    ASSUME Init
    PROVE  Keeping
<1> SUFFICES ASSUME NEW m \in Machine
             PROVE  Alive(m) /\ Paced(m) /\ Fed(m)
  BY DEF Keeping
<1>1. PICK o \in Machine : o = Other(m) /\ m \in Console /\ o \in Console
  BY Pairs
<1>2. PICK n \in Nat \ {0}, k \in Nat \ {0} : n = FrameTicks[o] /\ k = FrameTicks[m]
  BY <1>1, TicksAssumption
<1>3. /\ link[m] = LinkIn("starting", "none") /\ link[o] = LinkIn("starting", "none")
      /\ partner[m] = NoFrames /\ net[m] = <<>> /\ time[m][m] = 0 /\ time[m][o] = 0
  BY <1>1 DEF Init
<1>4. /\ link[m].nextSend = Delay /\ link[o].nextSend = Delay /\ link[m].prepared = FALSE
      /\ link[m].phase = "starting" /\ partner[m].frames = <<>> /\ partner[m].applied = 0
  BY <1>3 DEF LinkIn, NoFrames
<1>5. Sent(m) = 0 /\ (0 - 1) * k = 0 - k /\ 0 * k = 0 /\ Delay * n \in Nat
  BY <1>4, DelayAssumption DEF Sent
<1>6. Paced(m)
  BY <1>1, <1>2, <1>3, <1>4, <1>5 DEF Paced, Late
<1>7. Needed(m) = 0
  <2>1. 0 \div n = 0 /\ 0 % n = 0
    OBVIOUS
  <2>2. QED
    BY <1>1, <1>2, <1>3, <2>1 DEF Needed, Frame, MidFrame
<1>8. Fed(m)
  <2>1. Delay..(Delay - 1) = {}
    BY DelayAssumption
  <2>2. QED
    BY <1>1, <1>2, <1>3, <1>4, <1>5, <1>7, <2>1, DelayAssumption DEF Fed
<1>9. QED
  BY <1>4, <1>6, <1>8 DEF Alive

\* What was sent and is still needed is kept on every machine that takes part.
LEMMA KeepingKept ==
    ASSUME KeepingInv
    PROVE  NothingDropped
<1> SUFFICES ASSUME NEW m \in Machine, Alive(m),
                    NEW f \in Delay..(link[Other(m)].nextSend - 1)
             PROVE  Kept(m, f)
  BY DEF NothingDropped, Kept, Alive
<1>1. Other(m) \in Machine /\ Typed /\ Keeping
  BY Pairs DEF KeepingInv
<1>2. CASE Alive(Other(m))
  BY <1>1, <1>2 DEF Keeping, Fed
<1>3. CASE ~Alive(Other(m))
  <2>1. link[Other(m)].nextSend = Delay
    BY <1>1, <1>3 DEF Keeping
  <2>2. QED
    BY <2>1, DelayAssumption
<1>4. QED
  BY <1>2, <1>3

\* Neither machine runs ahead of what it hears, and no frame is lost on the way.
THEOREM AlwaysKeeping == Spec => []KeepingInv
<1>1. Init => KeepingInv
  BY InitTypes, InitKeeping DEF KeepingInv
<1>2. KeepingInv /\ [Next]_vars => KeepingInv'
  BY KeepingStep
<1>3. QED
  BY <1>1, <1>2, PTL DEF Spec

\* LinkInbox::push drops no frame that is needed, neither as old nor as too far ahead:
\* whatever the delay and the lengths of the frames, as long as the inbox holds what the
\* delay lets a machine send (AheadAssumption).
THEOREM NothingIsDropped == Spec => []NothingDropped
<1>1. KeepingInv => NothingDropped
  BY KeepingKept
<1>2. QED
  BY <1>1, AlwaysKeeping, PTL

-----------------------------------------------------------------------------
(* The pair hashes. A hash is one of the beginning of the trace, and the   *)
(* frame that carries it, the one that meets it and the one that is late   *)
(* are all told from link times: the link remembers as many hashes as      *)
(* there can be between a machine and what it hears from the other.        *)

\* The ticks from one pair hash to the next: number j is taken after j * Apart of them.
Apart == Interval * FrameTicks["first"]

StraysIn(s) == {i \in DOMAIN s : "stray" \in DOMAIN s[i]}

\* How often the second console stepped in trace s, and that it did last.
SecondStep == [console |-> "second", step |-> TRUE]
Steps(s) == Cardinality({i \in DOMAIN s : s[i] = SecondStep})
Ticked(s) == s # <<>> /\ s[Len(s)] = SecondStep

\* Machine m's trace s, at times t: the consoles are abreast, the second stepped as often
\* as it says, and what strayed did so on m, in a frame that was begun.
Told(m, s, t) ==
    /\ t["second"] <= t["first"] /\ t["first"] <= t["second"] + 1
    /\ Steps(s) = t["second"]
    /\ \A i \in StraysIn(s) :
          /\ s[i].on = m
          /\ s[i].stray * FrameTicks["first"] <= t["first"]

\* A pair hash is one of the beginning of the trace: all that had strayed before its frame
\* is in it, and unless something had, it ends where the second console has caught up.
Honest(h, s, t) ==
    /\ h.frame * FrameTicks["first"] <= t["second"]
    /\ Len(h.of) <= Len(s) /\ \A i \in 1..Len(h.of) : h.of[i] = s[i]
    /\ \A i \in StraysIn(s) : s[i].stray < h.frame => i <= Len(h.of)
    /\ StraysIn(s) = {} => Ticked(h.of) /\ Steps(h.of) = h.frame * FrameTicks["first"]

\* The link l of machine m has taken c hashes, and another one is due or not;
Counts(m, l, c, s, t) ==
    IF l.due = {}
    THEN c * Apart <= t["second"] /\ t["first"] < (c + 1) * Apart
    ELSE /\ l.due = {Interval * (c + 1)} /\ t["first"] = (c + 1) * Apart
         /\ (l.nextSend - Delay - 1) * FrameTicks[m] < t["first"]
         /\ t["second"] = t["first"] /\ StraysIn(s) = {} => Ticked(s)

\* it remembers the newest of them;
Newly(hashes, c) == hashes \in Seq(Hash) /\ Len(hashes) = IF c < Window THEN c ELSE Window
Remembers(l, c, s, t) ==
    /\ Newly(l.computed, c)
    /\ \A i \in DOMAIN l.computed :
          /\ l.computed[i].frame = Interval * (c - Len(l.computed) + i)
          /\ Honest(l.computed[i], s, t)

\* and the last one is still to be sent, if it was taken since the last frame was.
Holds(m, l, c, s, t) ==
    IF c > 0 /\ c * Apart > (l.nextSend - Delay - 1) * FrameTicks[m]
    THEN \E h \in Hash : l.pending = {h} /\ h.frame = Interval * c /\ Honest(h, s, t)
    ELSE l.pending = {}

Hashing(m, l, c, s, t) ==
    Counts(m, l, c, s, t) /\ Remembers(l, c, s, t) /\ Holds(m, l, c, s, t) /\ l.received = {}

\* Hash number j goes with the frame that console o's machine sends at its frame r.
Carries(o, r, j) == (r - 1) * FrameTicks[o] < j * Apart /\ j * Apart <= r * FrameTicks[o]

Number == Nat \ {0}

\* A frame of console o comes with the hash that goes with it, and with no other.
Reports(msg, o, s, t) ==
    /\ \A h \in msg.hash : /\ Honest(h, s, t)
                           /\ \E j \in Number : h.frame = Interval * j
                                                 /\ Carries(o, msg.frame - Delay, j)
    /\ \A j \in Number : Carries(o, msg.frame - Delay, j) =>
                            \E h \in msg.hash : h.frame = Interval * j

\* The frames that machine m has, or that are on their way to it.
Coming(m) ==
    {partner[m].frames[f] : f \in DOMAIN partner[m].frames}
    \union {net[m][i] : i \in {j \in DOMAIN net[m] : net[m][j].kind = "frame"}}

Reported(m) ==
    \A msg \in Coming(m) : Reports(msg, Other(m), trace[Other(m)], time[Other(m)])

\* What had strayed before a hash that machine m has compared would have ended the link.
Checked(m) ==
    \A r \in Nat, j \in Number :
        Carries(Other(m), r, j) /\ (r + Delay) * FrameTicks[Other(m)] < time[m][Other(m)] =>
            \A s \in Machine : \A i \in StraysIn(trace[s]) : trace[s][i].stray >= Interval * j

-----------------------------------------------------------------------------
\* How far the hashes are apart.
LEMMA ApartIs ==
    /\ Apart \in Nat \ {0} /\ \A j \in Int : j * Apart = (Interval * j) * FrameTicks["first"]
    /\ \A m \in Machine : /\ FrameTicks[m] \in Nat \ {0} /\ FrameTicks[m] <= Apart
                          /\ (Delay + 1) * FrameTicks[m] <= Window * Apart
<1>1. PICK n \in Nat \ {0}, b \in Nat \ {0} : n = FrameTicks["first"] /\ b = Interval
  BY TicksAssumption, WindowsAssumption DEF Console
<1>2. b * n \in Nat \ {0} /\ \A j \in Int : j * (b * n) = (b * j) * n
  OBVIOUS
<1>3. \A m \in Machine : FrameTicks[m] \in Nat \ {0}
  BY TicksAssumption DEF Machine
<1>4. Window * b * n = Window * (b * n)
  BY WindowsAssumption
<1>5. QED
  BY <1>1, <1>2, <1>3, <1>4, HashesAssumption DEF Apart

\* Products by the same positive number.
LEMMA Scales ==
    ASSUME NEW n \in Nat \ {0}, NEW a \in Int, NEW b \in Int
    PROVE  /\ a * n \in Int /\ (a < b <=> a * n < b * n) /\ (a <= b <=> a * n <= b * n)
           /\ (a + b) * n = a * n + b * n /\ (a - b) * n = a * n - b * n
           /\ (a + 1) * n = a * n + n /\ (a - 1) * n = a * n - n
OBVIOUS

LEMMA StepsAppend ==
    ASSUME NEW s \in Seq(Entries), NEW e \in Entries
    PROVE  /\ Steps(s) \in Nat
           /\ Steps(Append(s, e)) = Steps(s) + (IF e = SecondStep THEN 1 ELSE 0)
<1> DEFINE S == {i \in DOMAIN s : s[i] = SecondStep}
<1>1. PICK n \in Nat : n = Len(s) /\ DOMAIN s = 1..n
  OBVIOUS
<1>2. IsFiniteSet(S)
  <2>1. IsFiniteSet(1..n) /\ S \subseteq 1..n
    BY <1>1, FS_Interval
  <2>2. QED
    BY <2>1, FS_Subset
<1>3. PICK u : u = Append(s, e)
  OBVIOUS
<1>4. DOMAIN u = 1..(n + 1) /\ u[n + 1] = e /\ \A i \in 1..n : u[i] = s[i]
  BY <1>1, <1>3
<1>5. {i \in DOMAIN u : u[i] = SecondStep} = IF e = SecondStep THEN S \union {n + 1} ELSE S
  BY <1>1, <1>4
<1>6. n + 1 \notin S
  BY <1>1
<1>7. Cardinality(S) \in Nat /\ Cardinality(S \union {n + 1}) = Cardinality(S) + 1
  BY <1>2, <1>6, FS_CardinalityType, FS_AddElement
<1>8. Steps(s) = Cardinality(S)
  BY DEF Steps
<1>9. Steps(u) = IF e = SecondStep THEN Cardinality(S \union {n + 1}) ELSE Cardinality(S)
  BY <1>5 DEF Steps
<1>10. QED
  BY <1>3, <1>7, <1>8, <1>9

LEMMA StepsTypes ==
    ASSUME NEW s \in Seq(Entries)
    PROVE  Steps(s) \in Nat
<1>1. SecondStep \in Entries
  BY DEF SecondStep, Entries, Stepped, Console
<1>2. QED
  BY <1>1, StepsAppend

\* A trace that goes on to a step of the second console has more of them.
LEMMA StepsMore ==
    ASSUME NEW a \in Seq(Entries), NEW b \in Seq(Entries), Len(a) < Len(b),
           \A i \in 1..Len(a) : a[i] = b[i], Ticked(b)
    PROVE  Steps(a) < Steps(b)
<1> DEFINE A == {i \in DOMAIN a : a[i] = SecondStep}
           B == {i \in DOMAIN b : b[i] = SecondStep}
<1>1. PICK n \in Nat, k \in Nat : n = Len(a) /\ k = Len(b) /\ DOMAIN a = 1..n /\ DOMAIN b = 1..k
  OBVIOUS
<1>2. A \union {k} \subseteq B /\ k \notin A
  BY <1>1 DEF Ticked
<1>3. IsFiniteSet(A) /\ IsFiniteSet(B)
  <2>1. /\ n \in Int /\ k \in Int /\ 1 \in Int
        /\ A \subseteq 1..n /\ B \subseteq 1..k
    BY <1>1
  <2>3. IsFiniteSet(1..n) /\ IsFiniteSet(1..k)
    BY <2>1, FS_Interval
  <2>2. QED
    BY <2>1, <2>3, FS_Subset
<1>4. /\ Cardinality(A) \in Nat /\ Cardinality(B) \in Nat
      /\ Cardinality(A \union {k}) = Cardinality(A) + 1
      /\ Cardinality(A \union {k}) <= Cardinality(B)
  BY <1>2, <1>3, FS_CardinalityType, FS_AddElement, FS_Subset
<1>5. QED
  BY <1>4 DEF Steps

\* Two beginnings of one trace that end with the same step of the second console are one.
LEMMA SameCut ==
    ASSUME NEW a \in Seq(Entries), NEW b \in Seq(Entries), Ticked(a), Ticked(b), Steps(a) = Steps(b),
           \A i \in 1..Len(a) : i <= Len(b) => a[i] = b[i]
    PROVE  a = b
<1>1. Len(a) \in Nat /\ Len(b) \in Nat
  OBVIOUS
<1>2. CASE Len(a) < Len(b)
  <2>1. Steps(a) < Steps(b)
    BY <1>1, <1>2, StepsMore
  <2>2. Steps(a) \in Nat
    BY StepsTypes
  <2>3. QED
    BY <2>1, <2>2
<1>3. CASE Len(b) < Len(a)
  <2>1. Steps(b) < Steps(a)
    BY <1>1, <1>3, StepsMore
  <2>2. Steps(a) \in Nat
    BY StepsTypes
  <2>3. QED
    BY <2>1, <2>2
<1>4. CASE Len(a) = Len(b)
  BY <1>1, <1>4
<1>5. QED
  BY <1>1, <1>2, <1>3, <1>4

\* Trace s of machine m has gone on to s2, at times t to t2, and what strayed meanwhile
\* did so at times t.
RanOn(m, s, t, s2, t2) ==
    /\ s2 \in Seq(Entries) /\ t2 \in [Console -> Nat]
    /\ Len(s) <= Len(s2) /\ \A i \in 1..Len(s) : s2[i] = s[i]
    /\ \A k \in Console : t[k] <= t2[k]
    /\ \A i \in StraysIn(s2) : i > Len(s) =>
          s2[i].on = m /\ s2[i].stray = t["first"] \div FrameTicks["first"]

LEMMA StrayTypesIn ==
    ASSUME NEW s \in Seq(Entries), NEW i \in StraysIn(s)
    PROVE  i \in 1..Len(s) /\ s[i].stray \in Nat /\ s[i].on \in Machine
<1>1. i \in 1..Len(s) /\ s[i] \in Entries /\ "stray" \in DOMAIN s[i]
  BY DEF StraysIn
<1>2. s[i] \in StrayEntry
  <2>1. /\ \A e \in Stepped : DOMAIN e = {"console", "step"}
        /\ \A e \in Happened : DOMAIN e = {"console", "events"}
    BY DEF Stepped, Happened
  <2>2. QED
    BY <1>1, <2>1 DEF Entries
<1>3. QED
  BY <1>1, <1>2 DEF StrayEntry

\* What was begun stays begun, and what strayed stays.
LEMMA RanOnStrays ==
    ASSUME NEW m, NEW s \in Seq(Entries), NEW t, NEW s2, NEW t2, RanOn(m, s, t, s2, t2)
    PROVE  \A i \in 1..Len(s) : i \in StraysIn(s) <=> i \in StraysIn(s2)
<1>1. Len(s) \in Nat /\ Len(s2) \in Nat /\ Len(s) <= Len(s2) /\ \A i \in 1..Len(s) : s2[i] = s[i]
  BY DEF RanOn
<1>2. DOMAIN s = 1..Len(s) /\ DOMAIN s2 = 1..Len(s2)
  BY DEF RanOn
<1>3. QED
  BY <1>1, <1>2 DEF StraysIn

\* A hash that told the truth still does.
LEMMA HonestStays ==
    ASSUME NEW m, NEW s \in Seq(Entries), NEW t \in [Console -> Nat], NEW s2, NEW t2,
           Told(m, s, t), RanOn(m, s, t, s2, t2), NEW h \in Hash, Honest(h, s, t)
    PROVE  Honest(h, s2, t2)
<1>1. /\ s2 \in Seq(Entries) /\ Len(s) \in Nat /\ Len(s2) \in Nat /\ Len(s) <= Len(s2)
      /\ \A i \in 1..Len(s) : s2[i] = s[i]
      /\ t["first"] \in Nat /\ t["second"] \in Nat /\ t2["second"] \in Nat
      /\ t["second"] <= t2["second"]
  BY DEF RanOn, Console
<1>2. h.frame \in Nat /\ h.of \in Seq(Entries) /\ Len(h.of) \in Nat
  BY DEF Hash
<1>3. PICK n \in Nat \ {0} : n = FrameTicks["first"]
  BY TicksAssumption DEF Console
<1>4. h.frame * n <= t["second"] /\ Len(h.of) <= Len(s) /\ h.frame * n \in Nat
  BY <1>2, <1>3 DEF Honest
<1>5. \A i \in 1..Len(h.of) : h.of[i] = s2[i]
  BY <1>1, <1>2, <1>4 DEF Honest
<1>6. ASSUME NEW i \in StraysIn(s2), s2[i].stray < h.frame
      PROVE  i <= Len(h.of)
  <2>1. i \in 1..Len(s2) /\ s2[i].stray \in Nat
    BY <1>1, StrayTypesIn
  <2>2. CASE i <= Len(s)
    <3>1. i \in StraysIn(s) /\ s[i] = s2[i]
      BY <1>1, <2>1, <2>2, RanOnStrays
    <3>2. QED
      BY <1>6, <3>1 DEF Honest
  <2>3. CASE i > Len(s)
    <3>1. PICK q \in Nat, c \in 0..(n - 1) : q = t["first"] \div n /\ t["first"] = n * q + c
      BY <1>1, Ticks
    <3>2. s2[i].stray = q
      BY <1>3, <2>3, <3>1 DEF RanOn
    <3>3. t["second"] <= t["first"]
      BY DEF Told
    <3>4. q + 1 <= h.frame
      BY <1>2, <1>6, <3>2
    <3>5. (q + 1) * n <= h.frame * n /\ (q + 1) * n = q * n + n /\ n * q = q * n
      <4>1. q + 1 \in Int /\ q \in Int /\ h.frame \in Int
        BY <1>2
      <4>2. QED
        BY <3>4, <4>1, Scales
    <3>6. q * n \in Nat
      OBVIOUS
    <3>7. FALSE
      <4>1. PICK x \in Nat, y \in Nat : x = q * n /\ y = h.frame * n
        BY <1>4, <3>6
      <4>2. x + n <= y /\ y <= t["second"] /\ t["first"] < x + n
        <5>1. n * q = x /\ (q + 1) * n = x + n
          BY <3>5, <4>1
        <5>2. QED
          BY <1>4, <3>1, <3>5, <4>1, <5>1
      <4>3. QED
        BY <1>1, <3>3, <4>1, <4>2
    <3>8. QED
      BY <3>7
  <2>4. QED
    BY <1>1, <2>1, <2>2, <2>3
<1>7. StraysIn(s2) = {} => StraysIn(s) = {}
  <2>1. \A i \in StraysIn(s) : i \in 1..Len(s)
    BY StrayTypesIn
  <2>2. QED
    BY <2>1, RanOnStrays
<1>8. QED
  BY <1>1, <1>3, <1>4, <1>5, <1>6, <1>7 DEF Honest

\* And so do the frames that come with it.
LEMMA ReportsStay ==
    ASSUME NEW m, NEW s \in Seq(Entries), NEW t \in [Console -> Nat], NEW s2, NEW t2,
           Told(m, s, t), RanOn(m, s, t, s2, t2),
           NEW msg, msg.hash \subseteq Hash, NEW o, Reports(msg, o, s, t)
    PROVE  Reports(msg, o, s2, t2)
BY HonestStays DEF Reports

-----------------------------------------------------------------------------
\* What is remembered and held stays true while the trace goes on.
LEMMA MemoryStays ==
    ASSUME NEW m, NEW l, NEW c \in Nat, NEW s \in Seq(Entries), NEW t \in [Console -> Nat],
           NEW s2, NEW t2, Told(m, s, t), RanOn(m, s, t, s2, t2),
           Remembers(l, c, s, t), Holds(m, l, c, s, t)
    PROVE  Remembers(l, c, s2, t2) /\ Holds(m, l, c, s2, t2)
<1>1. \A i \in DOMAIN l.computed : l.computed[i] \in Hash
  BY DEF Remembers, Newly
<1>2. Remembers(l, c, s2, t2)
  BY <1>1, HonestStays DEF Remembers
<1>3. Holds(m, l, c, s2, t2)
  <2>1. \A h \in Hash : Honest(h, s, t) => Honest(h, s2, t2)
    BY HonestStays
  <2>2. QED
    BY <2>1 DEF Holds
<1>4. QED
  BY <1>2, <1>3

\* What is done to the rest of the link does not matter.
LEMMA HashingSame ==
    ASSUME NEW m, NEW l, NEW new, NEW c, NEW s, NEW t, Hashing(m, l, c, s, t),
           new.due = l.due, new.nextSend = l.nextSend, new.computed = l.computed,
           new.pending = l.pending, new.received = l.received
    PROVE  Hashing(m, new, c, s, t)
BY DEF Hashing, Counts, Remembers, Holds

\* Where nothing was received, there is nothing to match.
LEMMA UnmatchedNothing ==
    ASSUME NEW l, LinkTyped(l), l.received = {}
    PROVE  /\ Unmatched(l).received = {} /\ Unmatched(l).due = l.due
           /\ Unmatched(l).nextSend = l.nextSend /\ Unmatched(l).computed = l.computed
           /\ Unmatched(l).pending = l.pending
           /\ ~Mismatch(l)
<1>1. PICK rest : rest = Newest({h \in l.received :
          ~Known(l, h) /\ h.frame >= (IF l.computed = <<>> THEN 0 ELSE l.computed[1].frame)})
  OBVIOUS
<1>2. rest = {}
  BY <1>1 DEF Newest
<1>3. Unmatched(l) = [l EXCEPT !.received = rest]
  BY <1>1 DEF Unmatched
<1>4. QED
  BY <1>2, <1>3 DEF LinkTyped, LinkFields, Mismatch

\* What was remembered of c hashes (d), and one more.
OneMoreHash(d, h, c, e) ==
    /\ Newly(e, c + 1) /\ Len(e) \in Nat /\ e[Len(e)] = h
    /\ \A i \in 1..Len(e) : i # Len(e) =>
         \E j \in 1..Len(d) : e[i] = d[j] /\ c - Len(d) + j = (c + 1) - Len(e) + i

LEMMA NewestOf ==
    ASSUME NEW d, NEW h \in Hash, NEW c \in Nat, Newly(d, c)
    PROVE  OneMoreHash(d, h, c, KeepNewest(Append(d, h)))
<1> DEFINE e == KeepNewest(Append(d, h))
<1>1. PICK w \in Nat \ {0}, n \in Nat :
        w = Window /\ n = Len(d) /\ d \in Seq(Hash) /\ n = IF c < w THEN c ELSE w
  BY WindowsAssumption DEF Newly
<1>2. PICK a \in Seq(Hash) : a = Append(d, h)
  <2>1. \A S : \A u \in Seq(S), x \in S : Append(u, x) \in Seq(S)
    OBVIOUS
  <2>2. Append(d, h) \in Seq(Hash)
    BY <1>1, <2>1
  <2>3. QED
    BY <2>2
<1>3. Len(a) = n + 1 /\ a[n + 1] = h /\ \A i \in 1..n : a[i] = d[i]
  <2>1. \A S : \A u \in Seq(S), x \in S :
           /\ Len(Append(u, x)) = Len(u) + 1 /\ Append(u, x)[Len(u) + 1] = x
           /\ \A i \in 1..Len(u) : Append(u, x)[i] = u[i]
    OBVIOUS
  <2>2. /\ Len(Append(d, h)) = Len(d) + 1 /\ Append(d, h)[Len(d) + 1] = h
        /\ \A i \in 1..Len(d) : Append(d, h)[i] = d[i]
    BY <1>1, <2>1, Zenon
  <2>3. QED
    BY <1>1, <1>2, <2>2, Zenon
<1>4. CASE c < w
  <2>1. n = c /\ KeepNewest(a) = a
    BY <1>1, <1>3, <1>4 DEF KeepNewest
  <2>2. Len(a) = IF c + 1 < w THEN c + 1 ELSE w
    BY <1>3, <1>4, <2>1
  <2>3. \A i \in 1..(n + 1) : i # n + 1 => a[i] = d[i] /\ i \in 1..n /\ c - n + i = (c + 1) - (n + 1) + i
    BY <1>3, <2>1
  <2>4. e = a
    BY <1>2, <2>1
  <2>5. QED
    BY <1>1, <1>2, <1>3, <2>1, <2>2, <2>3, <2>4 DEF Newly, OneMoreHash
<1>5. CASE ~(c < w)
  <2>1. n = w
    BY <1>1, <1>5
  <2>2. e = SubSeq(a, 2, w + 1)
    <3>1. Len(a) > Window /\ Len(a) - Window + 1 = 2 /\ Len(a) = w + 1
      BY <1>1, <1>3, <2>1
    <3>2. QED
      BY <1>2, <3>1 DEF KeepNewest
  <2>4. e \in Seq(Hash) /\ Len(e) = w /\ \A i \in 1..w : e[i] = a[i + 1]
    BY <1>1, <1>3, <2>1, <2>2
  <2>5. ASSUME NEW i \in 1..w, i # w
        PROVE  e[i] = d[i + 1] /\ i + 1 \in 1..n /\ c - n + (i + 1) = (c + 1) - w + i
    <3>1. i + 1 \in 1..n /\ e[i] = a[i + 1]
      BY <1>1, <2>1, <2>4, <2>5
    <3>2. a[i + 1] = d[i + 1]
      BY <1>3, <3>1
    <3>3. QED
      BY <1>1, <2>1, <3>1, <3>2
  <2>6. e[w] = h
    BY <1>1, <1>3, <2>1, <2>4
  <2>7. Len(e) = IF c + 1 < w THEN c + 1 ELSE w
    BY <1>5, <2>4
  <2>8. QED
    BY <1>1, <2>4, <2>5, <2>6, <2>7 DEF Newly, OneMoreHash
<1>6. QED
  BY <1>4, <1>5

\* A hash that is due is taken where both consoles are as far.
LEMMA TakesHash ==
    ASSUME NEW m \in Machine, NEW l, LinkTyped(l), NEW c \in Nat,
           NEW s \in Seq(Entries), NEW t \in [Console -> Nat],
           Told(m, s, t), Hashing(m, l, c, s, t), t["first"] = t["second"],
           NEW x, x = WithComputed(l, s)
    PROVE  x.due = {} /\ \E k \in Nat : Hashing(m, x, k, s, t)
<1> DEFINE e == x.computed
<1>1. CASE l.due = {}
  BY <1>1 DEF WithComputed
<1>2. CASE l.due # {}
  <2>1. /\ l.due = {Interval * (c + 1)} /\ t["first"] = (c + 1) * Apart
        /\ (l.nextSend - Delay - 1) * FrameTicks[m] < t["first"]
        /\ StraysIn(s) = {} => Ticked(s)
    BY <1>2 DEF Hashing, Counts
  <2>2. PICK h : h = [frame |-> Interval * (c + 1), of |-> s]
    OBVIOUS
  <2>3. (CHOOSE f \in l.due : TRUE) = Interval * (c + 1)
    BY <2>1
  <2>4. x = [l EXCEPT !.pending = {h}, !.due = {}, !.computed = KeepNewest(Append(l.computed, h))]
    BY <1>2, <2>2, <2>3 DEF WithComputed
  <2>5. PICK made : made = KeepNewest(Append(l.computed, h))
    OBVIOUS
  <2>6. /\ x.pending = {h} /\ x.due = {} /\ e = made
        /\ x.received = l.received /\ x.nextSend = l.nextSend
    BY <2>4, <2>5 DEF LinkTyped, LinkFields
  <2>7. h \in Hash /\ h.frame = Interval * (c + 1) /\ h.of = s
    BY <2>2, WindowsAssumption DEF Hash
  <2>8. /\ Apart \in Nat \ {0} /\ c + 1 \in Int
        /\ (c + 1) * Apart = (Interval * (c + 1)) * FrameTicks["first"]
        /\ (c + 2) * Apart = (c + 1) * Apart + Apart /\ (c + 1) * Apart \in Int
    BY ApartIs
  <2>9. Honest(h, s, t)
    <3>1. h.frame * FrameTicks["first"] = t["second"]
      BY <2>1, <2>7, <2>8
    <3>2. Steps(s) = t["second"] /\ t["second"] \in Nat
      BY DEF Told, Console
    <3>3. \A i \in StraysIn(s) : i <= Len(s)
      BY StrayTypesIn
    <3>4. h.frame * FrameTicks["first"] <= t["second"]
      BY <3>1, <3>2
    <3>5. Len(h.of) <= Len(s) /\ \A i \in 1..Len(h.of) : h.of[i] = s[i]
      BY <2>7
    <3>6. \A i \in StraysIn(s) : s[i].stray < h.frame => i <= Len(h.of)
      BY <2>7, <3>3
    <3>7. StraysIn(s) = {} => Ticked(h.of) /\ Steps(h.of) = h.frame * FrameTicks["first"]
      BY <2>1, <2>7, <3>1, <3>2
    <3>8. QED
      BY <3>4, <3>5, <3>6, <3>7, Zenon DEF Honest
  <2>10. Counts(m, x, c + 1, s, t)
    <3>1. t["first"] \in Nat /\ (c + 1) + 1 = c + 2
      BY DEF Console
    <3>2. QED
      BY <2>1, <2>6, <2>8, <3>1 DEF Counts
  <2>11. Remembers(x, c + 1, s, t)
    <3>1. PICK d : d = l.computed /\ Newly(d, c)
      BY DEF Hashing, Remembers
    <3>2. e = KeepNewest(Append(d, h)) /\ h \in Hash
      BY <2>5, <2>6, <2>7, <3>1
    <3>3. OneMoreHash(d, h, c, e)
      BY <3>1, <3>2, NewestOf
    <3>4. PICK k \in Nat : k = c + 1
      OBVIOUS
    <3>5. ASSUME NEW i \in 1..Len(e)
          PROVE  e[i].frame = Interval * (k - Len(e) + i) /\ Honest(e[i], s, t)
      <4>1. CASE i = Len(e)
        <5>1. k - Len(e) + i = c + 1
          BY <3>3, <3>4, <4>1 DEF OneMoreHash
        <5>2. QED
          BY <2>7, <2>9, <3>3, <4>1, <5>1 DEF OneMoreHash
      <4>2. CASE i # Len(e)
        <5>1. PICK j \in 1..Len(d) : e[i] = d[j] /\ c - Len(d) + j = (c + 1) - Len(e) + i
          BY <3>3, <4>2 DEF OneMoreHash
        <5>2. j \in DOMAIN l.computed
          BY <3>1 DEF Newly
        <5>3. d[j].frame = Interval * (c - Len(d) + j) /\ Honest(d[j], s, t)
          BY <3>1, <5>2, Zenon DEF Hashing, Remembers
        <5>4. c - Len(d) + j = k - Len(e) + i
          <6>1. (c + 1) - Len(e) + i = k - Len(e) + i
            BY <3>4, Zenon
          <6>2. QED
            BY <5>1, <6>1, Zenon
        <5>5. QED
          BY <5>1, <5>3, <5>4
      <4>3. QED
        BY <4>1, <4>2
    <3>6. DOMAIN e = 1..Len(e) /\ Newly(e, k)
      BY <3>3, <3>4 DEF Newly, OneMoreHash
    <3>7. \A i \in DOMAIN e : e[i].frame = Interval * (k - Len(e) + i) /\ Honest(e[i], s, t)
      BY <3>5, <3>6, Zenon
    <3>8. Remembers(x, k, s, t)
      BY <3>6, <3>7, Zenon DEF Remembers
    <3>9. QED
      BY <3>4, <3>8
  <2>12. Holds(m, x, c + 1, s, t)
    <3>1. c + 1 > 0 /\ (c + 1) * Apart > (x.nextSend - Delay - 1) * FrameTicks[m]
      <4>1. PICK a, b \in Int : a = (l.nextSend - Delay - 1) * FrameTicks[m] /\ b = (c + 1) * Apart
        <5>1. l.nextSend \in Nat /\ Delay \in Nat
          BY DelayAssumption DEF LinkTyped
        <5>4. FrameTicks[m] \in Nat
          BY TicksAssumption DEF Machine
        <5>2. (l.nextSend - Delay - 1) * FrameTicks[m] \in Int
          BY <5>1, <5>4
        <5>3. QED
          BY <2>8, <5>2
      <4>2. a < b
        BY <2>1, <4>1
      <4>3. b > a
        BY <4>2
      <4>4. QED
        BY <2>6, <4>1, <4>3
    <3>2. QED
      BY <2>6, <2>7, <2>9, <3>1 DEF Holds
  <2>13. QED
    BY <2>6, <2>10, <2>11, <2>12 DEF Hashing
<1>3. QED
  BY <1>1, <1>2

\* Before anything else a machine sees to the hash that is due.
LEMMA HashedHashing ==
    ASSUME Typed, NEW m \in Machine, NEW c \in Nat,
           Told(m, trace[m], time[m]), Hashing(m, link[m], c, trace[m], time[m])
    PROVE  /\ \E k \in Nat : /\ Hashing(m, Hashed(m), k, trace[m], time[m])
                             /\ Hashing(m, Unmatched(Hashed(m)), k, trace[m], time[m])
           /\ NextConsole(m) = "first" =>
                 Hashed(m).due = {} /\ Unmatched(Hashed(m)).due = {}
           /\ ~Mismatch(Hashed(m))
<1>1. LinkTyped(link[m]) /\ trace[m] \in Seq(Entries) /\ time[m] \in [Console -> Nat]
  BY DEF Typed
<1>2. LinkTyped(Hashed(m)) /\ Hashed(m).nextSend = link[m].nextSend
  BY <1>1, TypedParts, WithComputedKeeps DEF Hashed, SamePlan
<1>3. PICK k \in Nat : Hashing(m, Hashed(m), k, trace[m], time[m])
                       /\ (NextConsole(m) = "first" => Hashed(m).due = {})
  <2>1. CASE NextConsole(m) = "first"
    <3>1. time[m]["first"] = time[m]["second"]
      <4>1. ~(time[m]["second"] < time[m]["first"])
        BY <2>1 DEF NextConsole
      <4>2. time[m]["first"] \in Nat /\ time[m]["second"] \in Nat
        BY <1>1 DEF Console
      <4>3. QED
        BY <4>1, <4>2 DEF Told
    <3>2. PICK x : x = WithComputed(link[m], trace[m])
      OBVIOUS
    <3>3. x.due = {} /\ \E k \in Nat : Hashing(m, x, k, trace[m], time[m])
      BY <1>1, <3>1, <3>2, TakesHash
    <3>4. QED
      BY <2>1, <3>2, <3>3 DEF Hashed
  <2>2. CASE NextConsole(m) # "first"
    BY <2>2 DEF Hashed
  <2>3. QED
    BY <2>1, <2>2
<1>4. Hashed(m).received = {}
  BY <1>3 DEF Hashing
<1>5. Hashing(m, Unmatched(Hashed(m)), k, trace[m], time[m])
  <2>1. PICK u : u = Unmatched(Hashed(m))
    OBVIOUS
  <2>2. /\ u.received = Hashed(m).received /\ u.due = Hashed(m).due
        /\ u.nextSend = Hashed(m).nextSend /\ u.computed = Hashed(m).computed
        /\ u.pending = Hashed(m).pending
    BY <1>2, <1>4, <2>1, UnmatchedNothing
  <2>3. QED
    BY <1>3, <2>1, <2>2, HashingSame
<1>6. QED
  BY <1>2, <1>3, <1>4, <1>5, UnmatchedNothing

-----------------------------------------------------------------------------
\* A trace goes on.
LEMMA RanOnTwice ==
    ASSUME NEW m, NEW s \in Seq(Entries), NEW t, NEW s1, NEW s2, NEW t2,
           RanOn(m, s, t, s1, t), RanOn(m, s1, t, s2, t2)
    PROVE  RanOn(m, s, t, s2, t2)
<1>1. /\ s1 \in Seq(Entries) /\ s2 \in Seq(Entries)
      /\ Len(s) \in Nat /\ Len(s1) \in Nat /\ Len(s2) \in Nat
      /\ Len(s) <= Len(s1) /\ Len(s1) <= Len(s2)
  BY DEF RanOn
<1>2. ASSUME NEW i \in 1..Len(s)
      PROVE  s2[i] = s[i]
  <2>1. i \in 1..Len(s1)
    BY <1>1
  <2>2. QED
    BY <2>1 DEF RanOn
<1>3. ASSUME NEW i \in StraysIn(s2), i > Len(s)
      PROVE  s2[i].on = m /\ s2[i].stray = t["first"] \div FrameTicks["first"]
  <2>1. i \in 1..Len(s2)
    BY <1>1, StrayTypesIn
  <2>2. CASE i > Len(s1)
    BY <2>2 DEF RanOn
  <2>3. CASE i <= Len(s1)
    <3>1. i \in 1..Len(s1)
      BY <1>1, <2>1, <2>3
    <3>2. i \in StraysIn(s1)
      BY <1>1, <3>1, RanOnStrays
    <3>3. s1[i] = s2[i]
      BY <3>1 DEF RanOn
    <3>4. QED
      BY <1>3, <3>2, <3>3 DEF RanOn
  <2>4. QED
    BY <1>1, <2>1, <2>2, <2>3
<1>4. QED
  BY <1>1, <1>2, <1>3 DEF RanOn

\* One more entry, at the same time.
LEMMA RanOneMore ==
    ASSUME NEW m, NEW s \in Seq(Entries), NEW t \in [Console -> Nat], NEW t2 \in [Console -> Nat],
           \A k \in Console : t[k] <= t2[k],
           NEW e \in Entries, NEW s2, s2 = Append(s, e),
           "stray" \in DOMAIN e => e.on = m /\ e.stray = t["first"] \div FrameTicks["first"]
    PROVE  RanOn(m, s, t, s2, t2)
<1>1. PICK n \in Nat : n = Len(s) /\ DOMAIN s = 1..n
  OBVIOUS
<1>2. /\ s2 \in Seq(Entries) /\ Len(s2) = n + 1 /\ DOMAIN s2 = 1..(n + 1) /\ s2[n + 1] = e
      /\ \A i \in 1..n : s2[i] = s[i]
  BY <1>1
<1>3. \A i \in StraysIn(s2) : i > n => i = n + 1 /\ "stray" \in DOMAIN e
  BY <1>1, <1>2 DEF StraysIn
<1>4. RanOn(m, s, t, s2, t2)
  BY <1>1, <1>2, <1>3 DEF RanOn
<1>5. QED
  BY <1>1, <1>2, <1>4

LEMMA LastAdded ==
    ASSUME NEW s \in Seq(Entries), NEW e \in Entries, NEW s2, s2 = Append(s, e)
    PROVE  s2[Len(s2)] = e /\ s2 # <<>>
<1>1. s2 \in Seq(Entries) /\ Len(s2) = Len(s) + 1 /\ s2[Len(s) + 1] = e
  OBVIOUS
<1>2. QED
  BY <1>1

\* Nothing strays on the way from one trace to the other.
NoneStrays(s, s2) == StraysIn(s2) = StraysIn(s)

LEMMA NoMoreStrays ==
    ASSUME NEW s \in Seq(Entries), NEW e \in Entries, "stray" \notin DOMAIN e,
           NEW s2, s2 = Append(s, e)
    PROVE  StraysIn(s2) = StraysIn(s)
<1>1. PICK n \in Nat : n = Len(s) /\ DOMAIN s = 1..n
  OBVIOUS
<1>2. DOMAIN s2 = 1..(n + 1) /\ s2[n + 1] = e /\ \A i \in 1..n : s2[i] = s[i]
  BY <1>1
<1>3. QED
  BY <1>1, <1>2 DEF StraysIn

LEMMA EntryKinds ==
    /\ \A e \in Happened \union Stepped : e \in Entries /\ "stray" \notin DOMAIN e
    /\ \A e \in Happened \union StrayEntry : e # SecondStep
    /\ SecondStep \in Stepped
<1>1. \A e \in Happened : DOMAIN e = {"console", "events"}
  BY DEF Happened
<1>2. \A e \in Stepped : DOMAIN e = {"console", "step"}
  BY DEF Stepped
<1>3. \A e \in StrayEntry : DOMAIN e = {"stray", "on"}
  BY DEF StrayEntry
<1>4. SecondStep \in Stepped
  BY DEF SecondStep, Stepped, Console
<1>5. QED
  BY <1>1, <1>2, <1>3, <1>4 DEF Entries

\* Events are applied.
LEMMA AppliedTold ==
    ASSUME NEW m, NEW s \in Seq(Entries), NEW t \in [Console -> Nat], Told(m, s, t),
           NEW applied, applied = <<>> \/ \E e \in Happened : applied = <<e>>,
           NEW u, u = s \o applied
    PROVE  RanOn(m, s, t, u, t) /\ Told(m, u, t) /\ u \in Seq(Entries) /\ StraysIn(u) = StraysIn(s)
<1>1. CASE applied = <<>>
  <2>1. u = s
    BY <1>1
  <2>2. \A i \in StraysIn(s) : i \in 1..Len(s)
    BY StrayTypesIn
  <2>3. RanOn(m, s, t, s, t)
    BY <2>2 DEF RanOn, Console
  <2>4. QED
    BY <2>1, <2>3
<1>2. ASSUME NEW e \in Happened, applied = <<e>>
      PROVE  RanOn(m, s, t, u, t) /\ Told(m, u, t) /\ u \in Seq(Entries) /\ StraysIn(u) = StraysIn(s)
  <2>1. e \in Entries /\ "stray" \notin DOMAIN e /\ e # SecondStep
    BY EntryKinds
  <2>2. u = Append(s, e)
    BY <1>2, <2>1
  <2>3. \A k \in Console : t[k] <= t[k]
    OBVIOUS
  <2>4. RanOn(m, s, t, u, t) /\ StraysIn(u) = StraysIn(s)
    <3>1. RanOn(m, s, t, u, t)
      BY <2>1, <2>2, <2>3, RanOneMore
    <3>2. StraysIn(u) = StraysIn(s)
      BY <2>1, <2>2, NoMoreStrays
    <3>3. QED
      BY <3>1, <3>2
  <2>5. Steps(u) = Steps(s)
    <3>1. Steps(s) \in Nat /\ Steps(u) = Steps(s) + 0
      BY <2>1, <2>2, StepsAppend
    <3>2. QED
      BY <3>1
  <2>6. \A i \in StraysIn(u) : u[i] = s[i]
    <3>1. \A i \in StraysIn(s) : i \in 1..Len(s)
      BY StrayTypesIn
    <3>2. QED
      BY <2>4, <3>1 DEF RanOn
  <2>7. Told(m, u, t)
    BY <2>4, <2>5, <2>6 DEF Told
  <2>8. QED
    BY <2>4, <2>7 DEF RanOn
<1>3. QED
  BY <1>1, <1>2

\* The console that is behind, its step, and the times then.
Behind(t) == IF t["second"] < t["first"] THEN "second" ELSE "first"
Tick(k) == <<[console |-> k, step |-> TRUE]>>
Tocked(t, k) == [t EXCEPT ![k] = @ + 1]

LEMMA StepTold ==
    ASSUME NEW m, NEW s \in Seq(Entries), NEW t \in [Console -> Nat], Told(m, s, t),
           NEW k, k = Behind(t), NEW v, v = s \o Tick(k), NEW w, w = Tocked(t, k)
    PROVE  /\ RanOn(m, s, t, v, w) /\ Told(m, v, w) /\ NoneStrays(s, v)
           /\ v \in Seq(Entries) /\ w \in [Console -> Nat]
           /\ k = "second" => Ticked(v)
<1>1. PICK e : e = [console |-> k, step |-> TRUE]
  OBVIOUS
<1>2. e \in Entries /\ "stray" \notin DOMAIN e
  <2>1. e \in Stepped
    BY <1>1 DEF Stepped, Console, Behind
  <2>2. QED
    BY <2>1, EntryKinds
<1>3. e = SecondStep <=> k = "second"
  <2>1. CASE k = "second"
    BY <1>1, <2>1 DEF SecondStep
  <2>2. CASE k # "second"
    <3>1. e.console = k /\ SecondStep.console = "second"
      BY <1>1 DEF SecondStep
    <3>2. QED
      BY <2>2, <3>1
  <2>3. QED
    BY <2>1, <2>2
<1>4. v = Append(s, e)
  BY <1>1, <1>2 DEF Tick
<1>5. /\ t["first"] \in Nat /\ t["second"] \in Nat
      /\ w \in [Console -> Nat] /\ \A c \in Console : t[c] <= w[c]
      /\ w["first"] = t["first"] + (IF k = "first" THEN 1 ELSE 0)
      /\ w["second"] = t["second"] + (IF k = "second" THEN 1 ELSE 0)
  BY DEF Console, Tocked, Behind
<1>6. RanOn(m, s, t, v, w) /\ v[Len(v)] = e /\ v # <<>> /\ StraysIn(v) = StraysIn(s)
  <2>1. RanOn(m, s, t, v, w)
    BY <1>2, <1>4, <1>5, RanOneMore
  <2>2. StraysIn(v) = StraysIn(s)
    BY <1>2, <1>4, NoMoreStrays
  <2>3. v[Len(v)] = e /\ v # <<>>
    BY <1>2, <1>4, LastAdded
  <2>4. QED
    BY <2>1, <2>2, <2>3
<1>7. Steps(v) = w["second"]
  <2>1. Steps(s) = t["second"] /\ Steps(v) = Steps(s) + (IF e = SecondStep THEN 1 ELSE 0)
    BY <1>2, <1>4, StepsAppend DEF Told
  <2>2. QED
    BY <1>3, <1>5, <2>1
<1>8. w["second"] <= w["first"] /\ w["first"] <= w["second"] + 1
  BY <1>5 DEF Told, Behind
<1>9. \A i \in StraysIn(v) : v[i].on = m /\ v[i].stray * FrameTicks["first"] <= w["first"]
  <2>1. ASSUME NEW i \in StraysIn(v)
        PROVE  v[i].on = m /\ v[i].stray * FrameTicks["first"] <= w["first"]
    <3>1. i \in StraysIn(s) /\ i \in 1..Len(s) /\ s[i].stray \in Nat
      BY <1>6, StrayTypesIn
    <3>2. v[i] = s[i]
      BY <1>6, <3>1 DEF RanOn
    <3>3. s[i].on = m /\ s[i].stray * FrameTicks["first"] <= t["first"]
      BY <3>1 DEF Told
    <3>4. s[i].stray * FrameTicks["first"] \in Int
      <4>1. FrameTicks["first"] \in Nat
        BY TicksAssumption DEF Console
      <4>2. QED
        BY <3>1, <4>1
    <3>5. PICK x \in Int : x = s[i].stray * FrameTicks["first"]
      BY <3>4
    <3>6. x <= t["first"] /\ t["first"] <= w["first"]
      BY <1>5, <3>3, <3>5
    <3>7. x <= w["first"]
      BY <1>5, <3>6
    <3>8. QED
      BY <3>2, <3>3, <3>5, <3>7
  <2>2. QED
    BY <2>1
<1>10. Told(m, v, w)
  BY <1>7, <1>8, <1>9 DEF Told
<1>11. k = "second" => Ticked(v)
  BY <1>3, <1>6 DEF Ticked
<1>12. QED
  BY <1>5, <1>6, <1>10, <1>11 DEF RanOn, NoneStrays

\* Something strays.
LEMMA StrayTold ==
    ASSUME NEW m \in Machine, NEW s \in Seq(Entries), NEW t \in [Console -> Nat], Told(m, s, t),
           NEW u, u = Append(s, [stray |-> t["first"] \div FrameTicks["first"], on |-> m])
    PROVE  RanOn(m, s, t, u, t) /\ Told(m, u, t) /\ StraysIn(u) # {}
<1>0. PICK n \in Nat \ {0} : n = FrameTicks["first"]
  BY TicksAssumption DEF Console
<1>1. PICK q \in Nat, c \in 0..(n - 1) :
        n = FrameTicks["first"] /\ q = t["first"] \div n /\ t["first"] = n * q + c
  <2>1. PICK t1 \in Nat : t1 = t["first"]
    BY DEF Console
  <2>2. t1 \div n \in Nat /\ t1 % n \in 0..(n - 1) /\ t1 = n * (t1 \div n) + (t1 % n)
    BY Ticks
  <2>3. PICK q1 \in Nat, c1 \in 0..(n - 1) : q1 = t1 \div n /\ t1 = n * q1 + c1
    <3> DEFINE d == t1 \div n
               r == t1 % n
    <3>1. d \in Nat /\ r \in 0..(n - 1) /\ d = t1 \div n /\ t1 = n * d + r
      BY <2>2, Zenon
    <3> HIDE DEF d, r
    <3>2. QED
      BY <3>1, Zenon
  <2>4. n = FrameTicks["first"] /\ q1 = t["first"] \div n /\ t["first"] = n * q1 + c1
    BY <1>0, <2>1, <2>3, Zenon
  <2>5. QED
    BY <2>4, Zenon
<1>2. PICK e : e = [stray |-> q, on |-> m]
  OBVIOUS
<1>3. e \in StrayEntry /\ e \in Entries /\ e # SecondStep /\ e.on = m
      /\ e.stray = q /\ "stray" \in DOMAIN e
  <2>1. e \in StrayEntry
    BY <1>2 DEF StrayEntry
  <2>2. QED
    BY <1>2, <2>1, EntryKinds DEF Entries
<1>4. u = Append(s, e)
  BY <1>1, <1>2
<1>5. \A k \in Console : t[k] <= t[k]
  OBVIOUS
<1>6. RanOn(m, s, t, u, t) /\ u[Len(u)] = e /\ u # <<>>
  <2>1. RanOn(m, s, t, u, t)
    BY <1>1, <1>3, <1>4, <1>5, RanOneMore
  <2>2. u[Len(u)] = e /\ u # <<>>
    BY <1>3, <1>4, LastAdded
  <2>3. QED
    BY <2>1, <2>2
<1>7. Steps(u) = t["second"]
  <2>1. Steps(s) \in Nat /\ Steps(u) = Steps(s) + 0
    BY <1>3, <1>4, StepsAppend
  <2>2. QED
    BY <2>1 DEF Told
<1>8. ASSUME NEW i \in StraysIn(u)
      PROVE  u[i].on = m /\ u[i].stray * n <= t["first"]
  <2>1. CASE i > Len(s)
    <3>1. u[i].on = m /\ u[i].stray = q
      BY <1>1, <1>6, <2>1 DEF RanOn
    <3>2. PICK x \in Nat : x = q * n /\ x = n * q
      OBVIOUS
    <3>3. x <= t["first"]
      <4>1. t["first"] = x + c
        BY <1>1, <3>2, Zenon
      <4>2. c \in Nat
        OBVIOUS
      <4>3. QED
        BY <4>1, <4>2
    <3>4. QED
      BY <3>1, <3>2, <3>3
  <2>2. CASE ~(i > Len(s))
    <3>1. i \in 1..Len(u) /\ u \in Seq(Entries)
      BY <1>6, StrayTypesIn DEF RanOn
    <3>2. i \in 1..Len(s)
      BY <2>2, <3>1
    <3>3. i \in StraysIn(s)
      BY <1>6, <3>2, RanOnStrays
    <3>4. u[i] = s[i]
      BY <1>6, <3>2 DEF RanOn
    <3>5. QED
      BY <1>1, <3>3, <3>4 DEF Told
  <2>3. QED
    BY <2>1, <2>2
<1>9. Told(m, u, t)
  BY <1>1, <1>7, <1>8 DEF Told
<1>10. Len(u) \in StraysIn(u)
  <2>1. Len(u) \in DOMAIN u
    BY <1>6 DEF RanOn
  <2>2. QED
    BY <1>3, <1>6, <2>1 DEF StraysIn
<1>11. QED
  BY <1>6, <1>9, <1>10

-----------------------------------------------------------------------------
\* Where the consoles are while c hashes have been taken.
LEMMA CountsBounds ==
    ASSUME NEW m \in Machine, NEW l, NEW c \in Nat, NEW s, NEW t \in [Console -> Nat],
           Told(m, s, t), Counts(m, l, c, s, t)
    PROVE  /\ c * Apart \in Nat /\ (c + 1) * Apart = c * Apart + Apart
           /\ t["first"] \in Nat /\ t["second"] \in Nat
           /\ c * Apart <= t["second"] /\ t["first"] <= c * Apart + Apart
           /\ l.due = {} => t["first"] < c * Apart + Apart
<1>1. PICK b \in Nat \ {0} : b = Apart
  BY ApartIs
<1>2. PICK x \in Nat : x = c * b
  BY <1>1
<1>3. (c + 1) * b = x + b
  BY <1>2, Scales
<1>4. /\ t["first"] \in Nat /\ t["second"] \in Nat
      /\ t["second"] <= t["first"] /\ t["first"] <= t["second"] + 1
  BY DEF Told, Console
<1>5. CASE l.due = {}
  <2>1. x <= t["second"] /\ t["first"] < x + b
    BY <1>1, <1>2, <1>3, <1>5 DEF Counts
  <2>2. QED
    BY <1>1, <1>2, <1>3, <1>4, <2>1
<1>6. CASE l.due # {}
  <2>1. t["first"] = x + b
    BY <1>1, <1>2, <1>3, <1>6 DEF Counts
  <2>2. QED
    BY <1>1, <1>2, <1>3, <1>4, <1>6, <2>1
<1>7. QED
  BY <1>5, <1>6

\* Machine m sends frame r of its own console, the hash that is held with it.
LEMMA SendsHash ==
    ASSUME NEW m \in Machine, NEW l, NEW c \in Nat, NEW s \in Seq(Entries),
           NEW t \in [Console -> Nat], Told(m, s, t), Hashing(m, l, c, s, t),
           NEW r \in Nat, r = l.nextSend - Delay, t[m] = r * FrameTicks[m],
           m = "first" => l.due = {}, m = "second" => t["second"] < t["first"],
           NEW a, a.due = l.due, a.nextSend - Delay - 1 = r, a.computed = l.computed,
           a.pending = {}, a.received = l.received,
           NEW msg, msg.hash = l.pending, msg.frame - Delay = r, l.nextSend - Delay - 1 = r - 1
    PROVE  Hashing(m, a, c, s, t) /\ Reports(msg, m, s, t)
<1>1. PICK b \in Nat \ {0}, n \in Nat \ {0} : b = Apart /\ n = FrameTicks[m] /\ n <= b
  BY ApartIs
<1>2. PICK x \in Nat, y \in Nat : x = c * b /\ y = r * n
  BY <1>1
<1>3. (r - 1) * n = y - n
  BY <1>1, <1>2, Scales
<1>4. Counts(m, l, c, s, t) /\ Remembers(l, c, s, t) /\ Holds(m, l, c, s, t) /\ l.received = {}
  BY DEF Hashing
<1>5. /\ t["first"] \in Nat /\ t["second"] \in Nat
      /\ x <= t["second"] /\ t["first"] <= x + b /\ (c + 1) * b = x + b
      /\ l.due = {} => t["first"] < x + b
  BY <1>1, <1>2, <1>4, CountsBounds
<1>6. t["second"] <= t["first"] /\ (m = "first" \/ m = "second") /\ t[m] = y
  BY <1>1, <1>2 DEF Told, Machine, Console
<1>7. x <= y /\ y < x + b
  BY <1>1, <1>2, <1>5, <1>6
<1>8. Counts(m, a, c, s, t)
  <2>1. CASE l.due = {}
    BY <1>4, <2>1 DEF Counts
  <2>2. CASE l.due # {}
    <3>1. m = "second" /\ y < t["first"]
      BY <1>6, <2>2
    <3>2. (a.nextSend - Delay - 1) * FrameTicks[m] < t["first"]
      BY <1>1, <1>2, <3>1
    <3>3. QED
      BY <1>4, <2>2, <3>2 DEF Counts
  <2>3. QED
    BY <2>1, <2>2
<1>9. Remembers(a, c, s, t)
  BY <1>4 DEF Remembers
<1>10. Holds(m, a, c, s, t)
  <2>1. ~(c * Apart > (a.nextSend - Delay - 1) * FrameTicks[m])
    BY <1>1, <1>2, <1>7
  <2>2. QED
    BY <2>1 DEF Holds
<1>11. \A j \in Number : Carries(m, msg.frame - Delay, j) <=> y - n < j * b /\ j * b <= y
  BY <1>1, <1>2, <1>3 DEF Carries
<1>12. Reports(msg, m, s, t)
  <2>1. CASE c > 0 /\ x > y - n
    <3>1. c * Apart > (l.nextSend - Delay - 1) * FrameTicks[m]
      BY <1>1, <1>2, <1>3, <2>1
    <3>2. PICK h \in Hash : l.pending = {h} /\ h.frame = Interval * c /\ Honest(h, s, t)
      BY <1>4, <2>1, <3>1 DEF Holds
    <3>3. c \in Number /\ Carries(m, msg.frame - Delay, c)
      BY <1>2, <1>7, <1>11, <2>1 DEF Number
    <3>4. ASSUME NEW j \in Number, Carries(m, msg.frame - Delay, j)
          PROVE  j = c
      <4>1. j \in Nat /\ y - n < j * b /\ j * b <= y
        BY <1>11, <3>4 DEF Number
      <4>2. PICK z \in Nat : z = j * b
        BY <4>1
      <4>3. /\ (c + 1) * b = x + b /\ (j + 1) * b = z + b
            /\ (j < c + 1 <=> j * b < (c + 1) * b)
            /\ (c < j + 1 <=> c * b < (j + 1) * b)
        <5>1. j \in Int /\ c \in Int /\ j + 1 \in Int /\ c + 1 \in Int
          BY <4>1
        <5>2. QED
          BY <1>2, <4>2, <5>1, Scales
      <4>4. z < x + b /\ x < z + b
        BY <1>1, <1>7, <4>1, <4>2
      <4>5. j < c + 1 /\ c < j + 1
        BY <1>2, <4>2, <4>3, <4>4
      <4>6. QED
        BY <4>1, <4>5
    <3>5. QED
      BY <3>2, <3>3, <3>4 DEF Reports
  <2>2. CASE ~(c > 0 /\ x > y - n)
    <3>1. ~(c > 0 /\ c * Apart > (l.nextSend - Delay - 1) * FrameTicks[m])
      BY <1>1, <1>2, <1>3, <2>2
    <3>2. l.pending = {}
      BY <1>4, <3>1 DEF Holds
    <3>3. ASSUME NEW j \in Number, Carries(m, msg.frame - Delay, j)
          PROVE  FALSE
      <4>1. j \in Nat /\ j > 0 /\ y - n < j * b /\ j * b <= y
        BY <1>11, <3>3 DEF Number
      <4>2. PICK z \in Nat : z = j * b
        BY <4>1
      <4>3. (j < c + 1 <=> j * b < (c + 1) * b) /\ (c < j <=> c * b < j * b)
        <5>1. j \in Int /\ c \in Int /\ c + 1 \in Int
          BY <4>1
        <5>2. QED
          BY <5>1, Scales
      <4>4. z < x + b
        BY <1>1, <1>7, <4>1, <4>2
      <4>5. j < c + 1
        BY <1>5, <4>2, <4>3, <4>4
      <4>6. c > 0 /\ x <= y - n /\ y - n < z
        BY <1>2, <2>2, <4>1, <4>2, <4>5
      <4>7. c < j
        BY <1>2, <4>2, <4>3, <4>6
      <4>8. QED
        BY <4>1, <4>5, <4>7
    <3>4. QED
      BY <3>2, <3>3 DEF Reports
  <2>3. QED
    BY <2>1, <2>2
<1>13. QED
  BY <1>4, <1>8, <1>9, <1>10, <1>12 DEF Hashing

\* Something but a step happens, and an event not to the first console while a hash is due.
LEMMA WaitsHashing ==
    ASSUME NEW m, NEW l, NEW c \in Nat, NEW s \in Seq(Entries), NEW t \in [Console -> Nat],
           Told(m, s, t), Hashing(m, l, c, s, t), NEW s2, RanOn(m, s, t, s2, t),
           l.due = {} \/ t["second"] < t["first"] \/ StraysIn(s2) # {}
    PROVE  Hashing(m, l, c, s2, t)
<1>1. Remembers(l, c, s2, t) /\ Holds(m, l, c, s2, t) /\ l.received = {}
  BY MemoryStays DEF Hashing
<1>2. t["first"] \in Nat /\ t["second"] \in Nat
  BY DEF Console
<1>3. t["second"] < t["first"] => t["second"] # t["first"]
  BY <1>2
<1>4. Counts(m, l, c, s2, t)
  <2>1. Counts(m, l, c, s, t)
    BY DEF Hashing
  <2>2. CASE l.due = {}
    BY <2>1, <2>2 DEF Counts
  <2>3. CASE l.due # {}
    BY <1>3, <2>1, <2>3 DEF Counts
  <2>4. QED
    BY <2>2, <2>3
<1>5. QED
  BY <1>1, <1>4 DEF Hashing

\* The second console catches up.
LEMMA SecondHashing ==
    ASSUME NEW m, NEW l, NEW c \in Nat, NEW s \in Seq(Entries), NEW t \in [Console -> Nat],
           Told(m, s, t), Hashing(m, l, c, s, t), t["second"] < t["first"],
           NEW s2, NEW t2, RanOn(m, s, t, s2, t2), Ticked(s2),
           t2["first"] = t["first"], t2["second"] = t["second"] + 1
    PROVE  Hashing(m, l, c, s2, t2)
<1>1. Remembers(l, c, s2, t2) /\ Holds(m, l, c, s2, t2) /\ l.received = {}
  BY MemoryStays DEF Hashing
<1>2. t["first"] \in Nat /\ t["second"] \in Nat
  BY DEF Console
<1>3. Counts(m, l, c, s2, t2)
  <2>1. Counts(m, l, c, s, t)
    BY DEF Hashing
  <2>2. CASE l.due = {}
    <3>1. PICK x \in Nat : x = c * Apart
      BY ApartIs
    <3>2. x <= t["second"]
      BY <2>1, <2>2, <3>1 DEF Counts
    <3>3. c * Apart <= t2["second"]
      BY <1>2, <3>1, <3>2
    <3>4. QED
      BY <2>1, <2>2, <3>3 DEF Counts
  <2>3. CASE l.due # {}
    BY <2>1, <2>3 DEF Counts
  <2>4. QED
    BY <2>2, <2>3
<1>4. QED
  BY <1>1, <1>3 DEF Hashing

\* The first console steps: the next hash is due where it completes its frame.
LEMMA FirstHashing ==
    ASSUME NEW m \in Machine, NEW l, LinkTyped(l), NEW c \in Nat,
           NEW s \in Seq(Entries), NEW t \in [Console -> Nat],
           Told(m, s, t), Hashing(m, l, c, s, t), l.due = {}, t["first"] = t["second"],
           (l.nextSend - Delay - 1) * FrameTicks[m] <= t["first"],
           NEW s2, NEW t2, RanOn(m, s, t, s2, t2),
           t2["first"] = t["first"] + 1, t2["second"] = t["second"],
           NEW x, x = WithDue(l, "first", t["first"] + 1)
    PROVE  Hashing(m, x, c, s2, t2)
<1>1. PICK b \in Nat \ {0}, n \in Nat \ {0}, v \in Nat \ {0} :
        b = Apart /\ n = FrameTicks["first"] /\ v = Interval
  BY ApartIs, TicksAssumption, WindowsAssumption DEF Console
<1>2. PICK u \in Nat : u = t["first"] + 1 /\ u = t["second"] + 1
  BY DEF Console
<1>3. PICK y \in Nat : y = c * b
  BY <1>1
<1>4. Counts(m, l, c, s, t) /\ y <= t["second"] /\ t["first"] < y + b /\ (c + 1) * b = y + b
      /\ t["first"] \in Nat
  <2>1. Counts(m, l, c, s, t)
    BY DEF Hashing
  <2>2. QED
    BY <1>1, <1>3, <2>1, CountsBounds
<1>5. u <= y + b /\ y < u
  BY <1>1, <1>2, <1>4
<1>6. Remembers(l, c, s2, t2) /\ Holds(m, l, c, s2, t2) /\ l.received = {}
  BY MemoryStays DEF Hashing
<1>7. CASE u = y + b
  <2>1. PICK q \in Nat : q = Interval * (c + 1) /\ q * n = u /\ q = v * (c + 1)
    <3>1. (c + 1) * Apart = (Interval * (c + 1)) * FrameTicks["first"] /\ v * (c + 1) \in Nat
      BY ApartIs
    <3>2. QED
      BY <1>1, <1>4, <1>7, <3>1
  <2>2. u \div n = q /\ u % n = 0
    <3>1. \A j \in Nat : (j * n) \div n = j /\ (j * n) % n = 0
      OBVIOUS
    <3>2. QED
      BY <2>1, <3>1
  <2>3. q % v = 0
    <3>1. \A j \in Nat : (v * j) % v = 0
      OBVIOUS
    <3>2. PICK k \in Nat : k = c + 1
      OBVIOUS
    <3>3. (v * k) % v = 0 /\ q = v * k
      BY <2>1, <3>1, <3>2
    <3>4. QED
      BY <3>3, Zenon
  <2>4. x = [l EXCEPT !.due = {q}]
    BY <1>1, <1>2, <2>2, <2>3 DEF WithDue
  <2>5. /\ x.due = {q} /\ x.nextSend = l.nextSend /\ x.computed = l.computed
        /\ x.pending = l.pending /\ x.received = l.received
    BY <2>4 DEF LinkTyped, LinkFields
  <2>6. PICK z \in Int : z = (l.nextSend - Delay - 1) * FrameTicks[m]
    <3>1. l.nextSend \in Nat /\ Delay \in Nat /\ FrameTicks[m] \in Nat
      BY DelayAssumption, TicksAssumption DEF LinkTyped, Machine
    <3>2. QED
      BY <3>1
  <2>7. z < t2["first"] /\ t2["first"] = (c + 1) * Apart /\ t2["second"] # t2["first"]
    BY <1>1, <1>2, <1>4, <1>7, <2>6
  <2>8. Counts(m, x, c, s2, t2)
    BY <2>1, <2>5, <2>6, <2>7 DEF Counts
  <2>9. QED
    BY <1>6, <2>5, <2>8 DEF Hashing, Remembers, Holds
<1>8. CASE u # y + b
  <2>1. x = l
    <3>1. SUFFICES ASSUME u % n = 0, (u \div n) % v = 0
                   PROVE  FALSE
      BY <1>1, <1>2 DEF WithDue
    <3>2. PICK q \in Nat : q = u \div n /\ u = q * n
      <4>1. u \div n \in Nat /\ u = n * (u \div n) + (u % n)
        BY Ticks
      <4>2. PICK q \in Nat : q = u \div n
        BY <4>1
      <4>3. PICK p \in Nat : p = n * q /\ p = q * n
        OBVIOUS
      <4>4. u = p + 0
        BY <3>1, <4>1, <4>2, <4>3, Zenon
      <4>5. u = q * n
        BY <4>3, <4>4
      <4>6. QED
        BY <4>2, <4>5, Zenon
    <3>3. PICK j \in Nat : q = v * j
      <4>1. q \div v \in Nat /\ q = v * (q \div v) + (q % v) /\ q % v = 0
        BY <3>1, <3>2, Ticks
      <4>2. PICK j \in Nat : j = q \div v
        BY <4>1
      <4>3. PICK p \in Nat : p = v * j
        OBVIOUS
      <4>4. q = p + 0
        BY <4>1, <4>2, <4>3, Zenon
      <4>5. QED
        BY <4>3, <4>4
    <3>4. u = j * b
      <4>1. j * Apart = (Interval * j) * FrameTicks["first"]
        BY ApartIs
      <4>2. QED
        BY <1>1, <3>2, <3>3, <4>1
    <3>5. (c < j <=> c * b < j * b) /\ (j < c + 1 <=> j * b < (c + 1) * b)
      BY Scales
    <3>6. c < j /\ j < c + 1
      BY <1>3, <1>4, <1>5, <1>8, <3>4, <3>5
    <3>7. QED
      BY <3>6
  <2>2. c * Apart <= t2["second"] /\ t2["first"] < (c + 1) * Apart
    <3>1. c * Apart = y /\ (c + 1) * Apart = y + b
      BY <1>1, <1>3, <1>4, Zenon
    <3>2. y <= t2["second"] /\ t2["first"] < y + b
      BY <1>2, <1>4, <1>5, <1>8
    <3>3. QED
      BY <3>1, <3>2, Zenon
  <2>3. Counts(m, x, c, s2, t2)
    BY <2>1, <2>2 DEF Counts
  <2>4. QED
    BY <1>6, <2>1, <2>3 DEF Hashing
<1>9. QED
  BY <1>7, <1>8

-----------------------------------------------------------------------------
\* What is not done to a link's hashes.
SameHashes(new, l) ==
    /\ new.due = l.due /\ new.nextSend = l.nextSend /\ new.computed = l.computed
    /\ new.pending = l.pending /\ new.received = l.received /\ new.failure = l.failure

\* A link remembers its own hash of a frame, and it is another than the partner's.
Remembered(l, frame) == \E i \in DOMAIN l.computed : l.computed[i].frame = frame
Differs(l, hashes) == \E g \in hashes, i \in DOMAIN l.computed :
                          g.frame = l.computed[i].frame /\ g.of # l.computed[i].of

\* The hash that comes with the partner's next frame is one that machine m remembers.
LEMMA KnowsHash ==
    ASSUME NEW m \in Machine, NEW o \in Machine, NEW l, NEW c \in Nat, NEW s,
           NEW t \in [Console -> Nat], Told(m, s, t), Hashing(m, l, c, s, t),
           NEW f \in Nat, Delay <= f, t[o] = f * FrameTicks[o],
           o = "first" => l.due = {}, o = "second" => t["second"] < t["first"],
           NEW j \in Number, Carries(o, f - Delay, j)
    PROVE  Remembered(l, Interval * j)
<1>1. PICK b \in Nat \ {0}, n \in Nat \ {0}, d \in Nat \ {0}, w \in Nat \ {0} :
        /\ b = Apart /\ n = FrameTicks[o] /\ d = Delay /\ w = Window
        /\ (d + 1) * n <= w * b
  BY ApartIs, DelayAssumption, WindowsAssumption
<1>2. PICK r \in Nat : r = f - d /\ f = r + d
  BY <1>1
<1>3. PICK x \in Nat, y \in Nat, z \in Nat, e \in Nat, u \in Nat :
        x = c * b /\ y = r * n /\ z = j * b /\ e = d * n /\ u = w * b
  <2>1. j \in Nat /\ \A v, k \in Nat : v * k \in Nat
    BY DEF Number
  <2>2. c * b \in Nat /\ r * n \in Nat /\ j * b \in Nat /\ d * n \in Nat /\ w * b \in Nat
    BY <2>1
  <2>3. QED
    BY <2>2, Zenon
<1>4. /\ (r - 1) * n = y - n /\ (r + d) * n = y + e /\ (d + 1) * n = e + n
      /\ (j + w) * b = z + u /\ (c + 1) * b = x + b
  <2>1. r \in Int /\ d \in Int /\ j \in Int /\ w \in Int /\ c \in Int
    BY <1>1 DEF Number
  <2>2. QED
    BY <1>1, <1>3, <2>1, Scales
<1>5. y - n < z /\ z <= y /\ t[o] = y + e /\ e + n <= u
  BY <1>1, <1>2, <1>3, <1>4 DEF Carries
<1>6. e > 0
  BY <1>1, <1>3
<1>7. Counts(m, l, c, s, t) /\ Remembers(l, c, s, t)
  BY DEF Hashing
<1>8. /\ t["first"] \in Nat /\ t["second"] \in Nat
      /\ x <= t["second"] /\ t["first"] <= x + b
      /\ l.due = {} => t["first"] < x + b
      /\ t["second"] <= t["first"]
  BY <1>1, <1>3, <1>7, CountsBounds DEF Told
<1>9. x <= y + e /\ y + e < x + b
  <2>1. CASE o = "first"
    BY <1>5, <1>8, <2>1
  <2>2. CASE o = "second"
    BY <1>5, <1>8, <2>2
  <2>3. QED
    BY <2>1, <2>2 DEF Machine, Console
<1>10. j < c + 1 /\ c < j + w
  <2>1. z < x + b /\ x < z + u
    BY <1>1, <1>5, <1>6, <1>9
  <2>2. j \in Int /\ c \in Int /\ c + 1 \in Int /\ j + w \in Int
    BY <1>1 DEF Number
  <2>3. (j < c + 1 <=> j * b < (c + 1) * b) /\ (c < j + w <=> c * b < (j + w) * b)
    BY <2>2, Scales
  <2>4. QED
    BY <1>3, <1>4, <2>1, <2>3
<1>11. PICK q : q = l.computed
  OBVIOUS
<1>12. PICK k \in Nat : k = Len(q) /\ k = (IF c < w THEN c ELSE w) /\ DOMAIN q = 1..k
  <2>1. Newly(q, c)
    BY <1>7, <1>11 DEF Remembers
  <2>2. QED
    BY <1>1, <2>1 DEF Newly
<1>13. PICK i \in 1..k : c - k + i = j
  <2>1. j \in Nat /\ j > 0
    BY DEF Number
  <2>2. (j - c) + k \in 1..k /\ c - k + ((j - c) + k) = j
    BY <1>10, <1>12, <2>1
  <2>3. QED
    BY <2>2
<1>14. q[i].frame = Interval * (c - Len(q) + i)
  BY <1>7, <1>11, <1>12, <1>13, Zenon DEF Remembers
<1>15. QED
  BY <1>11, <1>12, <1>13, <1>14, Zenon DEF Remembered

\* Hashes that agree: nothing had strayed on either machine.
LEMMA AgreeingHashes ==
    ASSUME NEW m, NEW s \in Seq(Entries), NEW t, NEW g \in Hash, Told(m, s, t), Honest(g, s, t),
           NEW o, NEW u \in Seq(Entries), NEW w, NEW h \in Hash, Told(o, u, w), Honest(h, u, w),
           m # o, g.frame = h.frame, g.of = h.of
    PROVE  \A i \in StraysIn(s) : s[i].stray >= g.frame
<1> SUFFICES ASSUME NEW i \in StraysIn(s), ~(s[i].stray >= g.frame)
             PROVE  FALSE
  OBVIOUS
<1>1. i \in 1..Len(s) /\ s[i].stray \in Nat /\ g.frame \in Nat
  BY StrayTypesIn DEF Hash
<1>2. i <= Len(g.of)
  <2>1. s[i].stray < g.frame
    BY <1>1
  <2>2. QED
    BY <2>1 DEF Honest
<1>3. i \in 1..Len(g.of) /\ Len(g.of) \in Nat
  BY <1>1, <1>2 DEF Hash
<1>4. g.of[i] = s[i]
  BY <1>3 DEF Honest
<1>5. h.of[i] = u[i] /\ i \in 1..Len(u)
  BY <1>3 DEF Honest
<1>6. u[i] = s[i]
  BY <1>4, <1>5
<1>7. i \in StraysIn(u)
  BY <1>1, <1>5, <1>6 DEF StraysIn
<1>8. s[i].on = m /\ u[i].on = o
  BY <1>7 DEF Told
<1>9. QED
  BY <1>6, <1>8

\* Where nothing strayed and one trace begins the other, hashes of one frame agree.
LEMMA HashesAgree ==
    ASSUME NEW s \in Seq(Entries), NEW t, NEW g \in Hash, Honest(g, s, t), StraysIn(s) = {},
           NEW u \in Seq(Entries), NEW w, NEW h \in Hash, Honest(h, u, w), StraysIn(u) = {},
           IsPrefix(s, u) \/ IsPrefix(u, s), g.frame = h.frame
    PROVE  g.of = h.of
<1>1. g.of \in Seq(Entries) /\ h.of \in Seq(Entries)
  BY DEF Hash
<1>2. /\ Ticked(g.of) /\ Ticked(h.of) /\ Steps(g.of) = Steps(h.of)
      /\ Len(g.of) <= Len(s) /\ \A i \in 1..Len(g.of) : g.of[i] = s[i]
      /\ Len(h.of) <= Len(u) /\ \A i \in 1..Len(h.of) : h.of[i] = u[i]
  BY DEF Honest
<1>3. \A a, b \in Seq(Entries) : IsPrefix(a, b) => \A i \in 1..Len(a) : i <= Len(b) => a[i] = b[i]
  <2>1. SUFFICES ASSUME NEW a \in Seq(Entries), NEW b \in Seq(Entries), IsPrefix(a, b),
                        NEW i \in 1..Len(a), i <= Len(b)
                 PROVE  a[i] = b[i]
    OBVIOUS
  <2>2. Len(a) <= Len(b) /\ SubSeq(a, 1, Len(a)) = SubSeq(b, 1, Len(a))
    BY <2>1, Zenon DEF IsPrefix
  <2>3. SubSeq(a, 1, Len(a))[i] = a[i] /\ SubSeq(b, 1, Len(a))[i] = b[i]
    BY <2>2
  <2>4. QED
    BY <2>2, <2>3
<1>4. ASSUME NEW i \in 1..Len(g.of), i <= Len(h.of)
      PROVE  g.of[i] = h.of[i]
  <2>1. Len(g.of) \in Nat /\ Len(h.of) \in Nat /\ Len(s) \in Nat /\ Len(u) \in Nat
    BY <1>1
  <2>2. /\ i \in 1..Len(h.of) /\ i \in 1..Len(s) /\ i <= Len(s)
        /\ i \in 1..Len(u) /\ i <= Len(u)
    BY <1>2, <1>4, <2>1
  <2>3. s[i] = u[i]
    BY <1>3, <2>2
  <2>4. QED
    BY <1>2, <2>2, <2>3
<1>5. QED
  BY <1>1, <1>2, <1>4, SameCut

\* Hashes that meet one that machine m remembers are dropped again.
LEMMA ReceivesHashes ==
    ASSUME NEW l0, LinkTyped(l0), l0.received = {}, NEW hashes,
           \A h \in hashes : Remembered(l0, h.frame),
           NEW l, l = WithReceived(l0, hashes),
           NEW a, a = IF hashes = {} THEN l ELSE Unmatched(l)
    PROVE  SameHashes(a, l0) /\ (Mismatch(l) <=> Differs(l0, hashes))
<1>1. PICK both : both = l0.received \union hashes
  OBVIOUS
<1>2. both = hashes
  BY <1>1
<1>3. l = [l0 EXCEPT !.received = both]
  BY <1>1, Zenon DEF WithReceived
<1>4. /\ l.received = hashes /\ l.due = l0.due /\ l.nextSend = l0.nextSend
      /\ l.computed = l0.computed /\ l.pending = l0.pending /\ l.failure = l0.failure
      /\ DOMAIN l = LinkFields
  BY <1>2, <1>3 DEF LinkTyped, LinkFields
<1>5. Mismatch(l) <=> Differs(l0, hashes)
  BY <1>4 DEF Mismatch, Differs
<1>6. CASE hashes = {}
  BY <1>4, <1>5, <1>6 DEF SameHashes
<1>7. CASE hashes # {}
  <2>1. \A h \in hashes : Known(l, h)
    BY <1>4 DEF Known, Remembered
  <2>2. PICK rest : rest = Newest({h \in l.received :
            ~Known(l, h) /\ h.frame >= (IF l.computed = <<>> THEN 0 ELSE l.computed[1].frame)})
    OBVIOUS
  <2>3. rest = {}
    BY <1>4, <2>1, <2>2 DEF Newest
  <2>4. a = [l EXCEPT !.received = rest]
    BY <1>7, <2>2 DEF Unmatched
  <2>5. QED
    BY <1>4, <1>5, <2>3, <2>4 DEF LinkFields, SameHashes
<1>8. QED
  BY <1>6, <1>7

-----------------------------------------------------------------------------
\* What the hashes of machine m's pair tell.
Telling(m) ==
    /\ Told(m, trace[m], time[m])
    /\ Reported(m)
    /\ Alive(m) => /\ \E c \in Nat : Hashing(m, link[m], c, trace[m], time[m])
                   /\ Checked(m)

AllTelling == \A m \in Machine : Telling(m)

LEMMA ComingTypes ==
    ASSUME Typed, NEW m \in Machine
    PROVE  Coming(m) \subseteq FrameMessages /\ \A msg \in Coming(m) : msg.hash \subseteq Hash
<1>1. PartnerTyped(partner[m]) /\ net[m] \in Seq(Messages)
  BY TypedParts
<1>2. \A f \in DOMAIN partner[m].frames : partner[m].frames[f] \in FrameMessages
  BY <1>1 DEF PartnerTyped
<1>3. \A i \in DOMAIN net[m] : net[m][i].kind = "frame" => net[m][i] \in FrameMessages
  BY <1>1 DEF Messages, Signs
<1>4. Coming(m) \subseteq FrameMessages
  BY <1>2, <1>3 DEF Coming
<1>5. QED
  BY <1>4 DEF FrameMessages

\* Nothing strays on machine j.
StraysStay(j) ==
    StraysIn(trace'[j]) = StraysIn(trace[j])
    /\ \A i \in StraysIn(trace[j]) : trace'[j][i] = trace[j][i]

LEMMA CheckedStays ==
    ASSUME Typed, NEW m \in Machine, Checked(m), \A j \in Machine : StraysStay(j),
           \/ time'[m][Other(m)] = time[m][Other(m)]
           \/ time'[m][Other(m)] = time[m][Other(m)] + 1 /\ MidFrame(m, Other(m))
    PROVE  Checked(m)'
<1>1. PICK o \in Machine : o = Other(m)
  BY Pairs
<1>2. PICK n \in Nat \ {0}, t \in Nat : n = FrameTicks[o] /\ t = time[m][o]
  BY <1>1, TicksAssumption, TypedParts, Pairs DEF Machine
<1>3. ASSUME NEW r \in Nat, (r + Delay) * n < time'[m][o]
      PROVE  (r + Delay) * n < t
  <2>1. CASE time'[m][o] = t
    BY <1>3, <2>1
  <2>2. CASE time'[m][o] = t + 1 /\ MidFrame(m, o)
    <3>1. PICK k \in Nat : k = r + Delay
      BY DelayAssumption
    <3>2. PICK x \in Nat : x = k * n
      OBVIOUS
    <3>3. x % n = 0
      BY <3>2
    <3>4. t % n # 0
      BY <1>2, <2>2 DEF MidFrame
    <3>5. x < t + 1 /\ x # t
      BY <1>3, <2>2, <3>1, <3>2, <3>3, <3>4
    <3>6. x < t
      BY <3>5
    <3>7. QED
      BY <3>1, <3>2, <3>6
  <2>3. QED
    BY <1>1, <1>2, <2>1, <2>2
<1>4. SUFFICES ASSUME NEW r \in Nat, NEW v \in Number, Carries(o, r, v),
                      (r + Delay) * n < time'[m][o],
                      NEW s \in Machine, NEW i \in StraysIn(trace'[s])
               PROVE  trace'[s][i].stray >= Interval * v
  BY <1>1, <1>2 DEF Checked, Carries
<1>5. (r + Delay) * n < t
  BY <1>3, <1>4
<1>6. i \in StraysIn(trace[s]) /\ trace'[s][i] = trace[s][i]
  BY <1>4 DEF StraysStay
<1>7. QED
  BY <1>1, <1>2, <1>4, <1>5, <1>6 DEF Checked

\* How it goes on.
LEMMA TellingAfter ==
    ASSUME Typed, AllTelling,
           \A j \in Machine : /\ RanOn(j, trace[j], time[j], trace'[j], time'[j])
                              /\ Told(j, trace'[j], time'[j]),
           \A j \in Machine : \A msg \in Coming(j)' :
              msg \in Coming(j) \/ Reports(msg, Other(j), trace'[Other(j)], time'[Other(j)]),
           \A j \in Machine : Alive(j)' =>
              /\ \E c \in Nat : Hashing(j, link'[j], c, trace'[j], time'[j])
              /\ Checked(j)'
    PROVE  AllTelling'
<1> SUFFICES ASSUME NEW j \in Machine
             PROVE  Telling(j)'
  BY DEF AllTelling
<1>1. PICK o \in Machine : o = Other(j)
  BY Pairs
<1>2. /\ trace[o] \in Seq(Entries) /\ time[o] \in [Console -> Nat]
      /\ Told(o, trace[o], time[o]) /\ RanOn(o, trace[o], time[o], trace'[o], time'[o])
  BY TypedParts DEF AllTelling, Telling
<1>3. ASSUME NEW msg \in Coming(j)'
      PROVE  Reports(msg, o, trace'[o], time'[o])
  <2>1. CASE msg \in Coming(j)
    <3>1. msg.hash \subseteq Hash /\ Reports(msg, o, trace[o], time[o])
      BY <1>1, <2>1, ComingTypes DEF AllTelling, Telling, Reported
    <3>2. QED
      BY <1>2, <3>1, ReportsStay
  <2>2. CASE msg \notin Coming(j)
    BY <1>1, <1>3, <2>2
  <2>3. QED
    BY <2>1, <2>2
<1>4. Reported(j)'
  BY <1>1, <1>3 DEF Reported
<1>5. QED
  BY <1>4 DEF Telling

\* Nothing happens to the pairs.
LEMMA StillRanOn ==
    ASSUME NEW m, NEW s \in Seq(Entries), NEW t \in [Console -> Nat]
    PROVE  RanOn(m, s, t, s, t)
<1>1. \A i \in StraysIn(s) : i \in 1..Len(s)
  BY StrayTypesIn
<1>2. QED
  BY <1>1 DEF RanOn, Console

LEMMA QuietTelling ==
    ASSUME Typed, AllTelling, UNCHANGED <<trace, time>>,
           \A j \in Machine : Coming(j)' \subseteq Coming(j),
           \A j \in Machine : Alive(j)' =>
              Alive(j) /\ \E c \in Nat : Hashing(j, link'[j], c, trace[j], time[j])
    PROVE  AllTelling'
<1>1. \A j \in Machine : /\ RanOn(j, trace[j], time[j], trace'[j], time'[j])
                         /\ Told(j, trace'[j], time'[j])
  BY StillRanOn, TypedParts DEF AllTelling, Telling
<1>2. ASSUME NEW j \in Machine, Alive(j)'
      PROVE  (\E c \in Nat : Hashing(j, link'[j], c, trace'[j], time'[j])) /\ Checked(j)'
  <2>1. Checked(j)
    BY <1>2 DEF AllTelling, Telling
  <2>2. \A k \in Machine : StraysStay(k)
    BY DEF StraysStay
  <2>3. Checked(j)'
    BY <2>1, <2>2, CheckedStays
  <2>4. QED
    BY <1>2, <2>3
<1>3. QED
  BY <1>1, <1>2, TellingAfter

\* The link ends on machine m.
LEMMA EndsComing ==
    ASSUME Typed, NEW m \in Machine, NEW failure, NEW told \in Seq(Signs), Ends(m, failure, told)
    PROVE  /\ \A j \in Machine : Coming(j)' \subseteq Coming(j)
           /\ ~Alive(m)' /\ link'[m].failure = failure
           /\ \A j \in Machine : j # m => link'[j] = link[j]
<1>1. PICK o \in Machine : o = Other(m) /\ o # m /\ \A j \in Machine : j = m \/ j = o
  BY Pairs
<1>2. link'[m] = LinkIn("ended", failure) /\ \A j \in Machine : j # m => link'[j] = link[j]
  BY DEF Ends, Typed
<1>3. ~Alive(m)' /\ link'[m].failure = failure
  BY <1>2 DEF Alive, LinkIn
<1>4. Coming(m)' = {}
  <2>1. partner'[m] = NoFrames /\ net'[m] = <<>>
    BY <1>1 DEF Ends, Typed
  <2>2. DOMAIN partner'[m].frames = {} /\ DOMAIN net'[m] = {}
    BY <2>1 DEF NoFrames
  <2>3. QED
    BY <2>2 DEF Coming
<1>5. Coming(o)' \subseteq Coming(o)
  <2>1. partner'[o] = partner[o] /\ net'[o] = net[o] \o told /\ net[o] \in Seq(Messages)
    BY <1>1 DEF Ends, Typed
  <2>2. \A i \in DOMAIN told : told[i].kind # "frame"
    <3>1. \A x \in Signs : x.kind # "frame"
      BY DEF Signs
    <3>2. \A i \in DOMAIN told : told[i] \in Signs
      OBVIOUS
    <3>3. QED
      BY <3>1, <3>2
  <2>3. told \in Seq(Messages)
    BY DEF Messages
  <2>4. \A i \in DOMAIN net'[o] : net'[o][i].kind = "frame" =>
            i \in DOMAIN net[o] /\ net'[o][i] = net[o][i]
    <3>1. \A a, b \in Seq(Messages) : \A i \in DOMAIN (a \o b) :
             \/ i \in DOMAIN a /\ (a \o b)[i] = a[i]
             \/ \E j \in DOMAIN b : (a \o b)[i] = b[j]
      <4>1. SUFFICES ASSUME NEW a \in Seq(Messages), NEW b \in Seq(Messages),
                            NEW i \in DOMAIN (a \o b), i \notin DOMAIN a
                     PROVE  \E j \in DOMAIN b : (a \o b)[i] = b[j]
        OBVIOUS
      <4>2. i - Len(a) \in DOMAIN b /\ (a \o b)[i] = b[i - Len(a)]
        BY <4>1
      <4>3. QED
        BY <4>2
    <3>2. QED
      BY <2>1, <2>2, <2>3, <3>1
  <2>5. QED
    BY <2>1, <2>4 DEF Coming
<1>6. QED
  BY <1>1, <1>2, <1>3, <1>4, <1>5

LEMMA EndsAnyhowTelling ==
    ASSUME Typed, AllTelling, NEW m \in Machine, EndsAnyhow(m)
    PROVE  AllTelling'
<1>1. PICK failure, told : told \in Seq(Signs) /\ Ends(m, failure, told)
  BY EndsAnyhowEffect
<1>2. UNCHANGED <<trace, time>>
  BY EndsAnyhowEffect
<1>3. \A j \in Machine : Alive(j)' => Alive(j) /\ link'[j] = link[j]
  BY <1>1, EndsComing DEF Alive
<1>4. \A j \in Machine : Coming(j)' \subseteq Coming(j)
  BY <1>1, EndsComing
<1>5. QED
  BY <1>2, <1>3, <1>4, QuietTelling DEF AllTelling, Telling

LEMMA ArrivesTelling ==
    ASSUME Typed, AllTelling, NEW m \in Machine, Arrives(m)
    PROVE  AllTelling'
<1>1. PICK o \in Machine : o = Other(m) /\ o # m /\ \A j \in Machine : j = m \/ j = o
  BY Pairs
<1>2. net[m] \in Seq(Messages) /\ net[m] # <<>> /\ PartnerTyped(partner[m])
  BY ArrivesEffect, TypedParts
<1>3. net'[m] = Tail(net[m]) /\ net'[o] = net[o]
  BY <1>1, ArrivesEffect DEF Typed
<1>4. /\ Head(net[m]) = net[m][1] /\ 1 \in DOMAIN net[m]
      /\ \A i \in DOMAIN Tail(net[m]) : i + 1 \in DOMAIN net[m] /\ Tail(net[m])[i] = net[m][i + 1]
  BY <1>2
<1>5. ASSUME NEW j \in Machine, NEW f \in DOMAIN partner'[j].frames
      PROVE  \/ f \in DOMAIN partner[j].frames /\ partner'[j].frames[f] = partner[j].frames[f]
             \/ j = m /\ Head(net[m]).kind = "frame" /\ partner'[j].frames[f] = Head(net[m])
  <2>1. CASE partner' = partner
    BY <1>5, <2>1
  <2>2. CASE partner' = [partner EXCEPT ![m].ended = TRUE]
    <3>1. partner'[j].frames = partner[j].frames
      BY <1>2, <2>2 DEF PartnerTyped, Typed
    <3>2. QED
      BY <1>5, <3>1
  <2>3. CASE /\ Head(net[m]).kind = "frame"
             /\ partner' = [partner EXCEPT ![m] = Pushed(partner[m], Head(net[m]))]
    <3>1. Head(net[m]) \in FrameMessages
      BY <1>2, <2>3 DEF Messages, Signs
    <3>2. CASE j = m
      <4>1. partner'[m] = Pushed(partner[m], Head(net[m]))
        BY <2>3 DEF Typed
      <4>2. QED
        BY <1>2, <1>5, <2>3, <3>1, <3>2, <4>1, PushedTypes
    <3>3. CASE j # m
      <4>1. partner'[j] = partner[j]
        BY <2>3, <3>3 DEF Typed
      <4>2. QED
        BY <1>5, <4>1
    <3>4. QED
      BY <3>2, <3>3
  <2>4. QED
    BY <2>1, <2>2, <2>3, ArrivesEffect
<1>6. ASSUME NEW j \in Machine
      PROVE  Coming(j)' \subseteq Coming(j)
  <2>1. CASE j = m
    <3>1. SUFFICES ASSUME NEW msg \in Coming(m)'
                   PROVE  msg \in Coming(m)
      BY <2>1
    <3>2. Head(net[m]).kind = "frame" => Head(net[m]) \in Coming(m)
      BY <1>4 DEF Coming
    <3>3. CASE \E f \in DOMAIN partner'[m].frames : msg = partner'[m].frames[f]
      BY <1>5, <3>2, <3>3 DEF Coming
    <3>4. CASE \E i \in DOMAIN net'[m] : net'[m][i].kind = "frame" /\ msg = net'[m][i]
      <4>1. PICK i \in DOMAIN Tail(net[m]) :
              Tail(net[m])[i].kind = "frame" /\ msg = Tail(net[m])[i]
        BY <1>3, <3>4
      <4>2. i + 1 \in DOMAIN net[m] /\ net[m][i + 1].kind = "frame" /\ msg = net[m][i + 1]
        BY <1>4, <4>1
      <4>3. PICK k \in DOMAIN net[m] : net[m][k].kind = "frame" /\ msg = net[m][k]
        BY <4>2
      <4>4. QED
        BY <4>3 DEF Coming
    <3>5. QED
      BY <3>1, <3>3, <3>4 DEF Coming
  <2>2. CASE j # m
    <3>1. net'[j] = net[j]
      BY <1>1, <1>3, <2>2
    <3>2. QED
      BY <1>5, <2>2, <3>1 DEF Coming
  <2>3. QED
    BY <2>1, <2>2
<1>7. UNCHANGED <<trace, time, link>>
  BY ArrivesEffect
<1>8. \A j \in Machine : Alive(j)' => Alive(j)
  BY <1>7 DEF Alive
<1>9. QED
  BY <1>6, <1>7, <1>8, QuietTelling DEF AllTelling, Telling

-----------------------------------------------------------------------------
LEMMA FailureStays ==
    ASSUME NEW l, LinkTyped(l), NEW of \in Seq(Entries), NEW k, NEW t
    PROVE  /\ Unmatched(l).failure = l.failure
           /\ WithComputed(l, of).failure = l.failure
           /\ WithDue(l, k, t).failure = l.failure
<1>1. \A x : [l EXCEPT !.received = x].failure = l.failure
  BY DEF LinkTyped, LinkFields
<1>2. \E x : Unmatched(l) = [l EXCEPT !.received = x]
  BY Zenon DEF Unmatched
<1>3. \A x : [l EXCEPT !.due = x].failure = l.failure
  BY DEF LinkTyped, LinkFields
<1>4. WithDue(l, k, t) = l \/ \E x : WithDue(l, k, t) = [l EXCEPT !.due = x]
  BY Zenon DEF WithDue
<1>5. \A x, y, z : [l EXCEPT !.pending = x, !.due = y, !.computed = z].failure = l.failure
  BY DEF LinkTyped, LinkFields
<1>6. WithComputed(l, of) = l
      \/ \E x, y, z : WithComputed(l, of) = [l EXCEPT !.pending = x, !.due = y, !.computed = z]
  BY Zenon DEF WithComputed
<1>7. Unmatched(l).failure = l.failure
  BY <1>1, <1>2, Zenon
<1>8. WithComputed(l, of).failure = l.failure
  <2>1. CASE WithComputed(l, of) = l
    BY <2>1
  <2>2. CASE \E x, y, z : WithComputed(l, of) = [l EXCEPT !.pending = x, !.due = y, !.computed = z]
    <3>1. PICK x, y, z : WithComputed(l, of) = [l EXCEPT !.pending = x, !.due = y, !.computed = z]
      BY <2>2
    <3>2. QED
      BY <3>1 DEF LinkTyped, LinkFields
  <2>3. QED
    BY <1>6, <2>1, <2>2
<1>9. WithDue(l, k, t).failure = l.failure
  BY <1>3, <1>4, Zenon
<1>10. QED
  BY <1>7, <1>8, <1>9

LEMMA HashedFailure ==
    ASSUME Typed, NEW m \in Machine
    PROVE  Hashed(m).failure = link[m].failure /\ Unmatched(Hashed(m)).failure = link[m].failure
<1>1. LinkTyped(link[m]) /\ trace[m] \in Seq(Entries) /\ LinkTyped(Hashed(m))
  BY TypedParts, HashedKeeps
<1>2. Hashed(m).failure = link[m].failure
  BY <1>1, FailureStays DEF Hashed
<1>3. QED
  BY <1>1, <1>2, FailureStays

LEMMA ScheduleHashes ==
    ASSUME NEW l, LinkTyped(l), NEW event
    PROVE  SameHashes(Schedule(l, event), l)
<1>1. \A x : SameHashes([l EXCEPT !.queue = x], l)
  BY DEF LinkTyped, LinkFields, SameHashes
<1>2. \E x : Schedule(l, event) = [l EXCEPT !.queue = x]
  BY Zenon DEF Schedule
<1>3. QED
  BY <1>1, <1>2

LEMMA SendingHashes ==
    ASSUME NEW l, LinkTyped(l), NEW input, NEW frame, NEW a, a = AfterSending(l, input, frame)
    PROVE  /\ a.due = l.due /\ a.nextSend = l.nextSend + 1 /\ a.computed = l.computed
           /\ a.pending = {} /\ a.received = l.received /\ a.failure = l.failure
<1>1. \E x : a = [l EXCEPT !.queue = x, !.nextSend = @ + 1, !.pending = {}, !.prepared = TRUE]
  BY Zenon DEF AfterSending
<1>2. PICK x : a = [l EXCEPT !.queue = x, !.nextSend = @ + 1, !.pending = {}, !.prepared = TRUE]
  BY <1>1
<1>3. QED
  BY <1>2 DEF LinkTyped, LinkFields

\* A press, a pause, a write or a stall.
LEMMA IdlesTelling ==
    ASSUME Typed, AllTelling, NEW m \in Machine, Idles(m)
    PROVE  AllTelling' /\ \A j \in Machine : link'[j].failure = link[j].failure
<1>1. UNCHANGED <<partner, time, trace, net>>
  BY IdlesEffect
<1>2. \A j \in Machine : Alive(j)' <=> Alive(j)
  BY IdlesEffect DEF Alive
<1>3. \A j \in Machine : LinkTyped(link[j])
  BY TypedParts
<1>4. \/ \A j \in Machine : SameHashes(link'[j], link[j])
      \/ /\ link'[m] = Unmatched(Hashed(m))
         /\ \A j \in Machine : j # m => SameHashes(link'[j], link[j])
  <2>1. CASE PlugIn(m)
    <3>1. link' = [link EXCEPT ![m].phase = "running"]
      BY <2>1 DEF PlugIn
    <3>2. \A j \in Machine : link'[j] = link[j] \/ link'[j] = [link[j] EXCEPT !.phase = "running"]
      BY <3>1 DEF Typed
    <3>3. ASSUME NEW j \in Machine
          PROVE  SameHashes(link'[j], link[j])
      BY <1>3, <3>2 DEF SameHashes, LinkTyped, LinkFields
    <3>4. QED
      BY <3>3
  <2>2. CASE Stall(m)
    BY <2>2 DEF Stall, Typed, SameHashes
  <2>3. CASE Press(m) \/ Pause(m) \/ Resume(m)
    BY <2>3 DEF Press, Pause, Resume, SameHashes
  <2>4. PlugIn(m) \/ Stall(m) \/ Press(m) \/ Pause(m) \/ Resume(m)
    BY DEF Idles
  <2>5. CASE PlugIn(m)
    BY <2>1, <2>5
  <2>6. CASE Stall(m)
    BY <2>2, <2>6
  <2>7. CASE Press(m) \/ Pause(m) \/ Resume(m)
    BY <2>3, <2>7
  <2>8. QED
    BY <2>4, <2>5, <2>6, <2>7
<1>5. ASSUME NEW j \in Machine, Alive(j)'
      PROVE  \E c \in Nat : Hashing(j, link'[j], c, trace[j], time[j])
  <2>1. Alive(j) /\ Told(j, trace[j], time[j])
    BY <1>2, <1>5 DEF AllTelling, Telling
  <2>2. PICK c \in Nat : Hashing(j, link[j], c, trace[j], time[j])
    BY <2>1 DEF AllTelling, Telling
  <2>3. CASE SameHashes(link'[j], link[j])
    <3>1. Hashing(j, link'[j], c, trace[j], time[j])
      BY <2>2, <2>3, HashingSame DEF SameHashes
    <3>2. QED
      BY <3>1
  <2>4. CASE j = m /\ link'[m] = Unmatched(Hashed(m))
    BY <2>1, <2>2, <2>4, HashedHashing
  <2>5. QED
    BY <1>4, <2>3, <2>4
<1>6. \A j \in Machine : Coming(j)' = Coming(j)
  BY <1>1 DEF Coming
<1>7. AllTelling'
  BY <1>1, <1>2, <1>5, <1>6, QuietTelling
<1>8. \A j \in Machine : link'[j].failure = link[j].failure
  BY <1>4, HashedFailure DEF SameHashes
<1>9. QED
  BY <1>7, <1>8

LEMMA WriteOrResetTelling ==
    ASSUME Typed, AllTelling, NEW m \in Machine, WriteOrReset(m)
    PROVE  AllTelling' /\ \A j \in Machine : link'[j].failure = link[j].failure
<1>1. UNCHANGED <<partner, time, trace, net>> /\ Alive(m)
  BY WriteOrResetEffect DEF Alive
<1>2. PICK event \in {"write", "reset"} : link' = [link EXCEPT ![m] = Schedule(link[m], event)]
  BY WriteOrResetEffect
<1>3. \A j \in Machine : SameHashes(link'[j], link[j])
  <2>1. SameHashes(Schedule(link[m], event), link[m])
    BY ScheduleHashes, TypedParts
  <2>2. \A j \in Machine : SameHashes(link[j], link[j])
    BY DEF SameHashes
  <2>3. QED
    BY <1>2, <2>1, <2>2 DEF Typed
<1>4. ASSUME NEW j \in Machine, Alive(j)'
      PROVE  Alive(j) /\ \E c \in Nat : Hashing(j, link'[j], c, trace[j], time[j])
  <2>1. Alive(j)
    <3>1. j # m => link'[j] = link[j]
      BY <1>2 DEF Typed
    <3>2. QED
      BY <1>1, <1>4, <3>1 DEF Alive
  <2>2. PICK c \in Nat : Hashing(j, link[j], c, trace[j], time[j])
    BY <2>1 DEF AllTelling, Telling
  <2>3. Hashing(j, link'[j], c, trace[j], time[j])
    BY <1>3, <2>2, HashingSame DEF SameHashes
  <2>4. QED
    BY <2>1, <2>3
<1>5. \A j \in Machine : Coming(j)' = Coming(j)
  BY <1>1 DEF Coming
<1>6. AllTelling'
  BY <1>1, <1>4, <1>5, QuietTelling
<1>7. QED
  BY <1>3, <1>6 DEF SameHashes

-----------------------------------------------------------------------------
\* One machine goes on, and nothing strays.
LEMMA MoverTelling ==
    ASSUME Typed, AllTelling, NEW m \in Machine,
           RanOn(m, trace[m], time[m], trace'[m], time'[m]), Told(m, trace'[m], time'[m]),
           StraysIn(trace'[m]) = StraysIn(trace[m]),
           \A j \in Machine : j # m =>
              trace'[j] = trace[j] /\ time'[j] = time[j] /\ link'[j] = link[j],
           \A j \in Machine : \A msg \in Coming(j)' :
              msg \in Coming(j) \/ Reports(msg, Other(j), trace'[Other(j)], time'[Other(j)]),
           Alive(m)' => /\ \E c \in Nat : Hashing(m, link'[m], c, trace'[m], time'[m])
                        /\ (\A j \in Machine : StraysStay(j)) => Checked(m)'
    PROVE  AllTelling'
<1>1. \A j \in Machine : StraysStay(j)
  <2>1. StraysStay(m)
    <3>1. \A i \in StraysIn(trace[m]) : i \in 1..Len(trace[m])
      BY StrayTypesIn, TypedParts
    <3>2. QED
      BY <3>1 DEF StraysStay, RanOn
  <2>2. \A j \in Machine : j # m => StraysStay(j)
    BY DEF StraysStay
  <2>3. QED
    BY <2>1, <2>2
<1>2. \A j \in Machine : /\ RanOn(j, trace[j], time[j], trace'[j], time'[j])
                         /\ Told(j, trace'[j], time'[j])
  <2>1. \A j \in Machine : RanOn(j, trace[j], time[j], trace[j], time[j]) /\ Told(j, trace[j], time[j])
    BY StillRanOn, TypedParts DEF AllTelling, Telling
  <2>2. QED
    BY <2>1
<1>3. ASSUME NEW j \in Machine, Alive(j)', j # m
      PROVE  (\E c \in Nat : Hashing(j, link'[j], c, trace'[j], time'[j])) /\ Checked(j)'
  <2>1. link'[j] = link[j] /\ Alive(j)
    BY <1>3 DEF Alive
  <2>2. (\E c \in Nat : Hashing(j, link[j], c, trace[j], time[j])) /\ Checked(j)
    BY <2>1 DEF AllTelling, Telling
  <2>3. Checked(j)'
    BY <1>1, <1>3, <2>2, CheckedStays
  <2>4. QED
    BY <1>3, <2>1, <2>2, <2>3
<1>4. \A j \in Machine : Alive(j)' =>
         (\E c \in Nat : Hashing(j, link'[j], c, trace'[j], time'[j])) /\ Checked(j)'
  BY <1>1, <1>3
<1>5. QED
  BY <1>2, <1>4, TellingAfter

\* Trace s of machine m has become v, and nothing strayed meanwhile.
WentOn(m, s, t, v, w) == RanOn(m, s, t, v, w) /\ Told(m, v, w) /\ NoneStrays(s, v)

\* The console that is behind steps, after events were applied to it or not.
LEMMA StepsOn ==
    ASSUME NEW m \in Machine, NEW a, LinkTyped(a), NEW c \in Nat,
           NEW s \in Seq(Entries), NEW t \in [Console -> Nat],
           Told(m, s, t), Hashing(m, a, c, s, t),
           NEW k, k = Behind(t),
           k = "first" => a.due = {} /\ (a.nextSend - Delay - 1) * FrameTicks[m] <= t["first"],
           NEW applied, applied = <<>> \/ \E e \in Happened : applied = <<e>>,
           NEW v, v = s \o applied \o Tick(k), NEW w, w = Tocked(t, k),
           NEW x, x = WithDue(a, k, w[k])
    PROVE  WentOn(m, s, t, v, w) /\ Hashing(m, x, c, v, w)
<1>1. PICK u : u = s \o applied
  OBVIOUS
<1>2. RanOn(m, s, t, u, t) /\ Told(m, u, t) /\ u \in Seq(Entries) /\ StraysIn(u) = StraysIn(s)
  BY <1>1, AppliedTold
<1>3. v = u \o Tick(k)
  BY <1>1
<1>4. /\ RanOn(m, u, t, v, w) /\ Told(m, v, w) /\ StraysIn(v) = StraysIn(u)
      /\ k = "second" => Ticked(v)
  <2>1. u \in Seq(Entries) /\ Told(m, u, t)
    BY <1>2
  <2>2. /\ RanOn(m, u, t, v, w) /\ Told(m, v, w) /\ NoneStrays(u, v)
        /\ k = "second" => Ticked(v)
    BY <1>3, <2>1, StepTold
  <2>3. QED
    BY <2>2 DEF NoneStrays
<1>5. RanOn(m, s, t, v, w) /\ NoneStrays(s, v)
  <2>1. RanOn(m, s, t, v, w)
    BY <1>2, <1>4, RanOnTwice
  <2>2. NoneStrays(s, v)
    BY <1>2, <1>4 DEF NoneStrays
  <2>3. QED
    BY <2>1, <2>2
<1>6. a.due = {} \/ t["second"] < t["first"]
  BY DEF Behind
<1>7. Hashing(m, a, c, u, t)
  BY <1>2, <1>6, WaitsHashing
<1>8. t["first"] \in Nat /\ t["second"] \in Nat
  BY DEF Console
<1>9. CASE k = "second"
  <2>1. t["second"] < t["first"]
    BY <1>9 DEF Behind
  <2>2. w["first"] = t["first"] /\ w["second"] = t["second"] + 1
    BY <1>9 DEF Console, Tocked
  <2>3. Hashing(m, a, c, v, w)
    BY <1>2, <1>4, <1>7, <1>9, <2>1, <2>2, SecondHashing
  <2>4. x = a
    BY <1>9 DEF WithDue
  <2>5. QED
    BY <1>2, <1>4, <1>5, <2>3, <2>4 DEF WentOn
<1>10. CASE k = "first"
  <2>1. t["first"] = t["second"]
    BY <1>8, <1>10 DEF Told, Behind
  <2>2. w["first"] = t["first"] + 1 /\ w["second"] = t["second"]
    BY <1>10 DEF Console, Tocked
  <2>3. x = WithDue(a, "first", t["first"] + 1)
    BY <1>10, <2>2
  <2>4. Hashing(m, x, c, v, w)
    BY <1>2, <1>4, <1>7, <1>10, <2>1, <2>2, <2>3, FirstHashing
  <2>5. QED
    BY <1>2, <1>4, <1>5, <2>4 DEF WentOn
<1>11. QED
  BY <1>9, <1>10 DEF Behind, WentOn

-----------------------------------------------------------------------------
\* What a machine's thread starts its turn from, its hashes seen to (h).
LEMMA TurnStarts ==
    ASSUME KeepingInv, AllTelling, NEW m \in Machine, NEW k \in Console, Runs(m, k),
           NEW h, h = Unmatched(Hashed(m))
    PROVE  /\ Alive(m) /\ Paced(m) /\ LinkTyped(h) /\ SamePlan(h, link[m])
           /\ h.failure = link[m].failure /\ h.received = {}
           /\ trace[m] \in Seq(Entries) /\ time[m] \in [Console -> Nat]
           /\ Told(m, trace[m], time[m]) /\ k = Behind(time[m])
           /\ k = "first" => h.due = {}
           /\ k = "second" => time[m]["second"] < time[m]["first"]
           /\ \E c \in Nat : Hashing(m, h, c, trace[m], time[m])
           /\ (h.nextSend - Delay) \in Nat
           /\ ~h.prepared => time[m][m] = (h.nextSend - Delay) * FrameTicks[m]
           /\ (h.nextSend - Delay - 1) * FrameTicks[m] <= time[m][m]
<1>1. Typed /\ Keeping /\ Telling(m)
  BY DEF KeepingInv, AllTelling
<1>2. Alive(m) /\ NextConsole(m) = k
  BY DEF Runs, Alive
<1>3. /\ LinkTyped(h) /\ SamePlan(h, link[m]) /\ h.failure = link[m].failure
      /\ trace[m] \in Seq(Entries) /\ time[m] \in [Console -> Nat]
  BY <1>1, HashedKeeps, HashedFailure, TypedParts
<1>4. Paced(m) /\ Told(m, trace[m], time[m])
  BY <1>1, <1>2 DEF Keeping, Telling
<1>5. PICK c \in Nat : Hashing(m, link[m], c, trace[m], time[m])
  BY <1>1, <1>2 DEF Telling
<1>6. /\ k = Behind(time[m])
      /\ k = "second" => time[m]["second"] < time[m]["first"]
  BY <1>2 DEF NextConsole, Behind
<1>7. /\ k = "first" => h.due = {}
      /\ \E d \in Nat : Hashing(m, h, d, trace[m], time[m])
  BY <1>1, <1>2, <1>4, <1>5, HashedHashing
<1>8. h.received = {}
  BY <1>7 DEF Hashing
<1>9. /\ (h.nextSend - Delay) \in Nat
      /\ ~h.prepared => time[m][m] = (h.nextSend - Delay) * FrameTicks[m]
      /\ (h.nextSend - Delay - 1) * FrameTicks[m] <= time[m][m]
  <2>1. PICK r \in Nat, n \in Nat \ {0} : r = h.nextSend - Delay /\ r = Sent(m) /\ n = FrameTicks[m]
    BY <1>3, <1>4, TicksAssumption DEF Paced, Sent, SamePlan, Machine
  <2>2. PICK x \in Int, y \in Int : x = r * n /\ y = (r - 1) * n /\ y <= x
    <3>1. r * n \in Int /\ (r - 1) * n = r * n - n
      OBVIOUS
    <3>2. QED
      BY <3>1
  <2>3. PICK t \in Nat : t = time[m][m]
    BY <1>3 DEF Machine
  <2>4. /\ ~link[m].prepared => t = x
        /\ link[m].prepared => y <= t
    BY <1>4, <2>1, <2>2, <2>3 DEF Paced
  <2>5. y <= t /\ (~h.prepared => t = x)
    BY <1>3, <2>2, <2>3, <2>4 DEF SamePlan
  <2>6. QED
    BY <2>1, <2>2, <2>3, <2>5
<1>10. QED
  BY <1>2, <1>3, <1>4, <1>6, <1>7, <1>8, <1>9

\* Machine m prepares a frame or not: what it sends reports what it should.
LEMMA LocalSends ==
    ASSUME KeepingInv, AllTelling, NEW m \in Machine, Runs(m, m),
           NEW h, h = Unmatched(Hashed(m)), NEW a, NEW applied, LocalEffect(m, h, a, applied)
    PROVE  /\ LinkTyped(a) /\ a.failure = link[m].failure
           /\ applied = <<>> \/ \E e \in Happened : applied = <<e>>
           /\ \E c \in Nat : Hashing(m, a, c, trace[m], time[m])
           /\ a.due = h.due
           /\ m = "first" => (a.nextSend - Delay - 1) * FrameTicks[m] <= time[m]["first"]
           /\ \/ net' = net
              \/ \E msg \in FrameMessages :
                    /\ net' = [net EXCEPT ![Other(m)] = Append(@, msg)]
                    /\ Reports(msg, m, trace[m], time[m])
<1>1. Typed /\ m \in Console
  BY DEF KeepingInv, Machine
<1>2. /\ LinkTyped(h) /\ h.failure = link[m].failure /\ h.received = {}
      /\ trace[m] \in Seq(Entries) /\ time[m] \in [Console -> Nat]
      /\ Told(m, trace[m], time[m])
      /\ m = "first" => h.due = {}
      /\ m = "second" => time[m]["second"] < time[m]["first"]
      /\ (h.nextSend - Delay) \in Nat
      /\ ~h.prepared => time[m][m] = (h.nextSend - Delay) * FrameTicks[m]
      /\ (h.nextSend - Delay - 1) * FrameTicks[m] <= time[m][m]
  BY <1>1, TurnStarts
<1>3. PICK c \in Nat : Hashing(m, h, c, trace[m], time[m])
  BY <1>1, TurnStarts
<1>4. CASE ~Prepares(m, h)
  <2>1. a = h /\ applied = <<>> /\ net' = net
    BY <1>4 DEF LocalEffect
  <2>2. QED
    BY <1>2, <1>3, <2>1
<1>5. CASE Prepares(m, h)
  <2>1. PICK f \in Nat : f = Frame(m, m)
    BY <1>1, TypedParts
  <2>2. PICK msg : msg = FrameMessage(h, pad[m])
    OBVIOUS
  <2>3. /\ a = AfterSending(h, pad[m], f)
        /\ applied = IF Scheduled(h, f) # <<>> THEN Applied(m, Scheduled(h, f)) ELSE <<>>
        /\ net' = [net EXCEPT ![Other(m)] = Append(@, msg)]
    BY <1>5, <2>1, <2>2, Zenon DEF LocalEffect
  <2>4. applied = <<>> \/ \E e \in Happened : applied = <<e>>
    <3>1. Scheduled(h, f) \in Seq(Event)
      BY <1>2, <2>1, ScheduledTypes
    <3>2. PICK e : e = [console |-> m, events |-> Scheduled(h, f)]
      OBVIOUS
    <3>3. e \in Happened /\ Applied(m, Scheduled(h, f)) = <<e>>
      BY <1>1, <3>1, <3>2 DEF Happened, Applied
    <3>4. QED
      BY <2>3, <3>3
  <2>5. pad[m] \in Pads
    BY <1>1, TypedParts
  <2>6. LinkTyped(a) /\ msg \in FrameMessages
    BY <1>2, <2>1, <2>2, <2>3, <2>5, SendingTypes
  <2>7. /\ a.due = h.due /\ a.nextSend = h.nextSend + 1 /\ a.computed = h.computed
        /\ a.pending = {} /\ a.received = h.received /\ a.failure = h.failure
    BY <1>2, <2>3, SendingHashes
  <2>8. msg.hash = h.pending /\ msg.frame = h.nextSend
    BY <2>2 DEF FrameMessage
  <2>9. PICK r \in Nat : /\ r = h.nextSend - Delay /\ a.nextSend - Delay - 1 = r
                         /\ h.nextSend - Delay - 1 = r - 1 /\ msg.frame - Delay = r
    BY <1>2, <2>7, <2>8, DelayAssumption DEF LinkTyped
  <2>10. time[m][m] = r * FrameTicks[m]
    BY <1>2, <1>5, <2>9 DEF Prepares
  <2>11. Hashing(m, a, c, trace[m], time[m]) /\ Reports(msg, m, trace[m], time[m])
    BY <1>2, <1>3, <2>7, <2>8, <2>9, <2>10, SendsHash
  <2>12. m = "first" => (a.nextSend - Delay - 1) * FrameTicks[m] <= time[m]["first"]
    <3>1. time[m][m] \in Nat
      BY <1>1, <1>2
    <3>2. QED
      BY <2>9, <2>10, <3>1
  <2>13. QED
    BY <1>2, <2>3, <2>4, <2>6, <2>7, <2>11, <2>12
<1>6. QED
  BY <1>4, <1>5

\* A frame that is sent is one more that comes to the other machine.
LEMMA SentComing ==
    ASSUME Typed, NEW m \in Machine, partner' = partner, NEW msg \in FrameMessages,
           net' = [net EXCEPT ![Other(m)] = Append(@, msg)]
    PROVE  \A j \in Machine : Coming(j)' \subseteq Coming(j) \union (IF j = m THEN {} ELSE {msg})
<1>1. PICK o \in Machine : o = Other(m) /\ o # m /\ \A j \in Machine : j = m \/ j = o
  BY Pairs
<1>2. net'[m] = net[m] /\ net'[o] = Append(net[o], msg) /\ net[o] \in Seq(Messages)
  BY <1>1, TypedParts DEF Typed
<1>3. Coming(m)' = Coming(m)
  BY <1>2 DEF Coming
<1>4. Coming(o)' \subseteq Coming(o) \union {msg}
  <2>1. \A i \in DOMAIN net'[o] : \/ i \in DOMAIN net[o] /\ net'[o][i] = net[o][i]
                                  \/ net'[o][i] = msg
    <3>1. \A s \in Seq(Messages) : \A e : \A i \in DOMAIN Append(s, e) :
             \/ i \in DOMAIN s /\ Append(s, e)[i] = s[i]
             \/ Append(s, e)[i] = e
      OBVIOUS
    <3>2. QED
      BY <1>2, <3>1
  <2>2. QED
    BY <2>1 DEF Coming
<1>5. QED
  BY <1>1, <1>3, <1>4

\* What one machine sends reports what it should, now that it has gone on.
LEMMA SentReports ==
    ASSUME Typed, AllTelling, NEW m \in Machine, partner' = partner,
           RanOn(m, trace[m], time[m], trace'[m], time'[m]),
           \/ net' = net
           \/ \E msg \in FrameMessages :
                 /\ net' = [net EXCEPT ![Other(m)] = Append(@, msg)]
                 /\ Reports(msg, m, trace[m], time[m])
    PROVE  \A j \in Machine : \A msg \in Coming(j)' :
              msg \in Coming(j) \/ Reports(msg, Other(j), trace'[Other(j)], time'[Other(j)])
<1>1. PICK o \in Machine : /\ o = Other(m) /\ Other(o) = m /\ o # m
                           /\ \A j \in Machine : j = m \/ j = o
  BY Pairs
<1>2. CASE net' = net
  <2>1. \A j \in Machine : Coming(j)' = Coming(j)
    BY <1>2 DEF Coming
  <2>2. QED
    BY <2>1
<1>3. CASE \E msg \in FrameMessages :
              /\ net' = [net EXCEPT ![Other(m)] = Append(@, msg)]
              /\ Reports(msg, m, trace[m], time[m])
  <2>1. PICK msg \in FrameMessages :
          /\ net' = [net EXCEPT ![Other(m)] = Append(@, msg)]
          /\ Reports(msg, m, trace[m], time[m])
    BY <1>3
  <2>2. /\ trace[m] \in Seq(Entries) /\ time[m] \in [Console -> Nat]
        /\ Told(m, trace[m], time[m]) /\ msg.hash \subseteq Hash
    BY <2>1, TypedParts DEF AllTelling, Telling, FrameMessages
  <2>3. Reports(msg, m, trace'[m], time'[m])
    BY <2>1, <2>2, ReportsStay
  <2>4. \A j \in Machine : Coming(j)' \subseteq Coming(j) \union (IF j = m THEN {} ELSE {msg})
    BY <2>1, SentComing
  <2>5. QED
    BY <1>1, <2>3, <2>4
<1>4. QED
  BY <1>2, <1>3

LEMMA StepIs ==
    ASSUME Typed, NEW m \in Machine, NEW k \in Console, NEW applied, Step(m, k, applied)
    PROVE  /\ trace'[m] = trace[m] \o applied \o Tick(k) /\ time'[m] = Tocked(time[m], k)
           /\ \A j \in Machine : j # m => trace'[j] = trace[j] /\ time'[j] = time[j]
           /\ time'[m][k] = time[m][k] + 1
           /\ \A i \in Console : i # k => time'[m][i] = time[m][i]
  BY DEF Step, Typed, Tick, Tocked

\* The own console's turn.
LEMMA LocalTurnTelling ==
    ASSUME KeepingInv, AllTelling, NEW m \in Machine, LocalTurn(m)
    PROVE  AllTelling' /\ \A j \in Machine : link'[j].failure = link[j].failure
<1>1. PICK h, a, applied : h = Unmatched(Hashed(m)) /\ LocalEffect(m, h, a, applied)
  BY LocalTurnEffect
<1>2. Runs(m, m) /\ partner' = partner
  BY LocalTurnEffect
<1>3. Typed /\ m \in Console
  BY DEF KeepingInv, Machine
<1>4. PICK o \in Machine : o = Other(m) /\ o # m /\ o \in Console /\ \A j \in Machine : j = m \/ j = o
  BY Pairs
<1>5. PICK s, t : s = trace[m] /\ t = time[m]
  OBVIOUS
<1>6. /\ LinkTyped(a) /\ a.failure = link[m].failure
      /\ applied = <<>> \/ \E e \in Happened : applied = <<e>>
      /\ a.due = h.due
      /\ m = "first" => (a.nextSend - Delay - 1) * FrameTicks[m] <= t["first"]
  BY <1>1, <1>2, <1>5, LocalSends
<1>7. /\ s \in Seq(Entries) /\ t \in [Console -> Nat] /\ Told(m, s, t) /\ m = Behind(t)
      /\ m = "first" => h.due = {}
      /\ m = "second" => t["second"] < t["first"]
  BY <1>1, <1>2, <1>3, <1>5, TurnStarts
<1>8. PICK c \in Nat : Hashing(m, a, c, s, t)
  BY <1>1, <1>2, <1>5, LocalSends
<1>9. \/ net' = net
      \/ \E msg \in FrameMessages :
            /\ net' = [net EXCEPT ![Other(m)] = Append(@, msg)]
            /\ Reports(msg, m, trace[m], time[m])
  BY <1>1, <1>2, LocalSends
<1>10. /\ RanOn(m, s, t, trace'[m], time'[m]) /\ Told(m, trace'[m], time'[m])
       /\ NoneStrays(s, trace'[m])
       /\ Hashing(m, link'[m], c, trace'[m], time'[m]) /\ link'[m].failure = link[m].failure
       /\ time'[m][o] = time[m][o]
       /\ \A j \in Machine : j # m =>
             trace'[j] = trace[j] /\ time'[j] = time[j] /\ link'[j] = link[j]
  <2>1. CASE /\ Step(m, m, applied)
             /\ link' = [link EXCEPT ![m] =
                  [WithDue(a, m, time'[m][m]) EXCEPT !.prepared = @ /\ ~CompletesFrame(m, m)]]
    <3>1. PICK v, w : v = s \o applied \o Tick(m) /\ w = Tocked(t, m)
      OBVIOUS
    <3>2. /\ trace'[m] = v /\ time'[m] = w /\ w[m] = time'[m][m] /\ w[m] = t[m] + 1
          /\ \A j \in Machine : j # m => trace'[j] = trace[j] /\ time'[j] = time[j]
          /\ time'[m][o] = time[m][o]
      BY <1>3, <1>4, <1>5, <2>1, <3>1, StepIs
    <3>3. PICK x : x = WithDue(a, m, w[m])
      OBVIOUS
    <3>4. m = "first" => a.due = {} /\ (a.nextSend - Delay - 1) * FrameTicks[m] <= t["first"]
      BY <1>6, <1>7
    <3>5. WentOn(m, s, t, v, w) /\ Hashing(m, x, c, v, w)
      <4>1. WentOn(m, s, t, v, w)
        BY <1>6, <1>7, <1>8, <3>1, <3>3, <3>4, StepsOn
      <4>2. Hashing(m, x, c, v, w)
        BY <1>6, <1>7, <1>8, <3>1, <3>3, <3>4, StepsOn, Zenon
      <4>3. QED
        BY <4>1, <4>2
    <3>6. LinkTyped(x) /\ x.failure = a.failure
      <4>1. w[m] \in Nat
        BY <1>3, <1>7, <3>2
      <4>2. <<>> \in Seq(Entries)
        OBVIOUS
      <4>3. LinkTyped(x)
        BY <1>3, <1>6, <3>3, <4>1, WithDueKeeps
      <4>4. x.failure = a.failure
        <5>1. x = a \/ \E y : x = [a EXCEPT !.due = y]
          BY <3>3, Zenon DEF WithDue
        <5>2. QED
          BY <1>6, <5>1 DEF LinkTyped, LinkFields
      <4>5. QED
        BY <4>3, <4>4
    <3>7. PICK going : going = (x.prepared /\ ~CompletesFrame(m, m))
      OBVIOUS
    <3>8. PICK l : l = [x EXCEPT !.prepared = going]
      OBVIOUS
    <3>9. link' = [link EXCEPT ![m] = l]
      BY <2>1, <3>2, <3>3, <3>7, <3>8, Zenon
    <3>10. link'[m] = l /\ \A j \in Machine : j # m => link'[j] = link[j]
      BY <1>3, <3>9 DEF Typed
    <3>11. /\ l.due = x.due /\ l.nextSend = x.nextSend /\ l.computed = x.computed
           /\ l.pending = x.pending /\ l.received = x.received /\ l.failure = x.failure
      BY <3>6, <3>8 DEF LinkTyped, LinkFields
    <3>12. Hashing(m, l, c, v, w)
      BY <3>5, <3>11, HashingSame
    <3>13. QED
      BY <1>6, <3>2, <3>5, <3>6, <3>10, <3>11, <3>12 DEF WentOn
  <2>2. CASE /\ trace' = [trace EXCEPT ![m] = @ \o applied]
             /\ link' = [link EXCEPT ![m] = a]
             /\ time' = time
    <3>1. PICK v : v = s \o applied
      OBVIOUS
    <3>2. /\ trace'[m] = v /\ link'[m] = a /\ time'[m] = t /\ time'[m][o] = time[m][o]
          /\ \A j \in Machine : j # m =>
                trace'[j] = trace[j] /\ time'[j] = time[j] /\ link'[j] = link[j]
      BY <1>3, <1>5, <2>2, <3>1 DEF Typed
    <3>3. RanOn(m, s, t, v, t) /\ Told(m, v, t) /\ StraysIn(v) = StraysIn(s)
      BY <1>6, <1>7, <3>1, AppliedTold
    <3>4. a.due = {} \/ t["second"] < t["first"]
      BY <1>6, <1>7 DEF Behind
    <3>5. Hashing(m, a, c, v, t)
      BY <1>7, <1>8, <3>3, <3>4, WaitsHashing
    <3>6. QED
      BY <1>6, <3>2, <3>3, <3>5 DEF NoneStrays
  <2>3. QED
    BY <1>1, <2>1, <2>2 DEF LocalEffect
<1>11. (\A j \in Machine : StraysStay(j)) /\ Alive(m) => Checked(m)'
  <2>1. Alive(m) => Checked(m)
    BY DEF AllTelling, Telling
  <2>2. QED
    BY <1>3, <1>4, <1>10, <2>1, CheckedStays
<1>12. Alive(m)
  BY <1>2 DEF Runs, Alive
<1>13. \A j \in Machine : \A msg \in Coming(j)' :
          msg \in Coming(j) \/ Reports(msg, Other(j), trace'[Other(j)], time'[Other(j)])
  BY <1>2, <1>3, <1>5, <1>9, <1>10, SentReports
<1>14. AllTelling'
  BY <1>3, <1>5, <1>10, <1>11, <1>12, <1>13, MoverTelling DEF NoneStrays
<1>15. QED
  BY <1>4, <1>10, <1>14

-----------------------------------------------------------------------------
\* The partner's console may step once the hashes are seen to.
LEMMA PartnerMaySteps ==
    ASSUME KeepingInv, AllTelling, NEW m \in Machine, NEW o \in Console, o = Other(m), Runs(m, o),
           NEW h, h = Unmatched(Hashed(m)),
           NEW a, a.due = h.due, a.nextSend = h.nextSend
    PROVE  o = "first" => /\ a.due = {}
                          /\ (a.nextSend - Delay - 1) * FrameTicks[m] <= time[m]["first"]
<1> SUFFICES ASSUME o = "first"
             PROVE  /\ a.due = {}
                    /\ (a.nextSend - Delay - 1) * FrameTicks[m] <= time[m]["first"]
  OBVIOUS
<1>1. m = "second"
  BY DEF Other, Machine, Console
<1>2. /\ h.due = {} /\ (h.nextSend - Delay - 1) * FrameTicks[m] <= time[m][m]
      /\ time[m] \in [Console -> Nat] /\ Told(m, trace[m], time[m])
      /\ (h.nextSend - Delay) \in Nat
  BY TurnStarts
<1>3. PICK x \in Int : x = (h.nextSend - Delay - 1) * FrameTicks[m]
  <2>1. FrameTicks[m] \in Nat
    BY TicksAssumption DEF Machine
  <2>2. QED
    BY <1>2, <2>1
<1>4. x <= time[m]["second"] /\ time[m]["second"] <= time[m]["first"]
  BY <1>1, <1>2, <1>3 DEF Told
<1>5. time[m]["second"] \in Nat /\ time[m]["first"] \in Nat
  BY <1>2 DEF Console
<1>6. QED
  BY <1>2, <1>3, <1>4, <1>5

\* The partner's console steps, after the events of its frame were applied or not.
LEMMA PartnerSteps ==
    ASSUME KeepingInv, AllTelling, NEW m \in Machine, NEW o \in Machine, o = Other(m), Runs(m, o),
           NEW h, h = Unmatched(Hashed(m)),
           NEW a, LinkTyped(a), a.due = h.due, a.nextSend = h.nextSend, a.computed = h.computed,
           a.pending = h.pending, a.received = h.received, a.failure = h.failure,
           NEW applied, applied = <<>> \/ \E e \in Happened : applied = <<e>>,
           Step(m, o, applied), link' = [link EXCEPT ![m] = WithDue(a, o, time'[m][o])]
    PROVE  /\ WentOn(m, trace[m], time[m], trace'[m], time'[m])
           /\ \E c \in Nat : Hashing(m, link'[m], c, trace'[m], time'[m])
           /\ link'[m].failure = link[m].failure
           /\ \A j \in Machine : j # m =>
                 trace'[j] = trace[j] /\ time'[j] = time[j] /\ link'[j] = link[j]
           /\ time'[m][o] = time[m][o] + 1
<1>1. Typed /\ m \in Console /\ o \in Console
  BY DEF KeepingInv, Machine
<1>2. PICK s, t : s = trace[m] /\ t = time[m]
  OBVIOUS
<1>3. /\ s \in Seq(Entries) /\ t \in [Console -> Nat] /\ Told(m, s, t) /\ o = Behind(t)
      /\ h.failure = link[m].failure
  BY <1>1, <1>2, TurnStarts
<1>4. PICK c \in Nat : Hashing(m, h, c, s, t)
  BY <1>1, <1>2, TurnStarts
<1>5. Hashing(m, a, c, s, t)
  BY <1>4, HashingSame
<1>6. o = "first" => a.due = {} /\ (a.nextSend - Delay - 1) * FrameTicks[m] <= t["first"]
  BY <1>1, <1>2, PartnerMaySteps
<1>7. PICK v, w : v = s \o applied \o Tick(o) /\ w = Tocked(t, o)
  OBVIOUS
<1>8. /\ trace'[m] = v /\ time'[m] = w /\ w[o] = time'[m][o] /\ w[o] = t[o] + 1
      /\ \A j \in Machine : j # m => trace'[j] = trace[j] /\ time'[j] = time[j]
  BY <1>1, <1>2, <1>7, StepIs
<1>9. PICK x : x = WithDue(a, o, w[o])
  OBVIOUS
<1>10. WentOn(m, s, t, v, w)
  BY <1>3, <1>5, <1>6, <1>7, <1>9, StepsOn
<1>11. Hashing(m, x, c, v, w)
  BY <1>3, <1>5, <1>6, <1>7, <1>9, StepsOn, Zenon
<1>12. x.failure = a.failure
  <2>1. x = a \/ \E y : x = [a EXCEPT !.due = y]
    BY <1>9, Zenon DEF WithDue
  <2>2. QED
    BY <2>1 DEF LinkTyped, LinkFields
<1>13. link'[m] = x /\ \A j \in Machine : j # m => link'[j] = link[j]
  BY <1>1, <1>8, <1>9 DEF Typed
<1>14. QED
  BY <1>2, <1>3, <1>8, <1>10, <1>11, <1>12, <1>13

LEMMA PartnerContinuesTelling ==
    ASSUME KeepingInv, AllTelling, NEW m \in Machine, PartnerContinues(m)
    PROVE  AllTelling' /\ \A j \in Machine : link'[j].failure = link[j].failure
<1>1. PICK o \in Machine : o = Other(m) /\ o # m /\ o \in Console
  BY Pairs
<1>2. Typed
  BY DEF KeepingInv
<1>3. PICK h : h = Unmatched(Hashed(m))
  OBVIOUS
<1>4. /\ Runs(m, o) /\ MidFrame(m, o) /\ Step(m, o, <<>>) /\ UNCHANGED <<partner, net>>
      /\ link' = [link EXCEPT ![m] = WithDue(h, o, time'[m][o])]
  BY <1>1, <1>3 DEF PartnerContinues
<1>5. LinkTyped(h) /\ Alive(m)
  BY <1>1, <1>3, <1>4, TurnStarts
<1>6. /\ WentOn(m, trace[m], time[m], trace'[m], time'[m])
      /\ \E c \in Nat : Hashing(m, link'[m], c, trace'[m], time'[m])
      /\ link'[m].failure = link[m].failure
      /\ \A j \in Machine : j # m =>
            trace'[j] = trace[j] /\ time'[j] = time[j] /\ link'[j] = link[j]
      /\ time'[m][o] = time[m][o] + 1
  BY <1>1, <1>3, <1>4, <1>5, PartnerSteps
<1>7. \A j \in Machine : Coming(j)' = Coming(j)
  BY <1>4 DEF Coming
<1>8. (\A j \in Machine : StraysStay(j)) => Checked(m)'
  BY <1>1, <1>2, <1>4, <1>5, <1>6, CheckedStays DEF AllTelling, Telling
<1>9. AllTelling'
  BY <1>2, <1>6, <1>7, <1>8, MoverTelling DEF WentOn, NoneStrays
<1>10. QED
  BY <1>6, <1>9

-----------------------------------------------------------------------------
\* What comes with the partner's frame, if it is not one of the plug-in: the hash that
\* goes with it.
Brought(m, hashes, f) ==
    /\ hashes \subseteq Hash
    /\ \A g \in hashes : /\ Delay <= f /\ Honest(g, trace[Other(m)], time[Other(m)])
                         /\ \E j \in Number : /\ g.frame = Interval * j
                                              /\ Carries(Other(m), f - Delay, j)
    /\ \A j \in Number : Delay <= f /\ Carries(Other(m), f - Delay, j) =>
                            \E g \in hashes : g.frame = Interval * j

LEMMA BeginsBrought ==
    ASSUME Typed, AllTelling, NEW m \in Machine, NEW events, NEW hashes,
           BeginsWith(m, events, hashes)
    PROVE  Brought(m, hashes, Frame(m, Other(m))) /\ events \in Seq(Event)
<1>1. PICK o \in Machine : o = Other(m) /\ o \in Console
  BY Pairs
<1>2. PICK f \in Nat : f = Frame(m, o)
  BY <1>1, TypedParts
<1>3. CASE f < Delay /\ events = <<HeldInput>> /\ hashes = {}
  <2>1. ~(Delay <= f)
    BY <1>3, DelayAssumption
  <2>2. events \in Seq(Event)
    BY <1>3 DEF Event, Pads
  <2>3. QED
    BY <1>1, <1>2, <1>3, <2>1, <2>2 DEF Brought
<1>4. CASE /\ f >= Delay /\ f \in DOMAIN partner[m].frames
           /\ events = partner[m].frames[f].events /\ hashes = partner[m].frames[f].hash
  <2>1. PICK msg : msg = partner[m].frames[f]
    OBVIOUS
  <2>2. msg \in Coming(m)
    BY <1>4, <2>1 DEF Coming
  <2>3. msg \in FrameMessages /\ msg.frame = f
    BY <1>4, <2>1, TypedParts DEF PartnerTyped
  <2>4. Reports(msg, o, trace[o], time[o])
    BY <1>1, <2>2 DEF AllTelling, Telling, Reported
  <2>5. hashes = msg.hash /\ events = msg.events /\ hashes \subseteq Hash /\ events \in Seq(Event)
    BY <1>4, <2>1, <2>3 DEF FrameMessages
  <2>6. Delay <= f
    BY <1>4, DelayAssumption
  <2>7. QED
    BY <1>1, <1>2, <2>3, <2>4, <2>5, <2>6 DEF Reports, Brought
<1>5. QED
  BY <1>1, <1>2, <1>3, <1>4 DEF BeginsWith

\* The hash that came agrees with this machine's: nothing had strayed on either.
LEMMA BroughtAgrees ==
    ASSUME Typed, AllTelling, NEW m \in Machine, NEW f, NEW hashes, Brought(m, hashes, f),
           NEW d, NEW i \in DOMAIN d, d[i] \in Hash, Honest(d[i], trace[m], time[m]),
           NEW g \in hashes, g.frame = d[i].frame, g.of = d[i].of
    PROVE  \A x \in Machine : \A z \in StraysIn(trace[x]) : trace[x][z].stray >= g.frame
<1>1. PICK o \in Machine : o = Other(m) /\ o # m /\ \A x \in Machine : x = m \/ x = o
  BY Pairs
<1>2. /\ g \in Hash /\ Honest(g, trace[o], time[o])
      /\ Told(m, trace[m], time[m]) /\ Told(o, trace[o], time[o])
      /\ trace[m] \in Seq(Entries) /\ trace[o] \in Seq(Entries)
  BY <1>1, TypedParts DEF Brought, AllTelling, Telling
<1>3. \A z \in StraysIn(trace[m]) : trace[m][z].stray >= d[i].frame
  BY <1>1, <1>2, AgreeingHashes
<1>4. \A z \in StraysIn(trace[o]) : trace[o][z].stray >= g.frame
  BY <1>1, <1>2, AgreeingHashes
<1>5. QED
  BY <1>1, <1>3, <1>4

\* One more frame of the partner's is begun.
LEMMA CheckedFurther ==
    ASSUME NEW m \in Machine, Checked(m), \A j \in Machine : StraysStay(j),
           NEW o \in Machine, o = Other(m), NEW f \in Nat,
           time[m][o] = f * FrameTicks[o], time'[m][o] = time[m][o] + 1,
           \A j \in Number : Delay <= f /\ Carries(o, f - Delay, j) =>
              \A x \in Machine : \A z \in StraysIn(trace[x]) : trace[x][z].stray >= Interval * j
    PROVE  Checked(m)'
<1> SUFFICES ASSUME NEW r \in Nat, NEW j \in Number, Carries(o, r, j),
                    (r + Delay) * FrameTicks[o] < time'[m][o],
                    NEW x \in Machine, NEW z \in StraysIn(trace'[x])
             PROVE  trace'[x][z].stray >= Interval * j
  BY DEF Checked, Carries
<1>1. z \in StraysIn(trace[x]) /\ trace'[x][z] = trace[x][z]
  BY DEF StraysStay
<1>2. PICK n \in Nat \ {0}, q \in Nat : n = FrameTicks[o] /\ q = r + Delay
  BY TicksAssumption, DelayAssumption DEF Machine
<1>3. PICK y \in Int, w \in Int : y = q * n /\ w = f * n
  OBVIOUS
<1>4. y < w + 1
  BY <1>2, <1>3
<1>5. q <= f
  <2>1. q <= f <=> y <= w
    BY <1>2, <1>3, Scales
  <2>2. QED
    BY <1>3, <1>4, <2>1
<1>6. CASE q = f
  <2>1. f - Delay = r /\ Delay <= f
    BY <1>2, <1>6, DelayAssumption
  <2>2. QED
    BY <1>1, <2>1
<1>7. CASE q < f
  <2>1. y < w
    BY <1>2, <1>3, <1>7, Scales
  <2>2. (r + Delay) * FrameTicks[o] < time[m][o]
    BY <1>2, <1>3, <2>1
  <2>3. QED
    BY <1>1, <2>2 DEF Checked
<1>8. QED
  BY <1>2, <1>5, <1>6, <1>7

\* Machine m remembers a hash for the partner's, and knows every one that came.
LEMMA KnowsBrought ==
    ASSUME KeepingInv, AllTelling, NEW m \in Machine, NEW o \in Machine, o = Other(m), Runs(m, o),
           ~MidFrame(m, o), NEW h, h = Unmatched(Hashed(m)), NEW f, f = Frame(m, o),
           NEW hashes, Brought(m, hashes, f)
    PROVE  /\ f \in Nat /\ time[m][o] = f * FrameTicks[o]
           /\ \A i \in DOMAIN h.computed :
                 h.computed[i] \in Hash /\ Honest(h.computed[i], trace[m], time[m])
           /\ \A j \in Number : Delay <= f /\ Carries(o, f - Delay, j) => Remembered(h, Interval * j)
           /\ \A g \in hashes : Remembered(h, g.frame)
<1>1. Typed /\ o \in Console
  BY DEF KeepingInv, Machine
<1>2. f \in Nat /\ time[m][o] = f * FrameTicks[o]
  BY <1>1, NeededTicks
<1>3. /\ trace[m] \in Seq(Entries) /\ time[m] \in [Console -> Nat] /\ Told(m, trace[m], time[m])
      /\ o = "first" => h.due = {}
      /\ o = "second" => time[m]["second"] < time[m]["first"]
  BY <1>1, TurnStarts
<1>4. PICK c \in Nat : Hashing(m, h, c, trace[m], time[m])
  BY <1>1, TurnStarts
<1>5. \A i \in DOMAIN h.computed :
          h.computed[i] \in Hash /\ Honest(h.computed[i], trace[m], time[m])
  BY <1>4 DEF Hashing, Remembers, Newly
<1>6. \A j \in Number : Delay <= f /\ Carries(o, f - Delay, j) => Remembered(h, Interval * j)
  BY <1>2, <1>3, <1>4, KnowsHash
<1>7. \A g \in hashes : Remembered(h, g.frame)
  BY <1>6 DEF Brought
<1>8. QED
  BY <1>2, <1>5, <1>6, <1>7

LEMMA BeginMismatchTelling ==
    ASSUME KeepingInv, AllTelling, NEW m \in Machine, NEW o \in Machine, o = Other(m), Runs(m, o),
           NEW events \in Seq(Event), Fails(m, "mismatch"), time' = time,
           trace' = [trace EXCEPT ![m] = @ \o Applied(o, events)]
    PROVE  AllTelling'
<1>1. Typed /\ o \in Console /\ o # m
  BY Pairs DEF KeepingInv, Machine
<1>2. /\ Alive(m) /\ trace[m] \in Seq(Entries) /\ time[m] \in [Console -> Nat]
      /\ Told(m, trace[m], time[m])
  BY <1>1, TurnStarts
<1>3. PICK applied : applied = Applied(o, events)
  OBVIOUS
<1>4. \E e \in Happened : applied = <<e>>
  BY <1>1, <1>3 DEF Applied, Happened
<1>5. /\ trace'[m] = trace[m] \o applied /\ time'[m] = time[m]
      /\ \A j \in Machine : j # m => trace'[j] = trace[j] /\ time'[j] = time[j]
  BY <1>1, <1>3 DEF Typed
<1>6. /\ RanOn(m, trace[m], time[m], trace'[m], time'[m]) /\ Told(m, trace'[m], time'[m])
      /\ NoneStrays(trace[m], trace'[m])
  <2>1. PICK u : u = trace[m] \o applied
    OBVIOUS
  <2>2. /\ RanOn(m, trace[m], time[m], u, time[m]) /\ Told(m, u, time[m])
        /\ StraysIn(u) = StraysIn(trace[m])
    BY <1>2, <1>4, <2>1, AppliedTold
  <2>3. QED
    BY <1>5, <2>1, <2>2 DEF NoneStrays
<1>7. /\ \A j \in Machine : Coming(j)' \subseteq Coming(j)
      /\ ~Alive(m)' /\ \A j \in Machine : j # m => link'[j] = link[j]
  <2>1. <<Plain("unlink")>> \in Seq(Signs)
    BY DEF Plain, Signs
  <2>2. Ends(m, "mismatch", <<Plain("unlink")>>)
    BY DEF Fails
  <2>3. QED
    BY <1>1, <2>1, <2>2, EndsComing
<1>8. QED
  BY <1>1, <1>5, <1>6, <1>7, MoverTelling DEF NoneStrays

LEMMA BeginStepsTelling ==
    ASSUME KeepingInv, AllTelling, NEW m \in Machine, NEW o \in Machine, o = Other(m), Runs(m, o),
           ~MidFrame(m, o), NEW h, h = Unmatched(Hashed(m)), NEW f, f = Frame(m, o),
           NEW hashes, Brought(m, hashes, f), NEW events \in Seq(Event),
           NEW l, l = WithReceived(h, hashes), NEW a, a = IF hashes = {} THEN l ELSE Unmatched(l),
           ~Mismatch(l), Step(m, o, Applied(o, events)),
           link' = [link EXCEPT ![m] = WithDue(a, o, time'[m][o])],
           \A j \in Machine : Coming(j)' \subseteq Coming(j)
    PROVE  AllTelling' /\ \A j \in Machine : link'[j].failure = link[j].failure
<1>1. Typed /\ o \in Console
  BY DEF KeepingInv, Machine
<1>2. LinkTyped(h) /\ h.received = {} /\ Alive(m)
  BY <1>1, TurnStarts
<1>3. /\ f \in Nat /\ time[m][o] = f * FrameTicks[o]
      /\ \A i \in DOMAIN h.computed :
            h.computed[i] \in Hash /\ Honest(h.computed[i], trace[m], time[m])
      /\ \A j \in Number : Delay <= f /\ Carries(o, f - Delay, j) => Remembered(h, Interval * j)
      /\ \A g \in hashes : Remembered(h, g.frame)
  BY KnowsBrought
<1>4. SameHashes(a, h) /\ ~Differs(h, hashes)
  BY <1>2, <1>3, ReceivesHashes
<1>5. LinkTyped(a)
  BY <1>2, WithReceivedKeeps, UnmatchedKeeps
<1>6. PICK applied : applied = Applied(o, events)
  OBVIOUS
<1>7. \E e \in Happened : applied = <<e>>
  BY <1>1, <1>6 DEF Applied, Happened
<1>8. /\ WentOn(m, trace[m], time[m], trace'[m], time'[m])
      /\ \E c \in Nat : Hashing(m, link'[m], c, trace'[m], time'[m])
      /\ link'[m].failure = link[m].failure
      /\ \A j \in Machine : j # m =>
            trace'[j] = trace[j] /\ time'[j] = time[j] /\ link'[j] = link[j]
      /\ time'[m][o] = time[m][o] + 1
  BY <1>4, <1>5, <1>6, <1>7, PartnerSteps DEF SameHashes
<1>9. ASSUME NEW j \in Number, Delay <= f, Carries(o, f - Delay, j)
      PROVE  \A x \in Machine : \A z \in StraysIn(trace[x]) : trace[x][z].stray >= Interval * j
  <2>1. PICK g \in hashes : g.frame = Interval * j
    BY <1>9 DEF Brought
  <2>2. PICK i \in DOMAIN h.computed : h.computed[i].frame = Interval * j
    BY <1>3, <1>9 DEF Remembered
  <2>3. g.of = h.computed[i].of
    BY <1>4, <2>1, <2>2 DEF Differs
  <2>4. \A x \in Machine : \A z \in StraysIn(trace[x]) : trace[x][z].stray >= g.frame
    BY <1>1, <1>3, <2>1, <2>2, <2>3, BroughtAgrees
  <2>5. QED
    BY <2>1, <2>4
<1>10. (\A j \in Machine : StraysStay(j)) => Checked(m)'
  <2>1. Checked(m)
    BY <1>2 DEF AllTelling, Telling
  <2>2. QED
    BY <1>3, <1>8, <1>9, <2>1, CheckedFurther
<1>11. AllTelling'
  BY <1>1, <1>8, <1>10, MoverTelling DEF WentOn, NoneStrays
<1>12. QED
  BY <1>8, <1>11

LEMMA TakenComing ==
    ASSUME Typed, NEW m \in Machine, NEW f \in Nat, NEW p \in {partner[m], Taken(partner[m], f)},
           partner' = [partner EXCEPT ![m] = p], net' = net
    PROVE  \A j \in Machine : Coming(j)' \subseteq Coming(j)
<1>1. \A j \in Machine : j # m => partner'[j] = partner[j]
  BY DEF Typed
<1>2. partner'[m] = p
  BY DEF Typed
<1>3. /\ DOMAIN p.frames \subseteq DOMAIN partner[m].frames
      /\ \A i \in DOMAIN p.frames : p.frames[i] = partner[m].frames[i]
  <2>1. PartnerTyped(partner[m])
    BY TypedParts
  <2>2. QED
    BY <2>1, TakenTypes
<1>4. \A j \in Machine : \A i \in DOMAIN partner'[j].frames :
         i \in DOMAIN partner[j].frames /\ partner'[j].frames[i] = partner[j].frames[i]
  BY <1>1, <1>2, <1>3
<1>5. QED
  BY <1>4 DEF Coming

\* The partner's next frame begins, or the link ends in a mismatch.
LEMMA PartnerBeginsTelling ==
    ASSUME KeepingInv, AllTelling, NEW m \in Machine, PartnerBegins(m)
    PROVE  /\ AllTelling'
           /\ \/ \A j \in Machine : link'[j].failure = link[j].failure
              \/ \E hashes : /\ Mismatch(WithReceived(Unmatched(Hashed(m)), hashes))
                             /\ Brought(m, hashes, Frame(m, Other(m)))
<1>1. Typed
  BY DEF KeepingInv
<1>2. PICK o \in Machine : o = Other(m) /\ o \in Console
  BY Pairs
<1>3. Runs(m, o) /\ ~MidFrame(m, o)
  BY <1>1, <1>2, PartnerBeginsEffect
<1>4. PICK events, hashes, l, a, p :
          BeginsWith(m, events, hashes) /\ BeginsEffect(m, events, hashes, l, a, p)
  BY <1>1, PartnerBeginsEffect
<1>5. PICK f \in Nat : f = Frame(m, o)
  BY <1>1, <1>2, TypedParts
<1>6. Brought(m, hashes, f) /\ events \in Seq(Event)
  BY <1>1, <1>2, <1>4, <1>5, BeginsBrought
<1>7. PICK h : h = Unmatched(Hashed(m))
  OBVIOUS
<1>8. l = WithReceived(h, hashes) /\ a = IF hashes = {} THEN l ELSE Unmatched(l)
  BY <1>4, <1>7 DEF BeginsEffect
<1>9. CASE /\ Mismatch(l) /\ Fails(m, "mismatch") /\ time' = time
           /\ trace' = [trace EXCEPT ![m] = @ \o Applied(o, events)]
  <2>1. AllTelling'
    BY <1>2, <1>3, <1>6, <1>9, BeginMismatchTelling
  <2>2. QED
    BY <1>2, <1>5, <1>6, <1>7, <1>8, <1>9, <2>1
<1>10. CASE /\ ~Mismatch(l) /\ Step(m, o, Applied(o, events))
            /\ link' = [link EXCEPT ![m] = WithDue(a, o, time'[m][o])]
            /\ p \in {partner[m], Taken(partner[m], f)}
            /\ partner' = [partner EXCEPT ![m] = p] /\ net' = net
  <2>1. \A j \in Machine : Coming(j)' \subseteq Coming(j)
    BY <1>1, <1>10, TakenComing
  <2>2. QED
    BY <1>2, <1>3, <1>5, <1>6, <1>7, <1>8, <1>10, <2>1, BeginStepsTelling
<1>11. QED
  BY <1>2, <1>4, <1>5, <1>9, <1>10 DEF BeginsEffect

-----------------------------------------------------------------------------
\* What strays on machine m now does so after all that any machine has compared.
LEMMA StrayLate ==
    ASSUME KeepingInv, AllTelling, NEW m \in Machine, Alive(m), NEW j \in Machine, Alive(j),
           NEW o \in Machine, o = Other(j), NEW r \in Nat, NEW v \in Number, Carries(o, r, v),
           (r + Delay) * FrameTicks[o] < time[j][o]
    PROVE  v * Apart <= time[m]["first"]
<1>1. /\ Typed /\ Told(m, trace[m], time[m]) /\ time[m] \in [Console -> Nat]
      /\ time[j] \in [Console -> Nat] /\ o \in Console /\ Machine = Console
  BY Pairs, TypedParts DEF KeepingInv, AllTelling, Telling
<1>2. PICK n \in Nat \ {0}, d \in Nat \ {0} : n = FrameTicks[o] /\ d = Delay
  BY <1>1, TicksAssumption, DelayAssumption
<1>3. PICK t1 \in Nat, u \in Nat : t1 = time[m]["first"] /\ u = time[m][o] /\ u <= t1
  <2>1. time[m]["first"] \in Nat /\ time[m]["second"] \in Nat
    BY <1>1 DEF Console
  <2>2. time[m]["second"] <= time[m]["first"]
    BY <1>1 DEF Told
  <2>3. o = "first" \/ o = "second"
    BY <1>1 DEF Console
  <2>4. QED
    BY <2>1, <2>2, <2>3
<1>4. PICK x \in Int, y \in Int, e \in Int : x = v * Apart /\ y = r * n /\ e = d * n /\ e > 0
  <2>1. v * Apart \in Int
    BY ApartIs DEF Number
  <2>2. r * n \in Int /\ d * n \in Int /\ 0 * n = 0 /\ (0 < d <=> 0 * n < d * n)
    BY Scales
  <2>3. QED
    BY <2>1, <2>2
<1>5. x <= y
  BY <1>2, <1>4 DEF Carries
<1>6. PICK w \in Nat : w = time[j][o]
  BY <1>1
<1>7. y + e < w
  <2>1. (r + d) * n = y + e
    BY <1>4, Scales
  <2>2. QED
    BY <1>2, <1>6, <2>1
<1>8. CASE j = m
  BY <1>3, <1>4, <1>5, <1>6, <1>7, <1>8
<1>9. CASE j # m
  <2>1. o = m /\ Other(j) = m
    BY <1>9, Pairs DEF Other, Machine, Console
  <2>2. Fed(j) /\ Paced(m)
    BY <2>1 DEF KeepingInv, Keeping
  <2>3. PICK sent \in Nat : sent = Sent(m) /\ link[m].nextSend = sent + d
    <3>1. link[m].nextSend \in Nat
      BY <1>1, TypedParts DEF LinkTyped
    <3>2. QED
      BY <1>2, <2>2, <3>1 DEF Paced, Sent
  <2>4. w <= (sent + d) * n
    BY <1>2, <1>6, <2>1, <2>2, <2>3 DEF Fed
  <2>5. PICK z \in Int : z = sent * n /\ (sent + d) * n = z + e /\ (sent - 1) * n = z - n
    BY <1>4, Scales
  <2>6. r < sent
    <3>1. y < z
      BY <1>4, <1>6, <1>7, <2>4, <2>5
    <3>2. r < sent <=> r * n < sent * n
      BY Scales
    <3>3. QED
      BY <1>4, <2>5, <3>1, <3>2
  <2>7. y <= z - n
    <3>1. r <= sent - 1 /\ sent - 1 \in Int
      BY <2>6
    <3>2. r <= sent - 1 <=> r * n <= (sent - 1) * n
      BY <3>1, Scales
    <3>3. QED
      BY <1>4, <2>5, <3>1, <3>2
  <2>8. z - n <= u
    <3>1. /\ link[m].prepared => (sent - 1) * n <= u
          /\ ~link[m].prepared => u = sent * n
      BY <1>2, <1>3, <2>1, <2>2, <2>3 DEF Paced
    <3>2. QED
      BY <1>2, <1>3, <2>5, <3>1
  <2>9. QED
    BY <1>2, <1>3, <1>4, <1>5, <2>5, <2>7, <2>8
<1>10. QED
  BY <1>8, <1>9

\* T ticks in, where number q * n is behind.
LEMMA Past ==
    ASSUME NEW n \in Nat \ {0}, NEW q \in Nat, NEW t \in Nat, q * n <= t
    PROVE  q <= t \div n
<1>1. PICK p \in Nat, c \in 0..(n - 1) : p = t \div n /\ c = t % n /\ t = n * p + c
  BY Ticks
<1>2. PICK x \in Int, y \in Int : x = q * n /\ y = p * n /\ y = n * p /\ (p + 1) * n = y + n
  OBVIOUS
<1>3. x < y + n
  BY <1>1, <1>2
<1>4. q < p + 1 <=> q * n < (p + 1) * n
  BY Scales
<1>5. QED
  BY <1>1, <1>2, <1>3, <1>4

LEMMA StrayTelling ==
    ASSUME KeepingInv, AllTelling, NEW m \in Machine, Stray(m)
    PROVE  AllTelling' /\ link' = link
<1>1. Typed /\ Alive(m) /\ UNCHANGED <<link, partner, time, net>>
  BY DEF KeepingInv, Stray, Alive
<1>2. PICK s, t : s = trace[m] /\ t = time[m]
  OBVIOUS
<1>3. PICK n \in Nat \ {0} : n = FrameTicks["first"]
  BY TicksAssumption DEF Console
<1>4. s \in Seq(Entries) /\ t \in [Console -> Nat] /\ Told(m, s, t) /\ t["first"] \in Nat
  BY <1>1, <1>2, TypedParts DEF AllTelling, Telling, Console
<1>5. PICK u : u = Append(s, [stray |-> t["first"] \div FrameTicks["first"], on |-> m])
  OBVIOUS
<1>6. trace'[m] = u /\ \A j \in Machine : j # m => trace'[j] = trace[j]
  BY <1>1, <1>2, <1>5 DEF Stray, Frame, Typed
<1>7. RanOn(m, s, t, u, t) /\ Told(m, u, t) /\ StraysIn(u) # {}
  BY <1>4, <1>5, StrayTold
<1>8. \A j \in Machine : /\ RanOn(j, trace[j], time[j], trace'[j], time'[j])
                         /\ Told(j, trace'[j], time'[j])
  <2>1. \A j \in Machine : RanOn(j, trace[j], time[j], trace[j], time[j]) /\ Told(j, trace[j], time[j])
    BY <1>1, StillRanOn, TypedParts DEF AllTelling, Telling
  <2>2. QED
    BY <1>1, <1>2, <1>6, <1>7, <2>1
<1>9. ASSUME NEW j \in Machine, Alive(j)
      PROVE  \E c \in Nat : Hashing(j, link'[j], c, trace'[j], time'[j])
  <2>1. PICK c \in Nat : Hashing(j, link[j], c, trace[j], time[j])
    BY <1>9 DEF AllTelling, Telling
  <2>2. CASE j = m
    <3>1. Hashing(m, link[m], c, u, t)
      BY <1>2, <1>4, <1>7, <2>1, <2>2, WaitsHashing
    <3>2. QED
      BY <1>1, <1>2, <1>6, <2>2, <3>1
  <2>3. CASE j # m
    BY <1>1, <1>6, <2>1, <2>3
  <2>4. QED
    BY <2>2, <2>3
<1>10. ASSUME NEW j \in Machine, Alive(j)
       PROVE  Checked(j)'
  <2>1. PICK o \in Machine : o = Other(j)
    BY Pairs
  <2>2. SUFFICES ASSUME NEW r \in Nat, NEW v \in Number, Carries(o, r, v),
                        (r + Delay) * FrameTicks[o] < time[j][o],
                        NEW x \in Machine, NEW z \in StraysIn(trace'[x])
                 PROVE  trace'[x][z].stray >= Interval * v
    BY <1>1, <2>1 DEF Checked, Carries
  <2>3. \A i \in StraysIn(trace[x]) : trace[x][i].stray >= Interval * v
    BY <1>10, <2>1, <2>2 DEF AllTelling, Telling, Checked
  <2>4. CASE x # m
    BY <1>6, <2>3, <2>4
  <2>5. CASE x = m /\ z <= Len(s)
    <3>1. z \in 1..Len(u) /\ u \in Seq(Entries)
      BY <1>6, <1>7, <2>5, StrayTypesIn DEF RanOn
    <3>2. z \in 1..Len(s)
      BY <1>4, <2>5, <3>1
    <3>3. z \in StraysIn(s)
      BY <1>4, <1>6, <1>7, <2>5, <3>2, RanOnStrays
    <3>4. u[z] = s[z]
      BY <1>7, <3>2 DEF RanOn
    <3>5. QED
      BY <1>2, <1>6, <2>3, <2>5, <3>3, <3>4
  <2>6. CASE x = m /\ z > Len(s)
    <3>1. u[z].stray = t["first"] \div n
      BY <1>3, <1>6, <1>7, <2>6 DEF RanOn
    <3>2. v * Apart <= t["first"]
      BY <1>1, <1>2, <1>10, <2>1, <2>2, StrayLate
    <3>3. PICK q \in Nat : q = Interval * v
      BY WindowsAssumption DEF Number
    <3>4. v * Apart = q * n
      BY <1>3, <3>3, ApartIs DEF Number
    <3>5. q <= t["first"] \div n
      BY <1>4, <3>2, <3>4, Past
    <3>6. t["first"] \div n \in Nat
      BY <1>3, <1>4, Ticks
    <3>7. QED
      BY <1>6, <2>6, <3>1, <3>3, <3>5, <3>6
  <2>7. z \in Nat /\ Len(s) \in Nat
    <3>1. trace'[x] \in Seq(Entries)
      BY <1>8 DEF RanOn
    <3>2. QED
      BY <1>4, <3>1, StrayTypesIn
  <2>8. QED
    BY <2>4, <2>5, <2>6, <2>7
<1>11. \A j \in Machine : Coming(j)' = Coming(j) /\ (Alive(j)' <=> Alive(j))
  BY <1>1 DEF Coming, Alive
<1>12. AllTelling'
  BY <1>1, <1>8, <1>9, <1>10, <1>11, TellingAfter
<1>13. QED
  BY <1>1, <1>12

\* At first nothing has happened.
LEMMA InitTelling ==
    ASSUME Init
    PROVE  AllTelling
<1> SUFFICES ASSUME NEW m \in Machine
             PROVE  Telling(m)
  BY DEF AllTelling
<1>1. PICK s, t, l : s = trace[m] /\ t = time[m] /\ l = link[m]
  OBVIOUS
<1>2. /\ s = <<>> /\ t = [k \in Console |-> 0] /\ l = LinkIn("starting", "none")
      /\ \A j \in Machine : net[j] = <<>> /\ partner[j] = NoFrames
  BY <1>1 DEF Init
<1>3. /\ t["first"] = 0 /\ t["second"] = 0 /\ time[m][Other(m)] = 0
      /\ l.due = {} /\ l.computed = <<>> /\ l.pending = {} /\ l.received = {}
  BY <1>1, <1>2 DEF LinkIn, Console, Other
<1>4. StraysIn(s) = {} /\ Steps(s) = 0
  <2>1. DOMAIN s = {}
    BY <1>2
  <2>2. {i \in DOMAIN s : s[i] = SecondStep} = {} /\ StraysIn(s) = {}
    BY <2>1 DEF StraysIn
  <2>3. QED
    BY <2>2, FS_EmptySet DEF Steps
<1>5. Told(m, s, t)
  BY <1>3, <1>4 DEF Told
<1>6. Coming(m) = {}
  BY <1>2 DEF Coming, NoFrames
<1>7. Hashing(m, l, 0, s, t)
  <2>1. Counts(m, l, 0, s, t)
    BY <1>3, ApartIs DEF Counts
  <2>2. Remembers(l, 0, s, t)
    BY <1>3, WindowsAssumption DEF Remembers, Newly
  <2>3. Holds(m, l, 0, s, t)
    BY <1>3 DEF Holds
  <2>4. QED
    BY <1>3, <2>1, <2>2, <2>3 DEF Hashing
<1>8. Checked(m)
  <2>1. FrameTicks[Other(m)] \in Nat
    BY TicksAssumption, Pairs
  <2>2. \A r \in Nat : (r + Delay) * FrameTicks[Other(m)] >= 0
    BY <2>1, DelayAssumption
  <2>3. ASSUME NEW r \in Nat, (r + Delay) * FrameTicks[Other(m)] < time[m][Other(m)]
        PROVE  FALSE
    <3>1. PICK x \in Int : x = (r + Delay) * FrameTicks[Other(m)]
      BY <2>1, DelayAssumption
    <3>2. QED
      BY <1>3, <2>2, <2>3, <3>1
  <2>4. QED
    BY <2>3 DEF Checked
<1>9. QED
  BY <1>1, <1>5, <1>6, <1>7, <1>8 DEF Telling, Reported

-----------------------------------------------------------------------------
\* What strayed has, whatever comes next.
LEMMA StrayedRemains ==
    ASSUME Typed, NEW m \in Machine,
           \/ LocalTurn(m) \/ PartnerContinues(m) \/ PartnerBegins(m)
           \/ EndsAnyhow(m) \/ Arrives(m) \/ Idles(m) \/ WriteOrReset(m) \/ Stray(m)
    PROVE  Strayed => Strayed'
<1>1. CASE Stray(m)
  BY <1>1, StrayTypes
<1>2. CASE LocalTurn(m) \/ PartnerContinues(m) \/ PartnerBegins(m)
  <2>1. TracesGrow
    BY <1>2, LocalTurnTypes, PartnerTurnTypes
  <2>2. QED
    BY <2>1, StrayedStays
<1>3. CASE EndsAnyhow(m) \/ Arrives(m) \/ Idles(m) \/ WriteOrReset(m)
  <2>1. trace' = trace
    BY <1>3, EndsAnyhowEffect, ArrivesEffect, IdlesEffect, WriteOrResetEffect
  <2>2. QED
    BY <2>1 DEF Strayed, Strays
<1>4. QED
  BY <1>1, <1>2, <1>3

\* A link that ends for another reason has not found a mismatch.
LEMMA EndsAnyhowFailure ==
    ASSUME Typed, NEW m \in Machine, EndsAnyhow(m)
    PROVE  /\ link'[m].failure # "mismatch"
           /\ \A j \in Machine : j # m => link'[j].failure = link[j].failure
<1>1. \E failure \in {"none", "partner ended", "timeout"} :
         link' = [link EXCEPT ![m] = LinkIn("ended", failure)]
  BY DEF EndsAnyhow, PartnerEnded, StallTimesOut, HearLeft, Unplug, Leave, Deliver, Fails, Ends
<1>2. PICK failure \in {"none", "partner ended", "timeout"} :
         link' = [link EXCEPT ![m] = LinkIn("ended", failure)]
  BY <1>1
<1>3. link'[m] = LinkIn("ended", failure) /\ \A j \in Machine : j # m => link'[j] = link[j]
  BY <1>2 DEF Typed
<1>4. link'[m].failure = failure
  <2>1. LinkIn("ended", failure).failure = failure
    BY DEF LinkIn
  <2>2. QED
    BY <1>3, <2>1, Zenon
<1>5. QED
  BY <1>2, <1>3, <1>4

\* The hashes of a pair in step agree.
LEMMA MismatchStrays ==
    ASSUME LockstepInv, KeepingInv, AllTelling, NEW m \in Machine, NEW o \in Machine,
           o = Other(m), Runs(m, o), ~MidFrame(m, o), NEW h, h = Unmatched(Hashed(m)),
           NEW hashes, Brought(m, hashes, Frame(m, o)), Mismatch(WithReceived(h, hashes))
    PROVE  Strayed
<1> SUFFICES ASSUME ~Strayed
             PROVE  FALSE
  OBVIOUS
<1>1. Typed /\ o \in Console
  BY DEF KeepingInv, Machine
<1>2. PICK f : f = Frame(m, o)
  OBVIOUS
<1>3. LinkTyped(h) /\ h.received = {}
  BY <1>1, TurnStarts
<1>4. /\ \A i \in DOMAIN h.computed :
            h.computed[i] \in Hash /\ Honest(h.computed[i], trace[m], time[m])
      /\ \A g \in hashes : Remembered(h, g.frame)
  BY <1>2, KnowsBrought
<1>5. Differs(h, hashes)
  <2>1. PICK l, a : l = WithReceived(h, hashes) /\ a = IF hashes = {} THEN l ELSE Unmatched(l)
    OBVIOUS
  <2>2. Mismatch(l)
    BY <2>1
  <2>3. QED
    BY <1>3, <1>4, <2>1, <2>2, ReceivesHashes
<1>6. PICK g \in hashes, i \in DOMAIN h.computed :
          g.frame = h.computed[i].frame /\ g.of # h.computed[i].of
  BY <1>5 DEF Differs
<1>7. /\ g \in Hash /\ Honest(g, trace[o], time[o])
      /\ h.computed[i] \in Hash /\ Honest(h.computed[i], trace[m], time[m])
  BY <1>4 DEF Brought
<1>8. StraysIn(trace[m]) = {} /\ StraysIn(trace[o]) = {}
  BY DEF Strayed, Strays, StraysIn
<1>9. IsPrefix(trace[m], trace[o]) \/ IsPrefix(trace[o], trace[m])
  <2>1. InStep
    BY ScriptedInStep DEF LockstepInv
  <2>2. \/ IsPrefix(trace["first"], trace["second"])
        \/ IsPrefix(trace["second"], trace["first"])
    BY <2>1, Zenon DEF InStep
  <2>3. \/ m = "first" /\ o = "second"
        \/ m = "second" /\ o = "first"
    BY DEF Other, Machine, Console
  <2>4. QED
    BY <2>2, <2>3
<1>10. trace[m] \in Seq(Entries) /\ trace[o] \in Seq(Entries)
  BY <1>1, TypedParts
<1>11. h.computed[i].of = g.of
  BY <1>6, <1>7, <1>8, <1>9, <1>10, HashesAgree
<1>12. QED
  BY <1>6, <1>11

-----------------------------------------------------------------------------
\* All that is known of a pair and its hashes.
HashesInv == LockstepInv /\ KeepingInv /\ AllTelling /\ MismatchMeansStray

LEMMA HashesStep ==
    ASSUME HashesInv, [Next]_vars
    PROVE  HashesInv'
<1>1. LockstepInv /\ KeepingInv /\ AllTelling /\ MismatchMeansStray /\ Typed
  BY DEF HashesInv, KeepingInv
<1>2. LockstepInv' /\ KeepingInv'
  BY <1>1, LockstepStep, KeepingStep
<1>3. CASE UNCHANGED vars
  <2>1. \A j \in Machine : Coming(j)' = Coming(j) /\ (Alive(j)' <=> Alive(j))
    BY <1>3 DEF vars, Coming, Alive
  <2>2. AllTelling'
    BY <1>1, <1>3, <2>1, QuietTelling DEF vars, AllTelling, Telling
  <2>3. MismatchMeansStray'
    BY <1>1, <1>3 DEF vars, MismatchMeansStray, Strayed, Strays
  <2>4. QED
    BY <1>2, <2>2, <2>3 DEF HashesInv
<1>4. ASSUME NEW m \in Machine,
             ThreadStep(m) \/ Stall(m) \/ Deliver(m) \/ HearLeft(m) \/ Unplug(m) \/ Leave(m)
             \/ Press(m) \/ WriteOrReset(m) \/ Pause(m) \/ Resume(m) \/ Stray(m)
      PROVE  AllTelling' /\ MismatchMeansStray'
  <2>1. \/ LocalTurn(m) \/ PartnerContinues(m) \/ PartnerBegins(m)
        \/ EndsAnyhow(m) \/ Arrives(m) \/ Idles(m) \/ WriteOrReset(m) \/ Stray(m)
    BY <1>4, Zenon DEF ThreadStep, EndsAnyhow, Arrives, Idles
  <2>2. Strayed => Strayed'
    BY <1>1, <2>1, StrayedRemains
  <2>3. ASSUME \A j \in Machine :
                  link'[j].failure = link[j].failure \/ link'[j].failure # "mismatch"
        PROVE  MismatchMeansStray'
    BY <1>1, <2>2, <2>3 DEF MismatchMeansStray
  <2>4. CASE LocalTurn(m)
    BY <1>1, <2>3, <2>4, LocalTurnTelling
  <2>5. CASE PartnerContinues(m)
    BY <1>1, <2>3, <2>5, PartnerContinuesTelling
  <2>6. CASE PartnerBegins(m)
    <3>1. CASE \A j \in Machine : link'[j].failure = link[j].failure
      BY <1>1, <2>3, <2>6, <3>1, PartnerBeginsTelling
    <3>2. CASE \E hashes : /\ Mismatch(WithReceived(Unmatched(Hashed(m)), hashes))
                           /\ Brought(m, hashes, Frame(m, Other(m)))
      <4>1. PICK o \in Machine : o = Other(m)
        BY Pairs
      <4>2. Runs(m, o) /\ ~MidFrame(m, o)
        BY <1>1, <2>6, <4>1, PartnerBeginsEffect
      <4>3. Strayed
        BY <1>1, <3>2, <4>1, <4>2, MismatchStrays
      <4>4. AllTelling'
        BY <1>1, <2>6, PartnerBeginsTelling
      <4>5. QED
        BY <2>2, <4>3, <4>4 DEF MismatchMeansStray
    <3>3. QED
      BY <1>1, <2>6, <3>1, <3>2, PartnerBeginsTelling
  <2>7. CASE EndsAnyhow(m)
    BY <1>1, <2>3, <2>7, EndsAnyhowTelling, EndsAnyhowFailure
  <2>8. CASE Arrives(m)
    <3>1. link' = link
      BY <1>1, <2>8, ArrivesEffect
    <3>2. QED
      BY <1>1, <2>3, <2>8, <3>1, ArrivesTelling
  <2>9. CASE Idles(m)
    BY <1>1, <2>3, <2>9, IdlesTelling
  <2>10. CASE WriteOrReset(m)
    BY <1>1, <2>3, <2>10, WriteOrResetTelling
  <2>11. CASE Stray(m)
    BY <1>1, <2>3, <2>11, StrayTelling
  <2>12. QED
    BY <2>1, <2>4, <2>5, <2>6, <2>7, <2>8, <2>9, <2>10, <2>11
<1>5. QED
  BY <1>2, <1>3, <1>4 DEF Next, HashesInv

\* The frame of a hash is sent in time.
LEMMA CarriedBy ==
    ASSUME NEW o \in Console, NEW j \in Number
    PROVE  \E r \in Nat : Carries(o, r, j)
<1>1. PICK b \in Nat \ {0}, n \in Nat \ {0} : b = Apart /\ n = FrameTicks[o]
  BY ApartIs, TicksAssumption
<1>2. PICK x \in Nat : x = j * b /\ x > 0
  <2>1. j \in Nat /\ j > 0 /\ 0 * b = 0
    BY DEF Number
  <2>2. j * b \in Nat /\ (0 < j <=> 0 * b < j * b)
    BY <2>1, Scales
  <2>3. QED
    BY <2>1, <2>2
<1>3. PICK p \in Nat, c \in 0..(n - 1) : p = (x - 1) \div n /\ c = (x - 1) % n /\ x - 1 = n * p + c
  <2>1. x - 1 \in Nat
    BY <1>2
  <2>2. QED
    BY <2>1, Ticks
<1>4. PICK y \in Int : y = p * n /\ y = n * p /\ (p + 1) * n = y + n
  OBVIOUS
<1>5. y < x /\ x <= y + n
  <2>1. x - 1 = y + c /\ 0 <= c /\ c <= n - 1
    BY <1>3, <1>4
  <2>2. QED
    BY <1>2, <1>4, <2>1
<1>6. (p + 1) - 1 = p /\ p + 1 \in Nat
  OBVIOUS
<1>7. Carries(o, p + 1, j)
  BY <1>1, <1>2, <1>4, <1>5, <1>6 DEF Carries
<1>8. QED
  BY <1>6, <1>7

\* What strayed has ended the link by then.
LEMMA CaughtInTime ==
    ASSUME Typed, AllTelling, NEW m \in Machine, Alive(m),
           NEW s \in Machine, NEW i \in StraysIn(trace[s]),
           NEW hashed, hashed = (trace[s][i].stray \div Interval + 1) * Interval
    PROVE  time[m]["first"] <= hashed * FrameTicks["first"] + (Delay + 1) * Longest
<1>1. PICK o \in Machine : o = Other(m) /\ o \in Console
  BY Pairs
<1>2. PICK q \in Nat : q = trace[s][i].stray
  BY StrayTypesIn, TypedParts
<1>3. PICK j \in Number : j = q \div Interval + 1 /\ q < Interval * j
  <2>1. PICK v \in Nat \ {0} : v = Interval
    BY WindowsAssumption
  <2>2. PICK p \in Nat, c \in 0..(v - 1) : p = q \div v /\ c = q % v /\ q = v * p + c
    BY Ticks
  <2>3. v * (p + 1) = v * p + v /\ v * p \in Nat
    OBVIOUS
  <2>4. q < v * (p + 1)
    BY <2>2, <2>3
  <2>5. QED
    BY <2>1, <2>2, <2>4 DEF Number
<1>4. PICK n \in Nat \ {0}, d \in Nat \ {0} : n = FrameTicks[o] /\ d = Delay
  BY <1>1, TicksAssumption, DelayAssumption
<1>5. PICK x \in Int : x = j * Apart /\ x = hashed * FrameTicks["first"]
  <2>1. j * Apart \in Int /\ j * Apart = (Interval * j) * FrameTicks["first"]
    BY ApartIs DEF Number
  <2>2. hashed = Interval * j
    BY <1>2, <1>3, WindowsAssumption DEF Number
  <2>3. QED
    BY <2>1, <2>2
<1>6. PICK r \in Nat : Carries(o, r, j)
  BY <1>1, CarriedBy
<1>7. PICK w \in Nat : w = time[m][o]
  BY <1>1, TypedParts
<1>8. ~((r + d) * n < w)
  <2>1. Checked(m)
    BY DEF AllTelling, Telling
  <2>2. Interval * j \in Nat
    BY WindowsAssumption DEF Number
  <2>3. ~(trace[s][i].stray >= Interval * j)
    BY <1>2, <1>3, <2>2
  <2>4. QED
    BY <1>1, <1>4, <1>6, <1>7, <2>1, <2>3 DEF Checked
<1>9. PICK y \in Int, e \in Int : y = r * n /\ e = d * n
  OBVIOUS
<1>10. (r + d) * n = y + e /\ (r - 1) * n = y - n /\ (d + 1) * n = e + n
  BY <1>9, Scales
<1>11. y - n < x
  BY <1>4, <1>5, <1>6, <1>10 DEF Carries
<1>12. w < x + (e + n)
  BY <1>4, <1>8, <1>10, <1>11
<1>13. PICK t1 \in Nat : t1 = time[m]["first"] /\ t1 <= w + 1
  <2>1. time[m]["first"] \in Nat /\ time[m]["second"] \in Nat
    BY TypedParts DEF Console
  <2>2. time[m]["first"] <= time[m]["second"] + 1
    BY DEF AllTelling, Telling, Told
  <2>3. o = "first" \/ o = "second"
    BY <1>1 DEF Console
  <2>4. QED
    BY <1>7, <2>1, <2>2, <2>3
<1>14. t1 <= x + (e + n)
  BY <1>12, <1>13
<1>15. PICK g \in Int : g = (Delay + 1) * Longest /\ e + n <= g
  <2>1. FrameTicks["first"] \in Nat \ {0} /\ FrameTicks["second"] \in Nat \ {0}
    BY TicksAssumption DEF Console
  <2>2. PICK k \in Nat \ {0} : k = Longest /\ n <= k
    BY <1>1, <1>4, <2>1 DEF Longest, Console
  <2>3. PICK z \in Nat \ {0} : z = d + 1
    BY <1>4
  <2>4. n * z = (d + 1) * n /\ k * z = (d + 1) * k
    BY <2>3
  <2>5. n * z <= k * z
    BY <2>2, Scales
  <2>6. QED
    BY <1>4, <1>10, <2>2, <2>4, <2>5
<1>16. QED
  BY <1>5, <1>13, <1>14, <1>15

LEMMA TellingTells ==
    ASSUME HashesInv
    PROVE  HashesTell
<1>1. Typed /\ AllTelling /\ MismatchMeansStray
  BY DEF HashesInv, KeepingInv
<1>2. ASSUME NEW m \in Machine, link[m].phase = "running"
      PROVE  ~Mismatch(Hashed(m))
  <2>1. Alive(m)
    BY <1>2 DEF Alive
  <2>2. Told(m, trace[m], time[m]) /\ \E c \in Nat : Hashing(m, link[m], c, trace[m], time[m])
    BY <1>1, <2>1 DEF AllTelling, Telling
  <2>3. QED
    BY <1>1, <2>2, HashedHashing
<1>3. ASSUME NEW m \in Machine, NEW s \in Machine, NEW i \in Strays(s), link[m].phase = "running"
      PROVE  LET hashed == (trace[s][i].stray \div Interval + 1) * Interval
             IN  time[m]["first"] <= hashed * FrameTicks["first"] + (Delay + 1) * Longest
  <2>1. Alive(m) /\ i \in StraysIn(trace[s])
    BY <1>3 DEF Alive, Strays, StraysIn
  <2>2. QED
    BY <1>1, <2>1, CaughtInTime
<1>4. DivergenceCaught
  BY <1>2, <1>3 DEF DivergenceCaught
<1>5. QED
  BY <1>1, <1>4 DEF HashesTell

\* The pair hashes are right, whatever the frame lengths, the delay and the interval: a
\* link ends in a mismatch only if something else than the link changed a console, and
\* if something did, no machine runs on past the hash after it and the delay.
THEOREM PairHashesTell == Spec => []HashesTell
<1>1. Init => HashesInv
  <2>1. Init => MismatchMeansStray
    BY DEF Init, MismatchMeansStray, LinkIn
  <2>2. QED
    BY <2>1, InitTypes, InitScripted, InitKeeping, InitTelling
       DEF HashesInv, LockstepInv, KeepingInv
<1>2. HashesInv /\ [Next]_vars => HashesInv'
  BY HashesStep
<1>3. HashesInv => HashesTell
  BY TellingTells
<1>4. QED
  BY <1>1, <1>2, <1>3, PTL DEF Spec

=============================================================================
