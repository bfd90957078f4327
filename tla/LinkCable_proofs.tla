-------------------------- MODULE LinkCable_proofs --------------------------
(***************************************************************************)
(* The link roster and the handshake: the theorems, for any number of      *)
(* clients, requests, cables pulled and connections closed. The invariants *)
(* and the argument are those of LinkCable_invariants: for each its lemmas *)
(* say what holds of it at first, and after a step of a frontend, a reader *)
(* or a closer.                                                            *)
(***************************************************************************)
EXTENDS LinkCable_invariants, FiniteSetTheorems, SequenceTheorems, TLAPS

\* Taking links away leaves no player with two (RouteUnlink, Departing).
LEMMA FewerLinks == OneCable /\ links' \subseteq links => OneCable'
BY DEF OneCable

\* A link between two players without one is no second link of either.
LEMMA NewLink ==
    ASSUME NEW a, NEW b, OneCable, ~ IsLinked(a), ~ IsLinked(b),
           links' = links \union {<<a, b>>}
    PROVE  OneCable'
<1> SUFFICES ASSUME NEW k \in links', NEW l \in links', k # l
             PROVE  {k[1], k[2]} \intersect {l[1], l[2]} = {}
  BY DEF OneCable
<1>1. \A m \in links : {m[1], m[2]} \intersect {a, b} = {}
  BY DEF IsLinked
<1>2. CASE k \in links /\ l \in links
  BY <1>2 DEF OneCable
<1>3. CASE k = <<a, b>> /\ l \in links
  <2>1. k[1] = a /\ k[2] = b
    BY <1>3
  <2> QED
    BY <1>1, <1>3, <2>1
<1>4. CASE l = <<a, b>> /\ k \in links
  <2>1. l[1] = a /\ l[2] = b
    BY <1>4
  <2> QED
    BY <1>1, <1>4, <2>1
<1> QED
  BY <1>2, <1>3, <1>4

\* Whatever the players do and whoever leaves, the roster never plugs a player into
\* two others (HostShared::route_link).
THEOREM OneCableEach == Spec => []OneCable
<1>1. Init => OneCable
  BY DEF Init, OneCable
<1>2. OneCable /\ [Next]_vars => OneCable'
  <2> SUFFICES ASSUME OneCable, [Next]_vars
               PROVE  OneCable'
    OBVIOUS
  <2>1. CASE UNCHANGED vars
    BY <2>1, FewerLinks DEF vars, rosterVars
  <2>2. ASSUME NEW p \in Player, Route(p)
        PROVE  OneCable'
    <3>1. CASE RouteAccept(p)
      <4> DEFINE m == Head(outbox[p])
                 busy == IsLinked(m.from) \/ IsLinked(m.to)
      <4>1. \/ links' = links
            \/ ~ busy /\ links' = links \union {<<m.to, m.from>>}
        BY <3>1 DEF RouteAccept
      <4>2. CASE links' = links
        BY <4>2, FewerLinks
      <4>3. CASE ~ busy /\ links' = links \union {<<m.to, m.from>>}
        BY <4>3, NewLink
      <4> QED
        BY <4>1, <4>2, <4>3
    <3>2. CASE RouteUnlink(p)
      BY <3>2, FewerLinks DEF RouteUnlink
    <3>3. CASE RouteRequest(p) \/ RouteStart(p)
      BY <3>3, FewerLinks DEF RouteRequest, RouteStart, rosterVars
    <3>4. CASE RecordRequest(p) \/ RouteDecline(p)
      BY <3>4, FewerLinks DEF RecordRequest, RouteDecline
    <3> QED
      BY <2>2, <3>1, <3>2, <3>3, <3>4 DEF Route
  <2>3. ASSUME NEW p \in Player, Frontend(p)
        PROVE  OneCable'
    <3>1. UNCHANGED rosterVars
      BY <2>3 DEF Frontend, Request, Accept, Hold, Pull, HearRequest, HearAccept,
                  HearDecline, HearStart, HearUnlink, HearLeft
    <3> QED
      BY <3>1, FewerLinks DEF rosterVars
  <2>4. ASSUME NEW t \in Thread, Work(t)
        PROVE  OneCable'
    <3>1. UNCHANGED rosterVars
      BY <2>4 DEF Work, Delivering, Announcing, Announced
    <3> QED
      BY <3>1, FewerLinks DEF rosterVars
  <2>5. ASSUME NEW c \in Client, Close(c)
        PROVE  OneCable'
    <3>1. links' \subseteq links
      BY <2>5 DEF Close, BeginClose, Removing, Departing
    <3> QED
      BY <3>1, FewerLinks
  <2> QED
    BY <2>1, <2>2, <2>3, <2>4, <2>5 DEF Next
<1> QED
  BY <1>1, <1>2, PTL DEF Spec

-----------------------------------------------------------------------------
(* Queues.                                                                 *)

\* What is left of a queue when its head is taken, place by place.
LEMMA TailPlaces ==
    ASSUME NEW S, NEW box \in Seq(S), box # <<>>
    PROVE  /\ Head(box) = box[1] /\ 1 \in DOMAIN box
           /\ Tail(box) \in Seq(S)
           /\ \A j \in DOMAIN Tail(box) : /\ j \in Nat /\ j + 1 \in DOMAIN box
                                          /\ Tail(box)[j] = box[j + 1]
           /\ \A j \in DOMAIN box : \/ j = 1
                                    \/ j - 1 \in DOMAIN Tail(box) /\ Tail(box)[j - 1] = box[j]
<1>1. /\ Len(box) \in Nat \ {0} /\ Len(Tail(box)) = Len(box) - 1 /\ Head(box) = box[1]
      /\ \A i \in 1..Len(box) - 1 : Tail(box)[i] = box[i + 1]
  OBVIOUS
<1>2. DOMAIN box = 1..Len(box) /\ DOMAIN Tail(box) = 1..Len(box) - 1
  OBVIOUS
<1>3. \A j \in 1..Len(box) : j = 1 \/ (j - 1 \in 1..Len(box) - 1 /\ Tail(box)[j - 1] = box[j])
  BY <1>1
<1>4. \A j \in 1..Len(box) - 1 : j \in Nat /\ j + 1 \in 1..Len(box)
  BY <1>1
<1>5. Tail(box) \in Seq(S)
  OBVIOUS
<1> QED
  BY <1>1, <1>2, <1>3, <1>4, <1>5

\* The same, element by element.
LEMMA TailElements ==
    ASSUME NEW S, NEW box \in Seq(S), box # <<>>
    PROVE  /\ Head(box) \in S /\ Head(box) \in ToSet(box)
           /\ ToSet(Tail(box)) \subseteq ToSet(box)
           /\ ToSet(box) = {Head(box)} \union ToSet(Tail(box))
<1>1. /\ Head(box) = box[1] /\ 1 \in DOMAIN box
      /\ \A j \in DOMAIN Tail(box) : j + 1 \in DOMAIN box /\ Tail(box)[j] = box[j + 1]
      /\ \A j \in DOMAIN box : j = 1 \/ (j - 1 \in DOMAIN Tail(box) /\ Tail(box)[j - 1] = box[j])
  BY TailPlaces
<1>2. Head(box) \in S
  OBVIOUS
<1>3. ToSet(Tail(box)) \subseteq ToSet(box)
  BY <1>1 DEF ToSet
<1>4. ASSUME NEW e \in ToSet(box) PROVE e = Head(box) \/ e \in ToSet(Tail(box))
  <2>1. PICK j \in DOMAIN box : box[j] = e
    BY DEF ToSet
  <2> QED
    BY <1>1, <2>1 DEF ToSet
<1>5. Head(box) \in ToSet(box)
  BY <1>1 DEF ToSet
<1> QED
  BY <1>2, <1>3, <1>4, <1>5

\* An append puts one element in, at the end.
LEMMA AppendPlaces ==
    ASSUME NEW S, NEW box \in Seq(S), NEW m \in S
    PROVE  /\ Append(box, m) \in Seq(S)
           /\ ToSet(Append(box, m)) = ToSet(box) \union {m}
           /\ Grows(box, Append(box, m), m)
<1> DEFINE B == Append(box, m)
<1>1. /\ Len(box) \in Nat /\ DOMAIN box = 1..Len(box) /\ DOMAIN B = 1..(Len(box) + 1)
      /\ B[Len(box) + 1] = m /\ \A j \in 1..Len(box) : B[j] = box[j]
  OBVIOUS
<1>2. B \in Seq(S)
  OBVIOUS
<1>3. Len(box) + 1 \in DOMAIN B /\ \A j \in DOMAIN box : j \in DOMAIN B /\ j < Len(box) + 1
  BY <1>1
<1>4. \A j \in DOMAIN B : j # Len(box) + 1 => j \in DOMAIN box
  BY <1>1
<1> HIDE DEF B
<1>5. ToSet(B) = ToSet(box) \union {m}
  BY <1>1, <1>3, <1>4 DEF ToSet
<1>6. Grows(box, B, m)
  BY <1>1, <1>3, <1>4 DEF Grows
<1> QED
  BY <1>2, <1>5, <1>6 DEF B

\* Urgent messages lie no further back than LastUrgent says.
LEMMA UrgentFirst ==
    ASSUME NEW S, NEW box \in Seq(S)
    PROVE  /\ LastUrgent(box) \in Nat /\ LastUrgent(box) <= Len(box)
           /\ \A j \in DOMAIN box : IsUrgent(box[j]) => j <= LastUrgent(box)
<1> DEFINE U == {i \in DOMAIN box : \E j \in i..Len(box) : IsUrgent(box[j])}
<1>1. Len(box) \in Nat /\ DOMAIN box = 1..Len(box)
  OBVIOUS
<1>2. IsFiniteSet(1..Len(box)) /\ Cardinality(1..Len(box)) = Len(box)
  BY <1>1, FS_Interval
<1>3. U \in SUBSET (1..Len(box))
  BY <1>1
<1>4. IsFiniteSet(U) /\ Cardinality(U) <= Len(box) /\ Cardinality(U) \in Nat
  BY <1>2, <1>3, FS_Subset, FS_CardinalityType
<1>5. ASSUME NEW j \in DOMAIN box, IsUrgent(box[j]) PROVE j <= Cardinality(U)
  <2>1. 1..j \in SUBSET U
    BY <1>1, <1>5
  <2>2. Cardinality(1..j) <= Cardinality(U)
    BY <1>4, <2>1, FS_Subset
  <2>3. Cardinality(1..j) = j
    <3>1. j \in Int /\ 1 \in Int /\ ~ (1 > j)
      BY <1>1
    <3> QED
      BY <3>1, FS_Interval
  <2> QED
    BY <2>2, <2>3
<1>6. LastUrgent(box) = Cardinality(U)
  BY DEF LastUrgent
<1> QED
  BY <1>4, <1>5, <1>6

\* A message is put in behind the last urgent one (Post, Delivering).
LEMMA InsertPlaces ==
    ASSUME NEW S, NEW box \in Seq(S), NEW m \in S,
           NEW i \in (LastUrgent(box) + 1)..(Len(box) + 1)
    PROVE  /\ InsertAt(box, i, m) \in Seq(S)
           /\ ToSet(InsertAt(box, i, m)) = ToSet(box) \union {m}
           /\ Grows(box, InsertAt(box, i, m), m)
<1> DEFINE B == InsertAt(box, i, m)
<1>1. /\ Len(box) \in Nat /\ DOMAIN box = 1..Len(box)
      /\ LastUrgent(box) \in Nat
      /\ i \in 1..(Len(box) + 1)
      /\ \A j \in 1..Len(box) : IsUrgent(box[j]) => j < i
  BY UrgentFirst
<1>2. /\ SubSeq(box, 1, i - 1) \in Seq(S) /\ Len(SubSeq(box, 1, i - 1)) = i - 1
      /\ \A j \in 1..(i - 1) : SubSeq(box, 1, i - 1)[j] = box[j]
      /\ SubSeq(box, i, Len(box)) \in Seq(S) /\ Len(SubSeq(box, i, Len(box))) = Len(box) + 1 - i
      /\ \A j \in 1..(Len(box) + 1 - i) : SubSeq(box, i, Len(box))[j] = box[i + j - 1]
  BY <1>1
<1>3. /\ B \in Seq(S) /\ Len(B) = Len(box) + 1
      /\ \A j \in 1..(i - 1) : B[j] = box[j]
      /\ B[i] = m
      /\ \A j \in (i + 1)..(Len(box) + 1) : B[j] = box[j - 1]
  <2> DEFINE f == SubSeq(box, 1, i - 1)
             g == SubSeq(box, i, Len(box))
  <2>1. /\ f \in Seq(S) /\ Len(f) = i - 1 /\ g \in Seq(S) /\ Len(g) = Len(box) + 1 - i
        /\ <<m>> \in Seq(S) /\ Len(<<m>>) = 1 /\ <<m>>[1] = m
    BY <1>2
  <2>2. B = (f \o <<m>>) \o g
    BY DEF InsertAt
  <2>3. /\ \A j \in 1..(i - 1) : f[j] = box[j]
        /\ \A j \in 1..(Len(box) + 1 - i) : g[j] = box[i + j - 1]
    BY <1>2
  <2> HIDE DEF f, g, B
  <2>4. /\ f \o <<m>> \in Seq(S) /\ Len(f \o <<m>>) = i
        /\ \A j \in 1..(i - 1) : (f \o <<m>>)[j] = f[j]
        /\ (f \o <<m>>)[i] = m
    BY <1>1, <2>1
  <2>5. /\ B \in Seq(S) /\ Len(B) = Len(box) + 1
        /\ \A j \in 1..i : B[j] = (f \o <<m>>)[j]
        /\ \A j \in (i + 1)..(Len(box) + 1) : B[j] = g[j - i]
    <3> DEFINE h == f \o <<m>>
    <3>1. h \in Seq(S) /\ Len(h) = i /\ B = h \o g
      BY <2>2, <2>4
    <3> HIDE DEF h
    <3>2. /\ B \in Seq(S) /\ Len(B) = i + (Len(box) + 1 - i)
          /\ \A j \in 1..(i + (Len(box) + 1 - i)) : B[j] = IF j <= i THEN h[j] ELSE g[j - i]
      BY <2>1, <3>1, ConcatProperties
    <3>3. i + (Len(box) + 1 - i) = Len(box) + 1
      BY <1>1
    <3>4. ASSUME NEW j \in 1..i PROVE B[j] = h[j]
      BY <1>1, <3>2, <3>3
    <3>5. ASSUME NEW j \in (i + 1)..(Len(box) + 1) PROVE B[j] = g[j - i]
      BY <1>1, <3>2, <3>3
    <3> QED
      BY <3>2, <3>3, <3>4, <3>5 DEF h
  <2>6. \A j \in (i + 1)..(Len(box) + 1) : g[j - i] = box[j - 1]
    <3> SUFFICES ASSUME NEW j \in (i + 1)..(Len(box) + 1) PROVE g[j - i] = box[j - 1]
      OBVIOUS
    <3>1. j - i \in 1..(Len(box) + 1 - i) /\ i + (j - i) - 1 = j - 1
      BY <1>1
    <3> QED
      BY <2>3, <3>1
  <2> QED
    BY <1>1, <2>3, <2>4, <2>5, <2>6
<1>4. DOMAIN B = 1..(Len(box) + 1)
  BY <1>3
<1> HIDE DEF B
<1>5. ToSet(B) \subseteq ToSet(box) \union {m}
  <2> SUFFICES ASSUME NEW j \in 1..(Len(box) + 1) PROVE B[j] \in ToSet(box) \union {m}
    BY <1>4 DEF ToSet
  <2>1. \/ j = i
        \/ j \in 1..(i - 1) /\ j \in 1..Len(box)
        \/ j \in (i + 1)..(Len(box) + 1) /\ j - 1 \in 1..Len(box)
    BY <1>1
  <2> QED
    BY <1>1, <1>3, <2>1 DEF ToSet
<1>6. ToSet(box) \union {m} \subseteq ToSet(B)
  <2>1. m \in ToSet(B)
    BY <1>1, <1>3, <1>4 DEF ToSet
  <2>2. ASSUME NEW j \in 1..Len(box) PROVE box[j] \in ToSet(B)
    <3>1. \/ j \in 1..(i - 1) /\ j \in 1..(Len(box) + 1)
          \/ j + 1 \in (i + 1)..(Len(box) + 1) /\ (j + 1) - 1 = j /\ j + 1 \in 1..(Len(box) + 1)
      BY <1>1
    <3> QED
      BY <1>3, <1>4, <3>1 DEF ToSet
  <2> QED
    BY <1>1, <2>1, <2>2 DEF ToSet
<1>7. Grows(box, B, m)
  <2>1. \A j \in DOMAIN box : IsUrgent(box[j]) => j < i /\ j \in DOMAIN B /\ B[j] = box[j]
    BY <1>1, <1>3, <1>4
  <2>2. ASSUME NEW j \in DOMAIN B, IsUrgent(B[j]), j # i
        PROVE  j \in DOMAIN box /\ B[j] = box[j]
    <3>1. j \in 1..(i - 1) \/ j \in (i + 1)..(Len(box) + 1)
      BY <1>1, <1>4, <2>2
    <3>2. CASE j \in 1..(i - 1)
      BY <1>1, <1>3, <3>2
    <3>3. CASE j \in (i + 1)..(Len(box) + 1)
      <4>1. j - 1 \in 1..Len(box) /\ B[j] = box[j - 1]
        BY <1>1, <1>3, <3>3
      <4>2. j - 1 < i
        BY <1>1, <2>2, <4>1
      <4> QED
        BY <1>1, <3>3, <4>2
    <3> QED
      BY <3>1, <3>2, <3>3
  <2>3. i \in DOMAIN B /\ B[i] = m
    BY <1>1, <1>3, <1>4
  <2> QED
    BY <2>1, <2>2, <2>3 DEF Grows
<1> QED
  BY <1>3, <1>5, <1>6, <1>7 DEF B
-----------------------------------------------------------------------------
(* What a player's view of another survives, part by part.                 *)

\* Requests and records go; the threads come to carry nothing that matters.
LEMMA FineKept ==
    ASSUME NEW p, NEW q, NEW L, NEW O, NEW B, NEW W, NEW H, NEW R, NEW K,
           NEW O2, NEW W2, NEW H2, NEW R2, NEW K2,
           Fine(p, q, L, O, B, W, H, R, K),
           \A m \in O2 : m.kind = "accept" => m \in O,
           Comes(W2, p, q) => Comes(W, p, q),
           Comes(H2, p, q) => Comes(H, p, q),
           \A m \in H : IsAccept(m, q, p) => m \in H2,
           \A n : <<q, p, n>> \in R2 => <<q, p, n>> \in R,
           \A n : <<q, p, n>> \in R2 /\ Say("request", q, p, n) \in H2
                    => Say("request", q, p, n) \in H,
           <<p, q>> \in K2 => <<p, q>> \in K, <<q, p>> \in K2 => <<q, p>> \in K
    PROVE  Fine(p, q, L, O2, B, W2, H2, R2, K2)
<1>1. /\ Coming(W2, H2, p, q) => Coming(W, H, p, q)
      /\ Threat(B, W2, H2, p, q) => Threat(B, W, H, p, q)
  BY DEF Coming, Threat
<1>2. Has(p, q, L, B, W, H, R) => Has(p, q, L, B, W2, H2, R2)
  BY <1>1 DEF Has
<1>3. Gets(p, q, L, B, W, H) => Gets(p, q, L, B, W2, H2)
  BY <1>1 DEF Gets
<1>4. AskerFine(p, q, L, B, W2, H2, R2, K2) /\ AskedFine(p, q, L, B, W2, H2, R2, K2)
  BY <1>2, <1>3 DEF Fine, AskerFine, AskedFine
<1>5. BusyFine(p, q, L, B, W2, H2)
  BY DEF Fine, BusyFine
<1>6. ASSUME NEW n \in 1..MaxTurns, <<q, p, n>> \in R2
      PROVE  /\ SentFine(p, q, L, B, W2, H2, n) /\ HereFine(p, q, L, B, W2, H2, n)
             /\ SeenFine(p, q, L, B, W2, H2, n) /\ SaidFine(p, q, L, O2, B, W2, H2, n)
  <2>1. /\ SentFine(p, q, L, B, W, H, n) /\ HereFine(p, q, L, B, W, H, n)
        /\ SeenFine(p, q, L, B, W, H, n) /\ SaidFine(p, q, L, O, B, W, H, n)
    BY <1>6 DEF Fine
  <2>2. SentFine(p, q, L, B, W2, H2, n)
    BY <1>1, <1>6, <2>1 DEF SentFine
  <2>3. HereFine(p, q, L, B, W2, H2, n)
    BY <1>1, <2>1 DEF HereFine
  <2>4. SeenFine(p, q, L, B, W2, H2, n)
    BY <1>1, <2>1 DEF SeenFine
  <2>5. SaidFine(p, q, L, O2, B, W2, H2, n)
    <3>1. Say("accept", p, q, n).kind = "accept"
      BY DEF Say
    <3> QED
      BY <1>1, <2>1, <3>1 DEF SaidFine
  <2> QED
    BY <2>2, <2>3, <2>4, <2>5
<1> QED
  BY <1>4, <1>5, <1>6 DEF Fine

\* The kinds that are urgent.
LEMMA UrgentOnes ==
    ASSUME NEW m, NEW p, NEW q
    PROVE  /\ IsUnlink(m, q, p) => IsUrgent(m) /\ ~ IsAccept(m, q, p)
           /\ IsAccept(m, q, p) => IsUrgent(m)
           /\ \A n : IsUrgent(Say("request", q, p, n))
           /\ \A n : m = Say("request", q, p, n) => ~ IsUnlink(m, q, p) /\ ~ IsAccept(m, q, p)
BY DEF IsUnlink, IsAccept, IsUrgent, UrgentKinds, Say

\* How a box that grew looks from the one it was.
LEMMA GrownBox ==
    ASSUME NEW S, NEW T, NEW B \in Seq(S), NEW B2 \in Seq(T), NEW m, Grows(B, B2, m),
           NEW p, NEW q
    PROVE  /\ Waits(B2, p, q) => Waits(B, p, q) \/ IsUnlink(m, q, p)
           /\ \A i \in DOMAIN B : IsUrgent(B[i]) =>
                /\ i \in DOMAIN B2 /\ B2[i] = B[i]
                /\ Guard(B, p, q, i) => Guard(B2, p, q, i)
                /\ GuardedTo(B, p, q, i) => GuardedTo(B2, p, q, i)
                /\ Ahead(B, p, q, i) /\ ~ IsUnlink(m, q, p) => Ahead(B2, p, q, i)
           /\ Guarded(B, p, q) /\ ~ IsUnlink(m, q, p) => Guarded(B2, p, q)
           /\ Guarded(B, p, q) /\ (\E k \in DOMAIN B : IsAccept(B[k], q, p)) => Guarded(B2, p, q)
<1>1. DOMAIN B \subseteq Int /\ DOMAIN B2 \subseteq Int
  OBVIOUS
<1>2. PICK z \in DOMAIN B2 :
        /\ B2[z] = m
        /\ \A j \in DOMAIN B : IsUrgent(B[j]) => j < z /\ j \in DOMAIN B2 /\ B2[j] = B[j]
        /\ \A j \in DOMAIN B2 : IsUrgent(B2[j]) /\ j # z => j \in DOMAIN B /\ B2[j] = B[j]
  BY DEF Grows
<1>3. \A x : /\ IsUnlink(x, q, p) => IsUrgent(x)
             /\ IsAccept(x, q, p) => IsUrgent(x)
  BY UrgentOnes
<1>4. Waits(B2, p, q) => Waits(B, p, q) \/ IsUnlink(m, q, p)
  BY <1>2, <1>3 DEF Waits
<1>5. ASSUME NEW i \in DOMAIN B, Guard(B, p, q, i) PROVE Guard(B2, p, q, i)
  BY <1>2, <1>3, <1>5 DEF Guard
<1>6. ASSUME NEW i \in DOMAIN B, IsUrgent(B[i])
      PROVE  /\ i \in DOMAIN B2 /\ B2[i] = B[i]
             /\ GuardedTo(B, p, q, i) => GuardedTo(B2, p, q, i)
             /\ Ahead(B, p, q, i) /\ ~ IsUnlink(m, q, p) => Ahead(B2, p, q, i)
  <2>1. i \in DOMAIN B2 /\ B2[i] = B[i] /\ i < z
    BY <1>2, <1>6
  <2>2. ASSUME GuardedTo(B, p, q, i), NEW j \in DOMAIN B2, IsUnlink(B2[j], q, p), j < i
        PROVE  Guard(B2, p, q, j)
    <3>1. j # z
      BY <1>1, <2>1, <2>2
    <3>2. j \in DOMAIN B /\ B2[j] = B[j]
      BY <1>2, <1>3, <2>2, <3>1
    <3> QED
      BY <1>5, <2>2, <3>2 DEF GuardedTo
  <2>3. ASSUME Ahead(B, p, q, i), ~ IsUnlink(m, q, p)
        PROVE  Ahead(B2, p, q, i)
    BY <1>2, <1>3, <2>3 DEF Ahead
  <2> QED
    BY <2>1, <2>2, <2>3 DEF GuardedTo
<1>7. ASSUME Guarded(B, p, q), ~ IsUnlink(m, q, p) PROVE Guarded(B2, p, q)
  BY <1>2, <1>3, <1>5, <1>7 DEF Guarded
<1>8. ASSUME Guarded(B, p, q), NEW k \in DOMAIN B, IsAccept(B[k], q, p)
      PROVE  Guarded(B2, p, q)
  <2>1. Guard(B2, p, q, z)
    BY <1>2, <1>3, <1>8 DEF Guard
  <2> QED
    BY <1>2, <1>3, <1>5, <1>8, <2>1 DEF Guarded
<1> QED
  BY <1>4, <1>5, <1>6, <1>7, <1>8

\* The other's reader delivers what it carries.
LEMMA FineFromHis ==
    ASSUME NEW S, NEW T, NEW B \in Seq(S), NEW B2 \in Seq(T), NEW m, Grows(B, B2, m),
           NEW p, NEW q, NEW L, NEW O, NEW W, NEW R, NEW K,
           Fine(p, q, L, O, B, W, {m}, R, K)
    PROVE  Fine(p, q, L, O, B2, W, {}, R, K)
<1>1. PICK z \in DOMAIN B2 :
        /\ B2[z] = m
        /\ \A j \in DOMAIN B : IsUrgent(B[j]) => j < z /\ j \in DOMAIN B2 /\ B2[j] = B[j]
        /\ \A j \in DOMAIN B2 : IsUrgent(B2[j]) /\ j # z => j \in DOMAIN B /\ B2[j] = B[j]
  BY DEF Grows
<1>2. /\ Waits(B2, p, q) => Waits(B, p, q) \/ IsUnlink(m, q, p)
      /\ \A i \in DOMAIN B : IsUrgent(B[i]) =>
           /\ i \in DOMAIN B2 /\ B2[i] = B[i]
           /\ GuardedTo(B, p, q, i) => GuardedTo(B2, p, q, i)
           /\ Ahead(B, p, q, i) /\ ~ IsUnlink(m, q, p) => Ahead(B2, p, q, i)
      /\ Guarded(B, p, q) /\ ~ IsUnlink(m, q, p) => Guarded(B2, p, q)
      /\ Guarded(B, p, q) /\ (\E k \in DOMAIN B : IsAccept(B[k], q, p)) => Guarded(B2, p, q)
  BY GrownBox
<1>3. \A x : /\ IsUnlink(x, q, p) => IsUrgent(x) /\ ~ IsAccept(x, q, p)
             /\ IsAccept(x, q, p) => IsUrgent(x)
  BY UrgentOnes
<1>4. /\ Comes({m}, p, q) <=> IsUnlink(m, q, p)
      /\ ~ Comes({}, p, q)
  BY DEF Comes
<1>5. /\ Coming(W, {}, p, q) <=> Comes(W, p, q)
      /\ Coming(W, {m}, p, q) <=> Comes(W, p, q) \/ IsUnlink(m, q, p)
  BY <1>4 DEF Coming
<1>6. Threat(B2, W, {}, p, q) => Threat(B, W, {m}, p, q)
  BY <1>2, <1>5 DEF Threat
<1>7. Has(p, q, L, B, W, {m}, R) => Has(p, q, L, B2, W, {}, R)
  BY <1>6 DEF Has
<1>8. ASSUME Gets(p, q, L, B, W, {m}) PROVE Gets(p, q, L, B2, W, {})
  <2>1. CASE /\ IsAccept(m, q, p)
             /\ L = Phase("requesting", q, m.nonce) => ~ Comes(W, p, q)
    <3>1. Ahead(B2, p, q, z)
      BY <1>1, <1>3, <2>1 DEF Ahead
    <3> QED
      BY <1>1, <1>5, <2>1, <3>1 DEF Gets
  <2>2. CASE \E i \in DOMAIN B :
                /\ IsAccept(B[i], q, p)
                /\ L = Phase("requesting", q, B[i].nonce)
                     => ~ Coming(W, {m}, p, q) /\ Ahead(B, p, q, i)
    <3>1. PICK i \in DOMAIN B :
                /\ IsAccept(B[i], q, p)
                /\ L = Phase("requesting", q, B[i].nonce)
                     => ~ Coming(W, {m}, p, q) /\ Ahead(B, p, q, i)
      BY <2>2
    <3>2. i \in DOMAIN B2 /\ B2[i] = B[i]
      BY <1>2, <1>3, <3>1
    <3>3. L = Phase("requesting", q, B2[i].nonce) => ~ Coming(W, {}, p, q) /\ Ahead(B2, p, q, i)
      BY <1>2, <1>3, <1>5, <3>1, <3>2
    <3> QED
      BY <3>1, <3>2, <3>3 DEF Gets
  <2> QED
    BY <1>8, <2>1, <2>2 DEF Gets
<1>9. AskerFine(p, q, L, B2, W, {}, R, K) /\ AskedFine(p, q, L, B2, W, {}, R, K)
  BY <1>7, <1>8 DEF Fine, AskerFine, AskedFine
<1>10. BusyFine(p, q, L, B2, W, {})
  BY <1>2, <1>4 DEF Fine, BusyFine
<1>11. ASSUME NEW n \in 1..MaxTurns, <<q, p, n>> \in R
       PROVE  /\ SentFine(p, q, L, B2, W, {}, n) /\ HereFine(p, q, L, B2, W, {}, n)
              /\ SeenFine(p, q, L, B2, W, {}, n) /\ SaidFine(p, q, L, O, B2, W, {}, n)
  <2>1. /\ SentFine(p, q, L, B, W, {m}, n) /\ HereFine(p, q, L, B, W, {m}, n)
        /\ SeenFine(p, q, L, B, W, {m}, n) /\ SaidFine(p, q, L, O, B, W, {m}, n)
    BY <1>11 DEF Fine
  <2>2. SentFine(p, q, L, B2, W, {}, n)
    BY DEF SentFine
  <2>3. ASSUME NEW i \in DOMAIN B2, B2[i] = Say("request", q, p, n)
        PROVE  \/ ~ Coming(W, {}, p, q) /\ Ahead(B2, p, q, i)
               \/ Tied(L, q) /\ GuardedTo(B2, p, q, i)
    <3>1. IsUrgent(B2[i]) /\ ~ IsUnlink(B2[i], q, p)
      BY <2>3, UrgentOnes
    <3>2. CASE i = z
      <4>1. m = Say("request", q, p, n) /\ ~ IsUnlink(m, q, p)
        BY <1>1, <2>3, <3>1, <3>2
      <4>2. ~ Coming(W, {m}, p, q) \/ (Tied(L, q) /\ Guarded(B, p, q))
        BY <2>1, <4>1 DEF SentFine
      <4>3. Ahead(B2, p, q, z)
        BY <1>1, <1>3, <4>1 DEF Ahead
      <4>4. Guarded(B, p, q) => GuardedTo(B2, p, q, z)
        BY <1>2, <4>1 DEF Guarded, GuardedTo
      <4> QED
        BY <1>5, <3>2, <4>1, <4>2, <4>3, <4>4
    <3>3. CASE i # z
      <4>1. i \in DOMAIN B /\ B[i] = B2[i]
        BY <1>1, <3>1, <3>3
      <4>2. \/ ~ Coming(W, {m}, p, q) /\ Ahead(B, p, q, i)
            \/ Tied(L, q) /\ GuardedTo(B, p, q, i)
        BY <2>1, <2>3, <4>1 DEF HereFine
      <4> QED
        BY <1>2, <1>5, <3>1, <4>1, <4>2
    <3> QED
      BY <3>2, <3>3
  <2>4. SeenFine(p, q, L, B2, W, {}, n) /\ SaidFine(p, q, L, O, B2, W, {}, n)
    BY <1>6, <2>1 DEF SeenFine, SaidFine
  <2> QED
    BY <2>2, <2>3, <2>4 DEF HereFine
<1> QED
  BY <1>9, <1>10, <1>11 DEF Fine

\* What else goes into a player's box: an answer of its own reader, or what is neither
\* an unlink nor a request of the other.
LEMMA FineGrown ==
    ASSUME NEW S, NEW T, NEW B \in Seq(S), NEW B2 \in Seq(T), NEW m, Grows(B, B2, m),
           NEW p, NEW q, NEW L, NEW O, NEW W, NEW W2, NEW H, NEW R, NEW K,
           Comes(W2, p, q) => Comes(W, p, q) /\ ~ IsUnlink(m, q, p),
           IsUnlink(m, q, p) => Comes(W, p, q),
           \A n : m # Say("request", q, p, n),
           \A x, y \in H : x = y,
           Fine(p, q, L, O, B, W, H, R, K)
    PROVE  Fine(p, q, L, O, B2, W2, H, R, K)
<1>1. PICK z \in DOMAIN B2 :
        /\ B2[z] = m
        /\ \A j \in DOMAIN B : IsUrgent(B[j]) => j < z /\ j \in DOMAIN B2 /\ B2[j] = B[j]
        /\ \A j \in DOMAIN B2 : IsUrgent(B2[j]) /\ j # z => j \in DOMAIN B /\ B2[j] = B[j]
  BY DEF Grows
<1>2. /\ Waits(B2, p, q) => Waits(B, p, q) \/ IsUnlink(m, q, p)
      /\ \A i \in DOMAIN B : IsUrgent(B[i]) =>
           /\ i \in DOMAIN B2 /\ B2[i] = B[i]
           /\ GuardedTo(B, p, q, i) => GuardedTo(B2, p, q, i)
           /\ Ahead(B, p, q, i) /\ ~ IsUnlink(m, q, p) => Ahead(B2, p, q, i)
      /\ Guarded(B, p, q) /\ ~ IsUnlink(m, q, p) => Guarded(B2, p, q)
  BY GrownBox
<1>3. \A x : /\ IsUnlink(x, q, p) => IsUrgent(x)
             /\ IsAccept(x, q, p) => IsUrgent(x)
  BY UrgentOnes
<1>4. /\ Coming(W2, H, p, q) => Coming(W, H, p, q)
      /\ Threat(B2, W2, H, p, q) => Threat(B, W, H, p, q)
  BY <1>2 DEF Coming, Threat
<1>5. Has(p, q, L, B, W, H, R) => Has(p, q, L, B2, W2, H, R)
  BY <1>4 DEF Has
<1>6. ASSUME Gets(p, q, L, B, W, H) PROVE Gets(p, q, L, B2, W2, H)
  <2>1. CASE \E x \in H : /\ IsAccept(x, q, p)
                          /\ L = Phase("requesting", q, x.nonce) => ~ Comes(W, p, q)
    BY <2>1 DEF Gets
  <2>2. CASE \E i \in DOMAIN B :
                /\ IsAccept(B[i], q, p)
                /\ L = Phase("requesting", q, B[i].nonce)
                     => ~ Coming(W, H, p, q) /\ Ahead(B, p, q, i)
    <3>1. PICK i \in DOMAIN B :
                /\ IsAccept(B[i], q, p)
                /\ L = Phase("requesting", q, B[i].nonce)
                     => ~ Coming(W, H, p, q) /\ Ahead(B, p, q, i)
      BY <2>2
    <3>2. i \in DOMAIN B2 /\ B2[i] = B[i]
      BY <1>2, <1>3, <3>1
    <3>3. L = Phase("requesting", q, B2[i].nonce) => ~ Coming(W2, H, p, q) /\ Ahead(B2, p, q, i)
      BY <1>2, <1>3, <1>4, <3>1, <3>2 DEF Coming
    <3> QED
      BY <3>1, <3>2, <3>3 DEF Gets
  <2> QED
    BY <1>6, <2>1, <2>2 DEF Gets
<1>7. AskerFine(p, q, L, B2, W2, H, R, K) /\ AskedFine(p, q, L, B2, W2, H, R, K)
  BY <1>5, <1>6 DEF Fine, AskerFine, AskedFine
<1>8. BusyFine(p, q, L, B2, W2, H)
  <2> SUFFICES ASSUME Comes(W2, p, q)
               PROVE  /\ Tied(L, q) /\ Guarded(B2, p, q)
                      /\ Comes(H, p, q) => \E k \in DOMAIN B2 : IsAccept(B2[k], q, p)
    BY DEF BusyFine
  <2>1. /\ Tied(L, q) /\ Guarded(B, p, q)
        /\ Comes(H, p, q) => \E k \in DOMAIN B : IsAccept(B[k], q, p)
    BY DEF Fine, BusyFine
  <2> QED
    BY <1>2, <1>3, <2>1
<1>9. ASSUME NEW n \in 1..MaxTurns, <<q, p, n>> \in R
      PROVE  /\ SentFine(p, q, L, B2, W2, H, n) /\ HereFine(p, q, L, B2, W2, H, n)
             /\ SeenFine(p, q, L, B2, W2, H, n) /\ SaidFine(p, q, L, O, B2, W2, H, n)
  <2>1. /\ SentFine(p, q, L, B, W, H, n) /\ HereFine(p, q, L, B, W, H, n)
        /\ SeenFine(p, q, L, B, W, H, n) /\ SaidFine(p, q, L, O, B, W, H, n)
    BY <1>9 DEF Fine
  <2>2. SentFine(p, q, L, B2, W2, H, n)
    <3> SUFFICES ASSUME Say("request", q, p, n) \in H
                 PROVE  ~ Coming(W2, H, p, q) \/ (Tied(L, q) /\ Guarded(B2, p, q))
      BY DEF SentFine
    <3>1. ~ Comes(H, p, q)
      <4>1. ~ IsUnlink(Say("request", q, p, n), q, p)
        BY UrgentOnes
      <4> QED
        BY <4>1 DEF Comes
    <3>2. ~ Coming(W, H, p, q) \/ (Tied(L, q) /\ Guarded(B, p, q))
      BY <2>1 DEF SentFine
    <3>3. IsUnlink(m, q, p) => ~ Coming(W2, H, p, q)
      BY <3>1 DEF Coming
    <3> QED
      BY <1>2, <1>4, <3>2, <3>3
  <2>3. ASSUME NEW i \in DOMAIN B2, B2[i] = Say("request", q, p, n)
        PROVE  \/ ~ Coming(W2, H, p, q) /\ Ahead(B2, p, q, i)
               \/ Tied(L, q) /\ GuardedTo(B2, p, q, i)
    <3>1. IsUrgent(B2[i])
      BY <2>3, UrgentOnes
    <3>2. i # z
      BY <1>1, <2>3
    <3>3. i \in DOMAIN B /\ B[i] = B2[i]
      BY <1>1, <3>1, <3>2
    <3>4. \/ ~ Coming(W, H, p, q) /\ Ahead(B, p, q, i)
          \/ Tied(L, q) /\ GuardedTo(B, p, q, i)
      BY <2>1, <2>3, <3>3 DEF HereFine
    <3> QED
      BY <1>2, <1>4, <3>1, <3>3, <3>4 DEF Coming
  <2>4. SeenFine(p, q, L, B2, W2, H, n) /\ SaidFine(p, q, L, O, B2, W2, H, n)
    BY <1>4, <2>1 DEF SeenFine, SaidFine
  <2> QED
    BY <2>2, <2>3, <2>4 DEF HereFine
<1> QED
  BY <1>7, <1>8, <1>9 DEF Fine

\* How a box whose head was heard looks from the one it was.
LEMMA HeardBox ==
    ASSUME NEW S, NEW B \in Seq(S), B # <<>>, NEW p, NEW q
    PROVE  /\ Waits(Tail(B), p, q) => Waits(B, p, q)
           /\ \A i \in DOMAIN Tail(B) :
                /\ i + 1 \in DOMAIN B /\ Tail(B)[i] = B[i + 1]
                /\ Ahead(B, p, q, i + 1) => Ahead(Tail(B), p, q, i)
                /\ ~ IsAccept(Head(B), q, p) /\ GuardedTo(B, p, q, i + 1) => GuardedTo(Tail(B), p, q, i)
           /\ ~ IsAccept(Head(B), q, p) /\ Guarded(B, p, q) => Guarded(Tail(B), p, q)
           /\ \A i \in DOMAIN B : i = 1 \/ (i - 1 \in DOMAIN Tail(B) /\ Tail(B)[i - 1] = B[i] /\ (i - 1) + 1 = i)
<1>1. /\ Head(B) = B[1] /\ 1 \in DOMAIN B
      /\ \A j \in DOMAIN Tail(B) : j \in Nat /\ j + 1 \in DOMAIN B /\ Tail(B)[j] = B[j + 1]
      /\ \A j \in DOMAIN B : j = 1 \/ (j - 1 \in DOMAIN Tail(B) /\ Tail(B)[j - 1] = B[j])
  BY TailPlaces
<1>2. DOMAIN B \subseteq Nat
  OBVIOUS
<1>3. Waits(Tail(B), p, q) => Waits(B, p, q)
  BY <1>1 DEF Waits
<1>4. ASSUME NEW i \in DOMAIN Tail(B), Ahead(B, p, q, i + 1) PROVE Ahead(Tail(B), p, q, i)
  <2> SUFFICES ASSUME NEW j \in DOMAIN Tail(B), IsUnlink(Tail(B)[j], q, p) PROVE j < i
    BY DEF Ahead
  <2>1. j + 1 < i + 1 /\ i \in Nat /\ j \in Nat
    BY <1>1, <1>4 DEF Ahead
  <2> QED
    BY <2>1
<1>5. ASSUME NEW j \in DOMAIN Tail(B), ~ IsAccept(Head(B), q, p), Guard(B, p, q, j + 1)
      PROVE  Guard(Tail(B), p, q, j)
  <2>1. PICK k \in DOMAIN B : k < j + 1 /\ IsAccept(B[k], q, p)
    BY <1>5 DEF Guard
  <2>2. k - 1 \in DOMAIN Tail(B) /\ Tail(B)[k - 1] = B[k]
    BY <1>1, <1>5, <2>1
  <2>3. k \in Nat /\ j \in Nat
    BY <1>1, <1>2
  <2>4. k - 1 < j
    BY <2>1, <2>3
  <2> QED
    BY <2>1, <2>2, <2>4 DEF Guard
<1>6. ASSUME NEW i \in DOMAIN Tail(B), ~ IsAccept(Head(B), q, p), GuardedTo(B, p, q, i + 1)
      PROVE  GuardedTo(Tail(B), p, q, i)
  <2> SUFFICES ASSUME NEW j \in DOMAIN Tail(B), IsUnlink(Tail(B)[j], q, p), j < i
               PROVE  Guard(Tail(B), p, q, j)
    BY DEF GuardedTo
  <2>1. j + 1 \in DOMAIN B /\ IsUnlink(B[j + 1], q, p) /\ j + 1 < i + 1
    BY <1>1
  <2> QED
    BY <1>5, <1>6, <2>1 DEF GuardedTo
<1>7. ~ IsAccept(Head(B), q, p) /\ Guarded(B, p, q) => Guarded(Tail(B), p, q)
  BY <1>1, <1>5 DEF Guarded
<1>8. \A i \in DOMAIN B : (i - 1) + 1 = i
  BY <1>2
<1> QED
  BY <1>1, <1>3, <1>4, <1>6, <1>7, <1>8

\* It hears something that is neither an unlink nor an accept of the other.
LEMMA FineTail ==
    ASSUME NEW S, NEW B \in Seq(S), B # <<>>,
           NEW p, NEW q, NEW L, NEW O, NEW W, NEW H, NEW R, NEW K,
           ~ IsUnlink(Head(B), q, p), ~ IsAccept(Head(B), q, p),
           Fine(p, q, L, O, B, W, H, R, K)
    PROVE  Fine(p, q, L, O, Tail(B), W, H, R, K)
<1>1. /\ Waits(Tail(B), p, q) => Waits(B, p, q)
      /\ \A i \in DOMAIN Tail(B) :
           /\ i + 1 \in DOMAIN B /\ Tail(B)[i] = B[i + 1]
           /\ Ahead(B, p, q, i + 1) => Ahead(Tail(B), p, q, i)
           /\ GuardedTo(B, p, q, i + 1) => GuardedTo(Tail(B), p, q, i)
      /\ Guarded(B, p, q) => Guarded(Tail(B), p, q)
      /\ \A i \in DOMAIN B : i = 1 \/ (i - 1 \in DOMAIN Tail(B) /\ Tail(B)[i - 1] = B[i] /\ (i - 1) + 1 = i)
  BY HeardBox
<1>2. Head(B) = B[1]
  BY TailPlaces
<1> DEFINE A == Tail(B)
<1> HIDE DEF A
<1>3. Threat(A, W, H, p, q) => Threat(B, W, H, p, q)
  BY <1>1 DEF Threat, A
<1>4. Has(p, q, L, B, W, H, R) => Has(p, q, L, A, W, H, R)
  BY <1>3 DEF Has
<1>5. ASSUME Gets(p, q, L, B, W, H) PROVE Gets(p, q, L, A, W, H)
  <2>1. CASE \E i \in DOMAIN B :
                /\ IsAccept(B[i], q, p)
                /\ L = Phase("requesting", q, B[i].nonce)
                     => ~ Coming(W, H, p, q) /\ Ahead(B, p, q, i)
    <3>1. PICK i \in DOMAIN B :
                /\ IsAccept(B[i], q, p)
                /\ L = Phase("requesting", q, B[i].nonce)
                     => ~ Coming(W, H, p, q) /\ Ahead(B, p, q, i)
      BY <2>1
    <3>2. i - 1 \in DOMAIN A /\ A[i - 1] = B[i] /\ (i - 1) + 1 = i
      BY <1>1, <1>2, <3>1 DEF A
    <3>3. Ahead(B, p, q, i) => Ahead(A, p, q, i - 1)
      BY <1>1, <3>2 DEF A
    <3> QED
      BY <3>1, <3>2, <3>3 DEF Gets
  <2> QED
    BY <1>5, <2>1 DEF Gets
<1>6. AskerFine(p, q, L, A, W, H, R, K) /\ AskedFine(p, q, L, A, W, H, R, K)
  BY <1>4, <1>5 DEF Fine, AskerFine, AskedFine
<1>7. BusyFine(p, q, L, A, W, H)
  <2> SUFFICES ASSUME Comes(W, p, q)
               PROVE  /\ Tied(L, q) /\ Guarded(A, p, q)
                      /\ Comes(H, p, q) => \E k \in DOMAIN A : IsAccept(A[k], q, p)
    BY DEF BusyFine
  <2>1. /\ Tied(L, q) /\ Guarded(B, p, q)
        /\ Comes(H, p, q) => \E k \in DOMAIN B : IsAccept(B[k], q, p)
    BY DEF Fine, BusyFine
  <2> QED
    BY <1>1, <1>2, <2>1 DEF A
<1>8. ASSUME NEW n \in 1..MaxTurns, <<q, p, n>> \in R
      PROVE  /\ SentFine(p, q, L, A, W, H, n) /\ HereFine(p, q, L, A, W, H, n)
             /\ SeenFine(p, q, L, A, W, H, n) /\ SaidFine(p, q, L, O, A, W, H, n)
  <2>1. /\ SentFine(p, q, L, B, W, H, n) /\ HereFine(p, q, L, B, W, H, n)
        /\ SeenFine(p, q, L, B, W, H, n) /\ SaidFine(p, q, L, O, B, W, H, n)
    BY <1>8 DEF Fine
  <2>2. SentFine(p, q, L, A, W, H, n)
    BY <1>1, <2>1 DEF SentFine, A
  <2>3. HereFine(p, q, L, A, W, H, n)
    BY <1>1, <2>1 DEF HereFine, A
  <2>4. SeenFine(p, q, L, A, W, H, n) /\ SaidFine(p, q, L, O, A, W, H, n)
    BY <1>3, <2>1 DEF SeenFine, SaidFine
  <2> QED
    BY <2>2, <2>3, <2>4
<1> QED
  BY <1>6, <1>7, <1>8 DEF Fine, A

\* Its own end changes, and it is tied to the other as before.
LEMMA FineEnd ==
    ASSUME NEW p, NEW q, NEW L, NEW L2, NEW O, NEW O2, NEW B, NEW W, NEW H, NEW R, NEW K,
           Tied(L, q) => Tied(L2, q) /\ L2.nonce = L.nonce,
           \A n : L2 = Phase("requesting", q, n) =>
               \/ L = L2
               \/ /\ \A m \in H : IsAccept(m, q, p) => m.nonce # n
                  /\ \A i \in DOMAIN B : IsAccept(B[i], q, p) => B[i].nonce # n,
           \A n : L2 = Phase("incoming", q, n) =>
               L = L2 \/ <<q, p, n>> \notin R \/ ~ Threat(B, W, H, p, q),
           \A n : Say("accept", p, q, n) \in O2 /\ <<q, p, n>> \in R =>
               \/ Say("accept", p, q, n) \in O
               \/ Tied(L2, q) /\ L2.nonce = n /\ ~ Threat(B, W, H, p, q),
           Fine(p, q, L, O, B, W, H, R, K)
    PROVE  Fine(p, q, L2, O2, B, W, H, R, K)
<1>1. Has(p, q, L, B, W, H, R) => Has(p, q, L2, B, W, H, R)
  BY DEF Has
<1>2. ASSUME Gets(p, q, L, B, W, H) PROVE Gets(p, q, L2, B, W, H)
  BY <1>2 DEF Gets
<1>3. AskerFine(p, q, L2, B, W, H, R, K) /\ AskedFine(p, q, L2, B, W, H, R, K)
  BY <1>1, <1>2 DEF Fine, AskerFine, AskedFine
<1>4. BusyFine(p, q, L2, B, W, H)
  BY DEF Fine, BusyFine
<1>5. ASSUME NEW n \in 1..MaxTurns, <<q, p, n>> \in R
      PROVE  /\ SentFine(p, q, L2, B, W, H, n) /\ HereFine(p, q, L2, B, W, H, n)
             /\ SeenFine(p, q, L2, B, W, H, n) /\ SaidFine(p, q, L2, O2, B, W, H, n)
  <2>1. /\ SentFine(p, q, L, B, W, H, n) /\ HereFine(p, q, L, B, W, H, n)
        /\ SeenFine(p, q, L, B, W, H, n) /\ SaidFine(p, q, L, O, B, W, H, n)
    BY <1>5 DEF Fine
  <2>2. SentFine(p, q, L2, B, W, H, n) /\ HereFine(p, q, L2, B, W, H, n)
    BY <2>1 DEF SentFine, HereFine
  <2>3. SeenFine(p, q, L2, B, W, H, n)
    BY <1>5, <2>1 DEF SeenFine
  <2>4. SaidFine(p, q, L2, O2, B, W, H, n)
    BY <1>5, <2>1 DEF SaidFine
  <2> QED
    BY <2>2, <2>3, <2>4
<1> QED
  BY <1>3, <1>4, <1>5 DEF Fine

\* The accept it waited for: the cable may be held at this end.
LEMMA FineAccepted ==
    ASSUME NEW S, NEW B \in Seq(S), B # <<>>,
           NEW p, NEW q, NEW n, NEW O, NEW W, NEW H, NEW R, NEW K,
           Head(B) = Say("accept", q, p, n), <<q, p, n>> \notin R,
           Fine(p, q, Phase("requesting", q, n), O, B, W, H, R, K)
    PROVE  Fine(p, q, Phase("holding", q, n), O, Tail(B), W, H, R, K)
<1> DEFINE L == Phase("requesting", q, n)
           L2 == Phase("holding", q, n)
           A == Tail(B)
<1>1. /\ ~ Tied(L, q)
      /\ Tied(L2, q) /\ L2.nonce = n
      /\ \A k : L2 # Phase("requesting", q, k) /\ L2 # Phase("incoming", q, k)
  BY DEF Tied, Phase
<1>2. /\ \A i \in DOMAIN A :
           /\ i + 1 \in DOMAIN B /\ A[i] = B[i + 1]
           /\ Ahead(B, p, q, i + 1) => Ahead(A, p, q, i)
      /\ \A i \in DOMAIN B : i = 1 \/ (i - 1 \in DOMAIN A /\ A[i - 1] = B[i] /\ (i - 1) + 1 = i)
      /\ Waits(A, p, q) => Waits(B, p, q)
  BY HeardBox
<1>3. /\ Head(B) = B[1] /\ 1 \in DOMAIN B /\ DOMAIN B \subseteq Nat \ {0}
  BY TailPlaces
<1>4. IsAccept(B[1], q, p) /\ B[1].nonce = n /\ ~ IsUnlink(B[1], q, p)
  BY <1>3 DEF IsAccept, IsUnlink, Say
<1>5. L = Phase("requesting", q, n)
  OBVIOUS
<1> HIDE DEF L, L2, A
<1>6. ~ Has(p, q, L, B, W, H, R) /\ <<q, p>> \notin K
  BY <1>1 DEF Has, Fine, AskedFine, L
<1>7. ASSUME Gets(p, q, L, B, W, H)
      PROVE  Has(p, q, L2, A, W, H, R) \/ Gets(p, q, L2, A, W, H)
  <2>1. CASE \E m \in H : IsAccept(m, q, p)
    BY <1>1, <2>1 DEF Gets
  <2>2. CASE \E i \in DOMAIN B :
                /\ IsAccept(B[i], q, p)
                /\ L = Phase("requesting", q, B[i].nonce)
                     => ~ Coming(W, H, p, q) /\ Ahead(B, p, q, i)
    <3>1. PICK i \in DOMAIN B :
                /\ IsAccept(B[i], q, p)
                /\ L = Phase("requesting", q, B[i].nonce)
                     => ~ Coming(W, H, p, q) /\ Ahead(B, p, q, i)
      BY <2>2
    <3>2. CASE i = 1
      <4>1. ~ Coming(W, H, p, q) /\ Ahead(B, p, q, 1)
        BY <1>4, <1>5, <3>1, <3>2
      <4>2. ~ Waits(B, p, q)
        <5> SUFFICES ASSUME NEW j \in DOMAIN B, IsUnlink(B[j], q, p) PROVE FALSE
          BY DEF Waits
        <5>1. j < 1 /\ j \in Nat \ {0}
          BY <1>3, <4>1 DEF Ahead
        <5> QED
          BY <5>1
      <4> QED
        BY <1>1, <1>2, <4>1, <4>2 DEF Has, Threat
    <3>3. CASE i # 1
      BY <1>1, <1>2, <3>1, <3>3 DEF Gets
    <3> QED
      BY <3>2, <3>3
  <2> QED
    BY <1>7, <2>1, <2>2 DEF Gets
<1>8. Fine(p, q, L, O, B, W, H, R, K)
  BY DEF L
<1>9. AskerFine(p, q, L2, A, W, H, R, K) /\ AskedFine(p, q, L2, A, W, H, R, K)
  BY <1>6, <1>7, <1>8 DEF Fine, AskerFine, AskedFine
<1>10. BusyFine(p, q, L2, A, W, H)
  BY <1>1, <1>8 DEF Fine, BusyFine
<1>11. ASSUME NEW k \in 1..MaxTurns, <<q, p, k>> \in R
       PROVE  /\ SentFine(p, q, L2, A, W, H, k) /\ HereFine(p, q, L2, A, W, H, k)
              /\ SeenFine(p, q, L2, A, W, H, k) /\ SaidFine(p, q, L2, O, A, W, H, k)
  <2>1. /\ SentFine(p, q, L, B, W, H, k) /\ HereFine(p, q, L, B, W, H, k)
        /\ SaidFine(p, q, L, O, B, W, H, k)
    BY <1>8, <1>11 DEF Fine
  <2>2. SentFine(p, q, L2, A, W, H, k)
    BY <1>1, <2>1 DEF SentFine
  <2>3. HereFine(p, q, L2, A, W, H, k)
    BY <1>1, <1>2, <2>1 DEF HereFine
  <2>4. SeenFine(p, q, L2, A, W, H, k) /\ SaidFine(p, q, L2, O, A, W, H, k)
    BY <1>1, <2>1 DEF SeenFine, SaidFine
  <2> QED
    BY <2>2, <2>3, <2>4
<1> QED
  BY <1>9, <1>10, <1>11 DEF Fine, L2, A

\* The other's unlink: the end that was tied to it is free.
LEMMA FineUnlinked ==
    ASSUME NEW S, NEW B \in Seq(S), B # <<>>,
           NEW p, NEW q, q # Nobody, NEW L, NEW O, NEW W, NEW H, NEW R, NEW K,
           IsUnlink(Head(B), q, p),
           Fine(p, q, L, O, B, W, H, R, K)
    PROVE  Fine(p, q, IF L.peer = q THEN NoLink ELSE L, O, Tail(B), W, H, R, K)
<1> DEFINE L2 == IF L.peer = q THEN NoLink ELSE L
           A == Tail(B)
<1>1. /\ \A i \in DOMAIN A :
           /\ i + 1 \in DOMAIN B /\ A[i] = B[i + 1]
           /\ Ahead(B, p, q, i + 1) => Ahead(A, p, q, i)
      /\ \A i \in DOMAIN B : i = 1 \/ (i - 1 \in DOMAIN A /\ A[i - 1] = B[i] /\ (i - 1) + 1 = i)
  BY HeardBox
<1>2. /\ Head(B) = B[1] /\ 1 \in DOMAIN B /\ DOMAIN B \subseteq Nat \ {0}
      /\ IsUnlink(B[1], q, p)
  BY TailPlaces
<1>3. ~ Guard(B, p, q, 1)
  BY <1>2 DEF Guard
<1>4. ~ Guarded(B, p, q) /\ \A i \in DOMAIN B : i # 1 => ~ GuardedTo(B, p, q, i)
  BY <1>2, <1>3 DEF Guarded, GuardedTo
<1>5. Threat(B, W, H, p, q)
  BY <1>2 DEF Threat, Waits
<1>6. \A k : /\ L2 = Phase("requesting", q, k) => L = L2
             /\ L2 = Phase("incoming", q, k) => L = L2
  BY DEF NoLink, Phase
<1> HIDE DEF A, L2
<1>7. ~ Has(p, q, L, B, W, H, R)
  BY <1>5 DEF Has
<1>8. ASSUME Gets(p, q, L, B, W, H) PROVE Gets(p, q, L2, A, W, H)
  <2>1. CASE \E m \in H : /\ IsAccept(m, q, p)
                          /\ L = Phase("requesting", q, m.nonce) => ~ Comes(W, p, q)
    BY <1>6, <2>1 DEF Gets
  <2>2. CASE \E i \in DOMAIN B :
                /\ IsAccept(B[i], q, p)
                /\ L = Phase("requesting", q, B[i].nonce)
                     => ~ Coming(W, H, p, q) /\ Ahead(B, p, q, i)
    <3>1. PICK i \in DOMAIN B :
                /\ IsAccept(B[i], q, p)
                /\ L = Phase("requesting", q, B[i].nonce)
                     => ~ Coming(W, H, p, q) /\ Ahead(B, p, q, i)
      BY <2>2
    <3>2. i # 1
      BY <1>2, <3>1, UrgentOnes
    <3>3. i - 1 \in DOMAIN A /\ A[i - 1] = B[i] /\ (Ahead(B, p, q, i) => Ahead(A, p, q, i - 1))
      BY <1>1, <3>1, <3>2
    <3> QED
      BY <1>6, <3>1, <3>3 DEF Gets
  <2> QED
    BY <1>8, <2>1, <2>2 DEF Gets
<1>9. AskerFine(p, q, L2, A, W, H, R, K) /\ AskedFine(p, q, L2, A, W, H, R, K)
  BY <1>7, <1>8 DEF Fine, AskerFine, AskedFine
<1>10. BusyFine(p, q, L2, A, W, H)
  BY <1>4 DEF Fine, BusyFine
<1>11. ASSUME NEW n \in 1..MaxTurns, <<q, p, n>> \in R
       PROVE  /\ SentFine(p, q, L2, A, W, H, n) /\ HereFine(p, q, L2, A, W, H, n)
              /\ SeenFine(p, q, L2, A, W, H, n) /\ SaidFine(p, q, L2, O, A, W, H, n)
  <2>1. /\ SentFine(p, q, L, B, W, H, n) /\ HereFine(p, q, L, B, W, H, n)
        /\ SeenFine(p, q, L, B, W, H, n) /\ SaidFine(p, q, L, O, B, W, H, n)
    BY <1>11 DEF Fine
  <2>2. SentFine(p, q, L2, A, W, H, n)
    BY <1>4, <2>1 DEF SentFine
  <2>3. HereFine(p, q, L2, A, W, H, n)
    <3> SUFFICES ASSUME NEW i \in DOMAIN A, A[i] = Say("request", q, p, n)
                 PROVE  ~ Coming(W, H, p, q) /\ Ahead(A, p, q, i)
      BY DEF HereFine
    <3>1. i + 1 \in DOMAIN B /\ B[i + 1] = Say("request", q, p, n) /\ i + 1 # 1
      <4>1. i + 1 \in DOMAIN B /\ B[i + 1] = Say("request", q, p, n)
        BY <1>1
      <4>2. i + 1 # 1
        BY <1>2, <4>1, UrgentOnes
      <4> QED
        BY <4>1, <4>2
    <3>2. ~ Coming(W, H, p, q) /\ Ahead(B, p, q, i + 1)
      BY <1>4, <2>1, <3>1 DEF HereFine
    <3> QED
      BY <1>1, <3>2
  <2>4. SeenFine(p, q, L2, A, W, H, n)
    BY <1>5, <1>6, <2>1 DEF SeenFine
  <2>5. SaidFine(p, q, L2, O, A, W, H, n)
    BY <1>5, <2>1 DEF SaidFine
  <2> QED
    BY <2>2, <2>3, <2>4, <2>5
<1> QED
  BY <1>9, <1>10, <1>11 DEF Fine, L2, A

\* No record of the two, no request: nothing that could be lost.
LEMMA FineApart ==
    ASSUME NEW p, NEW q, NEW L, NEW O, NEW B, NEW W, NEW H, NEW R, NEW K,
           <<p, q>> \notin K, <<q, p>> \notin K,
           \A n : <<q, p, n>> \notin R,
           ~ Comes(W, p, q)
    PROVE  Fine(p, q, L, O, B, W, H, R, K)
BY DEF Fine, AskerFine, AskedFine, BusyFine

\* The other's request is recorded, and on its way.
LEMMA FineAsked ==
    ASSUME NEW p, NEW q, NEW n, NEW L, NEW O, NEW B, NEW W, NEW H, NEW R, NEW R2, NEW K,
           <<p, q>> \notin K, <<q, p>> \notin K,
           \A k : <<q, p, k>> \in R2 => k = n,
           \A i \in DOMAIN B : B[i] # Say("request", q, p, n),
           L # Phase("incoming", q, n),
           Say("accept", p, q, n) \notin O,
           Fine(p, q, L, O, B, W, H, R, K)
    PROVE  Fine(p, q, L, O, B, W, {Say("request", q, p, n)}, R2, K)
<1> DEFINE m == Say("request", q, p, n)
<1>1. ~ IsUnlink(m, q, p)
  BY UrgentOnes
<1>2. ~ Comes({m}, p, q) /\ (Coming(W, {m}, p, q) => Comes(W, p, q))
  BY <1>1 DEF Comes, Coming
<1>3. Comes(W, p, q) => Tied(L, q) /\ Guarded(B, p, q)
  BY DEF Fine, BusyFine
<1>4. BusyFine(p, q, L, B, W, {m})
  BY <1>2, <1>3 DEF BusyFine
<1>5. SentFine(p, q, L, B, W, {m}, n) /\ HereFine(p, q, L, B, W, {m}, n)
  BY <1>2, <1>3 DEF SentFine, HereFine
<1>6. SeenFine(p, q, L, B, W, {m}, n) /\ SaidFine(p, q, L, O, B, W, {m}, n)
  BY DEF SeenFine, SaidFine
<1> QED
  BY <1>4, <1>5, <1>6 DEF Fine, AskerFine, AskedFine

\* Its accept of a request that stands is recorded.
LEMMA FineAccepting ==
    ASSUME NEW p, NEW q, NEW n \in 1..MaxTurns, NEW L, NEW O, NEW O2, NEW B, NEW W2, NEW H, NEW R, NEW R2, NEW K, NEW K2,
           <<q, p, n>> \in R, Say("accept", p, q, n) \in O,
           \A k : <<q, p, k>> \in R2 => <<q, p, k>> \in R /\ k # n,
           <<p, q>> \notin K2,
           ~ Comes(W2, p, q),
           O2 \subseteq O,
           Fine(p, q, L, O, B, {}, H, R, K)
    PROVE  Fine(p, q, L, O2, B, W2, H, R2, K2)
<1>1. Tied(L, q) /\ L.nonce = n /\ ~ Threat(B, {}, H, p, q)
  BY DEF Fine, SaidFine
<1>2. ~ Threat(B, W2, H, p, q)
  BY <1>1 DEF Threat, Coming
<1>3. Has(p, q, L, B, W2, H, R2)
  BY <1>1, <1>2 DEF Has
<1>4. AskerFine(p, q, L, B, W2, H, R2, K2) /\ AskedFine(p, q, L, B, W2, H, R2, K2)
  BY <1>3 DEF AskerFine, AskedFine
<1>5. BusyFine(p, q, L, B, W2, H)
  BY DEF BusyFine
<1>6. ASSUME NEW k \in 1..MaxTurns, <<q, p, k>> \in R2
      PROVE  /\ SentFine(p, q, L, B, W2, H, k) /\ HereFine(p, q, L, B, W2, H, k)
             /\ SeenFine(p, q, L, B, W2, H, k) /\ SaidFine(p, q, L, O2, B, W2, H, k)
  <2>1. SaidFine(p, q, L, O, B, {}, H, k)
    BY <1>6 DEF Fine
  <2>2. SaidFine(p, q, L, O2, B, W2, H, k)
    BY <1>2, <2>1 DEF SaidFine
  <2>3. ~ Coming(W2, H, p, q) /\ \A i \in DOMAIN B : Ahead(B, p, q, i)
    BY <1>2 DEF Threat, Waits, Ahead
  <2> QED
    BY <1>2, <2>2, <2>3 DEF SentFine, HereFine, SeenFine
<1> QED
  BY <1>4, <1>5, <1>6 DEF Fine

\* Its request was accepted: the accept is on its way.
LEMMA FineGranted ==
    ASSUME NEW p, NEW q, NEW n, NEW L, NEW O, NEW B, NEW W, NEW R, NEW R2, NEW K, NEW K2,
           <<q, p>> \notin K2,
           \A k : <<q, p, k>> \in R2 => <<q, p, k>> \in R,
           Fine(p, q, L, O, B, W, {}, R, K)
    PROVE  Fine(p, q, L, O, B, W, {Say("accept", q, p, n)}, R2, K2)
<1> DEFINE m == Say("accept", q, p, n)
           H == {m}
<1>1. IsAccept(m, q, p) /\ ~ IsUnlink(m, q, p) /\ \A k : m # Say("request", q, p, k)
  BY DEF IsAccept, IsUnlink, Say
<1>2. ~ Comes(H, p, q)
  BY <1>1 DEF Comes
<1> HIDE DEF m
<1>3. L = Phase("requesting", q, m.nonce) => ~ Tied(L, q)
  BY DEF Phase, Tied
<1>4. Comes(W, p, q) => Tied(L, q) /\ Guarded(B, p, q)
  BY DEF Fine, BusyFine
<1>5. Gets(p, q, L, B, W, H)
  BY <1>1, <1>3, <1>4 DEF Gets
<1>6. AskerFine(p, q, L, B, W, H, R2, K2) /\ AskedFine(p, q, L, B, W, H, R2, K2)
  BY <1>5 DEF AskerFine, AskedFine
<1>7. BusyFine(p, q, L, B, W, H)
  BY <1>2, <1>4 DEF BusyFine
<1>8. /\ Coming(W, H, p, q) => Coming(W, {}, p, q)
      /\ Threat(B, W, H, p, q) => Threat(B, W, {}, p, q)
  BY <1>2 DEF Coming, Threat
<1>9. ASSUME NEW k \in 1..MaxTurns, <<q, p, k>> \in R2
      PROVE  /\ SentFine(p, q, L, B, W, H, k) /\ HereFine(p, q, L, B, W, H, k)
             /\ SeenFine(p, q, L, B, W, H, k) /\ SaidFine(p, q, L, O, B, W, H, k)
  <2>1. /\ HereFine(p, q, L, B, W, {}, k) /\ SeenFine(p, q, L, B, W, {}, k)
        /\ SaidFine(p, q, L, O, B, W, {}, k)
    BY <1>9 DEF Fine
  <2>2. SentFine(p, q, L, B, W, H, k)
    BY <1>1 DEF SentFine
  <2> QED
    BY <1>8, <2>1, <2>2 DEF HereFine, SeenFine, SaidFine
<1> QED
  BY <1>6, <1>7, <1>9 DEF Fine, m

\* Its accept finds one of them linked: it is answered with an unlink.
LEMMA FineBusy ==
    ASSUME NEW p, NEW q, NEW n \in 1..MaxTurns, NEW L, NEW O, NEW O2, NEW B, NEW W2, NEW H, NEW R, NEW R2, NEW K,
           <<q, p, n>> \in R, Say("accept", p, q, n) \in O,
           \A k : <<q, p, k>> \notin R2,
           Fine(p, q, L, O, B, {}, H, R, K)
    PROVE  Fine(p, q, L, O2, B, W2, H, R2, K)
<1>1. Tied(L, q) /\ L.nonce = n /\ ~ Threat(B, {}, H, p, q)
  BY DEF Fine, SaidFine
<1>2. ~ Has(p, q, L, B, {}, H, R)
  BY <1>1 DEF Has
<1>3. \A k : L # Phase("requesting", q, k)
  BY <1>1 DEF Tied, Phase
<1>4. Gets(p, q, L, B, {}, H) => Gets(p, q, L, B, W2, H)
  BY <1>3 DEF Gets
<1>5. AskerFine(p, q, L, B, W2, H, R2, K) /\ AskedFine(p, q, L, B, W2, H, R2, K)
  BY <1>2, <1>4 DEF Fine, AskerFine, AskedFine
<1>6. BusyFine(p, q, L, B, W2, H)
  BY <1>1 DEF BusyFine, Threat, Coming, Waits, Guarded
<1> QED
  BY <1>5, <1>6 DEF Fine

\* The other's unlink ended their record, and is passed on.
LEMMA FinePulled ==
    ASSUME NEW p, NEW q, NEW L, NEW O, NEW B, NEW W, NEW H, NEW R, NEW R2, NEW K, NEW K2,
           <<p, q>> \notin K2, <<q, p>> \notin K2,
           \A k : <<q, p, k>> \notin R2,
           Comes(H, p, q) => <<p, q>> \in K \/ <<q, p>> \in K,
           Fine(p, q, L, O, B, W, {}, R, K)
    PROVE  Fine(p, q, L, O, B, W, H, R2, K2)
<1>1. ASSUME Comes(W, p, q), Comes(H, p, q)
      PROVE  \E k \in DOMAIN B : IsAccept(B[k], q, p)
  <2>1. ~ Has(p, q, L, B, W, {}, R)
    BY <1>1 DEF Has, Threat, Coming
  <2>2. Gets(p, q, L, B, W, {})
    BY <1>1, <2>1 DEF Fine, AskerFine, AskedFine
  <2> QED
    BY <2>2 DEF Gets
<1>2. BusyFine(p, q, L, B, W, H)
  BY <1>1 DEF Fine, BusyFine
<1> QED
  BY <1>2 DEF Fine, AskerFine, AskedFine
-----------------------------------------------------------------------------
(* What the actions do, place by place.                                    *)

\* The threads are the readers and the closers of the players, all different.
LEMMA Threads ==
    /\ \A p \in Player : Reader(p) \in Thread /\ Closer(p) \in Thread
    /\ \A p, q : Reader(p) # Closer(q) /\ (Reader(p) = Reader(q) => p = q) /\ (Closer(p) = Closer(q) => p = q)
    /\ \A t \in Thread : \E p \in Player : t = Reader(p) \/ t = Closer(p)
BY DEF Thread, Reader, Closer

\* Only a player that is about to leave, or has left, can be refused to another.
LEMMA Refusing ==
    ASSUME Types, NEW p \in Player, NEW q \in Player, p # q, TRUE \in Refusals(p, q)
    PROVE  q \notin Staying
<1>1. CASE p = Host
  <2>1. q \notin conns /\ q \in Client
    BY <1>1 DEF Refusals, Player
  <2> QED
    BY <2>1 DEF Types, Typed, Staying
<1>2. CASE p # Host
  <2>1. Left(q) \in ToSet(inbox[p])
    BY <1>2 DEF Refusals, Left
  <2>2. inbox[p] \in Seq(News(p) \union {Left(c) : c \in closing})
    BY DEF Types, Wired, InTyped
  <2>3. Left(q) \in News(p) \union {Left(c) : c \in closing}
    BY <2>1, <2>2 DEF ToSet
  <2>4. Left(q).kind = "left" /\ Left(q).from = q /\ \A c : Left(c).from = c
    BY DEF Left, Say
  <2>5. Left(q) \notin News(p)
    BY <2>4 DEF News, Letter, UrgentKinds
  <2> QED
    BY <2>3, <2>4, <2>5 DEF Staying
<1> QED
  BY <1>1, <1>2

\* What post does to the outbox: the message is in it, or was refused.
LEMMA Posting ==
    ASSUME Wired, NEW p \in Player, NEW q, NEW kind, NEW n, NEW refused \in Refusals(p, q),
           Post(p, Say(kind, p, q, n), refused)
    PROVE  /\ DOMAIN outbox' = Player
           /\ \A x \in Player : x # p => outbox'[x] = outbox[x]
           /\ \/ ~ refused /\ Says(p, Say(kind, p, q, n))
              \/ refused /\ outbox'[p] = outbox[p] /\ TRUE \in Refusals(p, q)
<1>1. refused \in BOOLEAN
  BY DEF Refusals
<1> QED
  BY <1>1 DEF Wired, Post, Says

\* What Tell does to the outbox.
LEMMA Telling ==
    ASSUME Wired, NEW p \in Player, NEW q, NEW kind, NEW n, Tell(p, kind, q, n)
    PROVE  /\ DOMAIN outbox' = Player
           /\ \A x \in Player : x # p => outbox'[x] = outbox[x]
           /\ SaysIfHeard(p, kind, q, n)
BY Posting DEF Tell, SaysIfHeard

\* What each step of a frontend does to its own end.
LEMMA RequestDoes ==
    ASSUME Wired, NEW p \in Player, NEW q \in Player, Request(p, q)
    PROVE  /\ FrontMoves(p) /\ inbox'[p] = inbox[p] /\ peers'[p] = peers[p]
           /\ turn < MaxTurns /\ turn' = turn + 1
           /\ link[p] = NoLink /\ q \in peers[p]
           /\ \/ Says(p, Say("request", p, q, turn + 1)) /\ link'[p] = Phase("requesting", q, turn + 1)
              \/ outbox'[p] = outbox[p] /\ link'[p] = NoLink
<1>1. PICK refused \in Refusals(p, q) :
        /\ Post(p, Say("request", p, q, turn'), refused)
        /\ SetLink(p, IF refused THEN NoLink ELSE Phase("requesting", q, turn'))
  BY DEF Request
<1>2. /\ DOMAIN outbox' = Player
      /\ \A x \in Player : x # p => outbox'[x] = outbox[x]
      /\ \/ ~ refused /\ Says(p, Say("request", p, q, turn'))
         \/ refused /\ outbox'[p] = outbox[p]
  BY <1>1, Posting
<1>3. /\ DOMAIN link' = Player /\ \A x \in Player : x # p => link'[x] = link[x]
      /\ link'[p] = IF refused THEN NoLink ELSE Phase("requesting", q, turn')
  BY <1>1 DEF SetLink, Wired
<1>4. /\ turn < MaxTurns /\ turn' = turn + 1 /\ link[p] = NoLink /\ q \in peers[p]
      /\ UNCHANGED <<rosterVars, work, inbox, peers>>
  BY DEF Request, TakeTurn, MayLink
<1> QED
  BY <1>2, <1>3, <1>4 DEF FrontMoves, Wired

LEMMA HearRequestDoes ==
    ASSUME Wired, NEW p \in Player, HearRequest(p)
    PROVE  LET m == Head(inbox[p])
           IN /\ Listens(p, "request") /\ peers'[p] = peers[p]
              /\ \/ /\ link[p] = NoLink /\ m.from \in peers[p] /\ outbox'[p] = outbox[p]
                    /\ link'[p] = Phase("incoming", m.from, m.nonce)
                 \/ link'[p] = link[p] /\ SaysIfHeard(p, "decline", m.from, m.nonce)
<1> DEFINE m == Head(inbox[p])
<1>1. /\ inbox[p] # <<>> /\ m.kind = "request" /\ link[p].phase # "holding"
      /\ inbox' = [inbox EXCEPT ![p] = Tail(@)]
      /\ UNCHANGED <<rosterVars, work, peers, turn>>
  BY DEF HearRequest, Hears, Heard, Idle
<1>2. CASE /\ MayLink(p, m.from) /\ SetLink(p, Phase("incoming", m.from, m.nonce))
           /\ UNCHANGED outbox
  BY <1>1, <1>2 DEF MayLink, SetLink, FrontMoves, Wired, Listens
<1>3. CASE Tell(p, "decline", m.from, m.nonce) /\ UNCHANGED link
  <2>1. /\ DOMAIN outbox' = Player
        /\ \A x \in Player : x # p => outbox'[x] = outbox[x]
        /\ SaysIfHeard(p, "decline", m.from, m.nonce)
    BY <1>3, Telling
  <2> QED
    BY <1>1, <1>3, <2>1 DEF FrontMoves, Wired, Listens
<1> QED
  BY <1>2, <1>3 DEF HearRequest

LEMMA AcceptDoes ==
    ASSUME Wired, NEW p \in Player, Accept(p)
    PROVE  LET q == link[p].peer
               n == link[p].nonce
           IN /\ FrontMoves(p) /\ turn' = turn /\ inbox'[p] = inbox[p] /\ peers'[p] = peers[p]
              /\ link[p].phase = "incoming"
              /\ \/ Says(p, Say("accept", p, q, n)) /\ link'[p] = Phase("holding", q, n)
                 \/ outbox'[p] = outbox[p] /\ link'[p] = link[p]
                 \/ SaysIfHeard(p, "decline", q, n) /\ link'[p] = NoLink
<1> DEFINE q == link[p].peer
           n == link[p].nonce
<1>1. link[p].phase = "incoming" /\ UNCHANGED <<rosterVars, work, inbox, peers, turn>>
  BY DEF Accept
<1>2. ASSUME NEW refused \in Refusals(p, q),
             Post(p, Say("accept", p, q, n), refused),
             SetLink(p, IF refused THEN link[p] ELSE Phase("holding", q, n))
      PROVE  /\ FrontMoves(p)
             /\ \/ Says(p, Say("accept", p, q, n)) /\ link'[p] = Phase("holding", q, n)
                \/ outbox'[p] = outbox[p] /\ link'[p] = link[p]
  <2>1. /\ DOMAIN outbox' = Player
        /\ \A x \in Player : x # p => outbox'[x] = outbox[x]
        /\ \/ ~ refused /\ Says(p, Say("accept", p, q, n))
           \/ refused /\ outbox'[p] = outbox[p]
    BY <1>2, Posting
  <2>2. /\ DOMAIN link' = Player /\ \A x \in Player : x # p => link'[x] = link[x]
        /\ link'[p] = IF refused THEN link[p] ELSE Phase("holding", q, n)
    BY <1>2 DEF SetLink, Wired
  <2> QED
    BY <1>1, <2>1, <2>2 DEF FrontMoves, Wired
<1>3. ASSUME Tell(p, "decline", q, n), SetLink(p, NoLink)
      PROVE  FrontMoves(p) /\ SaysIfHeard(p, "decline", q, n) /\ link'[p] = NoLink
  <2>1. /\ DOMAIN outbox' = Player
        /\ \A x \in Player : x # p => outbox'[x] = outbox[x]
        /\ SaysIfHeard(p, "decline", q, n)
    BY <1>3, Telling
  <2> QED
    BY <1>1, <1>3, <2>1 DEF SetLink, FrontMoves, Wired
<1> QED
  BY <1>1, <1>2, <1>3 DEF Accept, Wired

LEMMA HoldDoes ==
    ASSUME Wired, NEW p \in Player, Hold(p)
    PROVE  LET q == link[p].peer
               n == link[p].nonce
           IN /\ FrontMoves(p) /\ turn' = turn /\ inbox'[p] = inbox[p] /\ peers'[p] = peers[p]
              /\ link[p].phase = "holding"
              /\ \/ Says(p, Say("start", p, q, n)) /\ link'[p] = Phase("starting", q, n)
                 \/ outbox'[p] = outbox[p] /\ TRUE \in Refusals(p, q) /\ link'[p] = NoLink
                 \/ SaysIfHeard(p, "unlink", q, 0) /\ link'[p] = NoLink
<1> DEFINE q == link[p].peer
           n == link[p].nonce
<1>1. link[p].phase = "holding" /\ UNCHANGED <<rosterVars, work, inbox, peers, turn>>
  BY DEF Hold
<1>2. ASSUME NEW refused \in Refusals(p, q),
             Post(p, Say("start", p, q, n), refused),
             SetLink(p, IF refused THEN NoLink ELSE Phase("starting", q, n))
      PROVE  /\ FrontMoves(p)
             /\ \/ Says(p, Say("start", p, q, n)) /\ link'[p] = Phase("starting", q, n)
                \/ outbox'[p] = outbox[p] /\ TRUE \in Refusals(p, q) /\ link'[p] = NoLink
  <2>1. /\ DOMAIN outbox' = Player
        /\ \A x \in Player : x # p => outbox'[x] = outbox[x]
        /\ \/ ~ refused /\ Says(p, Say("start", p, q, n))
           \/ refused /\ outbox'[p] = outbox[p] /\ TRUE \in Refusals(p, q)
    BY <1>2, Posting
  <2>2. /\ DOMAIN link' = Player /\ \A x \in Player : x # p => link'[x] = link[x]
        /\ link'[p] = IF refused THEN NoLink ELSE Phase("starting", q, n)
    BY <1>2 DEF SetLink, Wired
  <2> QED
    BY <1>1, <2>1, <2>2 DEF FrontMoves, Wired
<1>3. ASSUME Tell(p, "unlink", q, 0), SetLink(p, NoLink)
      PROVE  FrontMoves(p) /\ SaysIfHeard(p, "unlink", q, 0) /\ link'[p] = NoLink
  <2>1. /\ DOMAIN outbox' = Player
        /\ \A x \in Player : x # p => outbox'[x] = outbox[x]
        /\ SaysIfHeard(p, "unlink", q, 0)
    BY <1>3, Telling
  <2> QED
    BY <1>1, <1>3, <2>1 DEF SetLink, FrontMoves, Wired
<1> QED
  BY <1>1, <1>2, <1>3 DEF Hold, Wired

LEMMA HearAcceptDoes ==
    ASSUME Wired, NEW p \in Player, HearAccept(p)
    PROVE  LET m == Head(inbox[p])
           IN /\ Listens(p, "accept") /\ peers'[p] = peers[p]
              /\ \/ /\ link[p] = Phase("requesting", m.from, m.nonce)
                    /\ link'[p] = Phase("holding", m.from, m.nonce) /\ outbox'[p] = outbox[p]
                 \/ /\ link[p] # Phase("requesting", m.from, m.nonce)
                    /\ link'[p] = link[p] /\ SaysIfHeard(p, "unlink", m.from, 0)
<1> DEFINE m == Head(inbox[p])
<1>1. /\ inbox[p] # <<>> /\ m.kind = "accept" /\ link[p].phase # "holding"
      /\ inbox' = [inbox EXCEPT ![p] = Tail(@)]
      /\ UNCHANGED <<rosterVars, work, peers, turn>>
  BY DEF HearAccept, Hears, Heard, Idle
<1>2. CASE link[p] = Phase("requesting", m.from, m.nonce)
  <2>1. SetLink(p, Phase("holding", m.from, m.nonce)) /\ UNCHANGED outbox
    BY <1>2 DEF HearAccept
  <2> QED
    BY <1>1, <1>2, <2>1 DEF SetLink, FrontMoves, Wired, Listens
<1>3. CASE link[p] # Phase("requesting", m.from, m.nonce)
  <2>1. Tell(p, "unlink", m.from, 0) /\ UNCHANGED link
    BY <1>3 DEF HearAccept
  <2>2. /\ DOMAIN outbox' = Player
        /\ \A x \in Player : x # p => outbox'[x] = outbox[x]
        /\ SaysIfHeard(p, "unlink", m.from, 0)
    BY <2>1, Telling
  <2> QED
    BY <1>1, <1>3, <2>1, <2>2 DEF FrontMoves, Wired, Listens
<1> QED
  BY <1>2, <1>3

LEMMA HearDeclineDoes ==
    ASSUME Wired, NEW p \in Player, HearDecline(p)
    PROVE  /\ Listens(p, "decline") /\ peers'[p] = peers[p] /\ outbox'[p] = outbox[p]
           /\ \/ link'[p] = link[p]
              \/ link[p].phase = "requesting" /\ link'[p] = NoLink
<1>1. Phase("requesting", Head(inbox[p]).from, Head(inbox[p]).nonce).phase = "requesting"
  BY DEF Phase
<1> QED
  BY <1>1 DEF HearDecline, Hears, Heard, Idle, SetLink, FrontMoves, Wired, Listens

LEMMA HearStartDoes ==
    ASSUME Wired, NEW p \in Player, HearStart(p)
    PROVE  LET m == Head(inbox[p])
           IN /\ Listens(p, "start") /\ peers'[p] = peers[p]
              /\ \/ link'[p] = link[p] /\ outbox'[p] = outbox[p]
                 \/ /\ link[p] = Phase("starting", m.from, m.nonce)
                    /\ \/ link'[p] = Phase("plugged", m.from, m.nonce) /\ outbox'[p] = outbox[p]
                       \/ link'[p] = NoLink /\ SaysIfHeard(p, "unlink", m.from, 0)
<1> DEFINE m == Head(inbox[p])
<1>1. /\ inbox[p] # <<>> /\ m.kind = "start" /\ link[p].phase # "holding"
      /\ inbox' = [inbox EXCEPT ![p] = Tail(@)]
      /\ UNCHANGED <<rosterVars, work, peers, turn>>
  BY DEF HearStart, Hears, Heard, Idle
<1>2. CASE UNCHANGED <<link, outbox>>
  BY <1>1, <1>2 DEF FrontMoves, Wired, Listens
<1>3. CASE /\ link[p] = Phase("starting", m.from, m.nonce)
           /\ SetLink(p, Phase("plugged", m.from, m.nonce)) /\ UNCHANGED outbox
  BY <1>1, <1>3 DEF SetLink, FrontMoves, Wired, Listens
<1>4. CASE /\ link[p] = Phase("starting", m.from, m.nonce)
           /\ SetLink(p, NoLink) /\ Tell(p, "unlink", m.from, 0)
  <2>1. /\ DOMAIN outbox' = Player
        /\ \A x \in Player : x # p => outbox'[x] = outbox[x]
        /\ SaysIfHeard(p, "unlink", m.from, 0)
    BY <1>4, Telling
  <2> QED
    BY <1>1, <1>4, <2>1 DEF SetLink, FrontMoves, Wired, Listens
<1> QED
  BY <1>2, <1>3, <1>4 DEF HearStart

LEMMA HearUnlinkDoes ==
    ASSUME Wired, NEW p \in Player, HearUnlink(p)
    PROVE  /\ Listens(p, "unlink") /\ peers'[p] = peers[p] /\ outbox'[p] = outbox[p]
           /\ link'[p] = IF link[p].peer = Head(inbox[p]).from THEN NoLink ELSE link[p]
BY DEF HearUnlink, Hears, Heard, Idle, SetLink, FrontMoves, Wired, Listens

LEMMA HearLeftDoes ==
    ASSUME Wired, NEW p \in Player, HearLeft(p)
    PROVE  LET q == Head(inbox[p]).from
           IN /\ Listens(p, "left") /\ peers'[p] = peers[p] \ {q} /\ outbox'[p] = outbox[p]
              /\ link'[p] = IF link[p].peer = q THEN NoLink ELSE link[p]
BY DEF HearLeft, Hears, Heard, Idle, SetLink, FrontMoves, Wired, Listens

LEMMA PullDoes ==
    ASSUME Wired, NEW p \in Player, Pull(p)
    PROVE  LET q == link[p].peer
           IN /\ FrontMoves(p) /\ inbox'[p] = inbox[p] /\ peers'[p] = peers[p]
              /\ turn < MaxTurns /\ turn' = turn + 1
              /\ link[p] # NoLink /\ link[p].phase # "holding" /\ link'[p] = NoLink
              /\ \/ link[p].phase = "incoming" /\ SaysIfHeard(p, "decline", q, link[p].nonce)
                 \/ SaysIfHeard(p, "unlink", q, 0)
<1> DEFINE q == link[p].peer
<1>1. \/ link[p].phase = "incoming" /\ Tell(p, "decline", q, link[p].nonce)
      \/ Tell(p, "unlink", q, 0)
  BY DEF Pull
<1>2. /\ DOMAIN outbox' = Player
      /\ \A x \in Player : x # p => outbox'[x] = outbox[x]
      /\ \/ link[p].phase = "incoming" /\ SaysIfHeard(p, "decline", q, link[p].nonce)
         \/ SaysIfHeard(p, "unlink", q, 0)
  BY <1>1, Telling
<1> QED
  BY <1>2 DEF Pull, Idle, TakeTurn, SetLink, FrontMoves, Wired

\* The message a frontend hears was in its inbox, and says what it is.
LEMMA HeadNews ==
    ASSUME Types, NEW p \in Player, inbox[p] # <<>>
    PROVE  LET m == Head(inbox[p])
           IN /\ m \in ToSet(inbox[p])
              /\ m.kind \in UrgentKinds =>
                    /\ m = Say(m.kind, m.from, p, m.nonce)
                    /\ m.from \in Player /\ m.from # p /\ m.nonce \in 0..MaxTurns
              /\ m.kind = "left" => m.from \in closing
              /\ m.kind \in UrgentKinds \union {"left"}
<1> DEFINE m == Head(inbox[p])
<1>1. inbox[p] \in Seq(News(p) \union {Left(c) : c \in closing})
  BY DEF Types, Wired, InTyped
<1>2. m \in News(p) \union {Left(c) : c \in closing} /\ m \in ToSet(inbox[p])
  BY <1>1, TailElements
<1>3. CASE m \in News(p)
  <2>1. /\ m \in [kind : UrgentKinds, from : Player, to : Player, nonce : 0..MaxTurns]
        /\ m.to = p /\ m.from # p
    BY <1>3 DEF News, Letter
  <2>2. m = [kind |-> m.kind, from |-> m.from, to |-> m.to, nonce |-> m.nonce]
    BY <2>1
  <2> QED
    BY <1>2, <2>1, <2>2 DEF Say, UrgentKinds
<1>4. CASE m \in {Left(c) : c \in closing}
  BY <1>2, <1>4 DEF Left, Say, UrgentKinds
<1> QED
  BY <1>2, <1>3, <1>4

\* A letter is what was said in it.
LEMMA MailSaid ==
    ASSUME NEW p \in Player, NEW q \in Player, p # q,
           NEW kind \in UrgentKinds, NEW n \in 0..MaxTurns
    PROVE  /\ Say(kind, p, q, n) \in Mail(p) /\ Say(kind, p, q, n) \in Letter
           /\ Say(kind, p, q, n) \in News(q)
           /\ Say(kind, p, q, n).kind = kind /\ Say(kind, p, q, n).from = p
           /\ Say(kind, p, q, n).to = q /\ Say(kind, p, q, n).nonce = n
BY DEF Say, Mail, Letter, News

\* A phase is what it was made of.
LEMMA PhaseIs ==
    ASSUME NEW x \in Phases, NEW q, NEW n
    PROVE  /\ Phase(x, q, n).phase = x /\ Phase(x, q, n).peer = q /\ Phase(x, q, n).nonce = n
           /\ x # "incoming" => \A a, k : Phase(x, q, n) # Phase("incoming", a, k)
           /\ \A a, k : NoLink # Phase("incoming", a, k)
           /\ x # "none" /\ q \in Player /\ n \in 0..MaxTurns => Phase(x, q, n) \in Linking
BY DEF Phase, NoLink, Linking, Phases

\* An end that is not free.
LEMMA EndIs ==
    ASSUME Types, NEW p \in Player, link[p] # NoLink
    PROVE  /\ link[p].peer \in peers[p] /\ link[p].peer \in Player /\ link[p].peer # p
           /\ link[p].nonce \in 0..MaxTurns /\ link[p].phase \in Phases \ {"none"}
           /\ link[p] = Phase(link[p].phase, link[p].peer, link[p].nonce)
<1>1. link[p] \in Linking /\ link[p].peer \in peers[p] /\ peers[p] \subseteq Player \ {p}
  BY DEF Types, Wired, FrontTyped
<1>2. /\ link[p] \in [phase : Phases \ {"none"}, peer : Player, nonce : 0..MaxTurns]
  BY <1>1 DEF Linking
<1>3. link[p] = [phase |-> link[p].phase, peer |-> link[p].peer, nonce |-> link[p].nonce]
  BY <1>2
<1> QED
  BY <1>1, <1>2, <1>3 DEF Phase

\* A step that answers, or says nothing, and leaves an end that is no new request.
LEMMA Answers ==
    ASSUME Types, NEW p \in Player, FrontMoves(p), turn' \in turn..MaxTurns,
           FrontTyped(p)',
           \/ outbox'[p] = outbox[p]
           \/ \E kind \in UrgentKinds \ {"request", "accept"}, q \in Player \ {p}, n \in 0..MaxTurns :
                Says(p, Say(kind, p, q, n)),
           inbox'[p] = inbox[p] \/ (inbox[p] # <<>> /\ inbox'[p] = Tail(inbox[p])),
           link'[p].phase # "incoming" \/ link'[p] = link[p]
    PROVE  FrontStep(p)
<1>1. \A a, n : link'[p] = Phase("incoming", a, n) => link[p] = Phase("incoming", a, n)
  BY DEF Phase
<1>2. CASE outbox'[p] = outbox[p]
  BY <1>1, <1>2 DEF FrontStep
<1>3. ASSUME NEW kind \in UrgentKinds \ {"request", "accept"}, NEW q \in Player \ {p},
             NEW n \in 0..MaxTurns, Says(p, Say(kind, p, q, n))
      PROVE  FrontStep(p)
  <2>1. Say(kind, p, q, n) \in Mail(p) /\ Say(kind, p, q, n).kind = kind
    BY <1>3, MailSaid
  <2> QED
    BY <1>1, <1>3, <2>1 DEF FrontStep
<1> QED
  BY <1>2, <1>3

LEMMA TurnIn == Types => turn \in 0..MaxTurns /\ MaxTurns \in Nat /\ turn \in turn..MaxTurns
BY LinkBoundsAssumption DEF Types, Typed

LEMMA NoLinkIs == NoLink.phase = "none" /\ NoLink.peer = Nobody /\ Nobody \notin Player
BY NobodyAssumption DEF NoLink, Player

\* Every step of a frontend is one of those.
LEMMA FrontSteps ==
    ASSUME Types, NEW p \in Player, Frontend(p)
    PROVE  FrontStep(p)
<1>1. /\ Wired
      /\ peers[p] \subseteq Player \ {p}
      /\ link[p] = NoLink \/ (link[p] \in Linking /\ link[p].peer \in peers[p])
  BY DEF Types, Wired, FrontTyped
<1>2. turn \in 0..MaxTurns /\ MaxTurns \in Nat /\ turn \in turn..MaxTurns
  BY TurnIn
<1>3. {"decline", "start", "unlink"} \subseteq UrgentKinds \ {"request", "accept"} /\ 0 \in 0..MaxTurns
      /\ {"request", "accept"} \subseteq UrgentKinds
  BY <1>2 DEF UrgentKinds
<1> DEFINE m == Head(inbox[p])
<1>4. ASSUME NEW q \in Player, Request(p, q) PROVE FrontStep(p)
  <2>1. /\ FrontMoves(p) /\ inbox'[p] = inbox[p] /\ peers'[p] = peers[p]
        /\ turn < MaxTurns /\ turn' = turn + 1
        /\ link[p] = NoLink /\ q \in peers[p]
        /\ \/ Says(p, Say("request", p, q, turn + 1)) /\ link'[p] = Phase("requesting", q, turn + 1)
           \/ outbox'[p] = outbox[p] /\ link'[p] = NoLink
    BY <1>1, <1>4, RequestDoes
  <2>2. turn + 1 \in 0..MaxTurns /\ turn' \in turn..MaxTurns /\ p # q
    BY <1>1, <1>2, <2>1
  <2>3. CASE outbox'[p] = outbox[p] /\ link'[p] = NoLink
    <3>1. FrontTyped(p)'
      BY <1>1, <2>1, <2>3 DEF FrontTyped
    <3> QED
      BY <2>1, <2>2, <2>3, <3>1, Answers
  <2>4. CASE Says(p, Say("request", p, q, turn + 1)) /\ link'[p] = Phase("requesting", q, turn + 1)
    <3>1. /\ link'[p] \in Linking /\ link'[p].peer = q
          /\ \A a, k : link'[p] # Phase("incoming", a, k)
      BY <2>2, <2>4, PhaseIs DEF Phases
    <3>2. FrontTyped(p)'
      BY <1>1, <2>1, <3>1 DEF FrontTyped
    <3>3. /\ Say("request", p, q, turn + 1) \in Mail(p)
          /\ Say("request", p, q, turn + 1).kind = "request"
          /\ Say("request", p, q, turn + 1).nonce = turn + 1
      BY <1>3, <2>2, MailSaid
    <3> QED
      BY <2>1, <2>2, <2>4, <3>1, <3>2, <3>3 DEF FrontStep
  <2> QED
    BY <2>1, <2>3, <2>4
<1>5. CASE HearRequest(p)
  <2>1. /\ Listens(p, "request") /\ peers'[p] = peers[p]
        /\ \/ /\ link[p] = NoLink /\ m.from \in peers[p] /\ outbox'[p] = outbox[p]
              /\ link'[p] = Phase("incoming", m.from, m.nonce)
           \/ link'[p] = link[p] /\ SaysIfHeard(p, "decline", m.from, m.nonce)
    BY <1>1, <1>5, HearRequestDoes
  <2>2. /\ FrontMoves(p) /\ turn' = turn /\ inbox[p] # <<>> /\ inbox'[p] = Tail(inbox[p])
        /\ m.kind = "request"
    BY <2>1 DEF Listens
  <2>3. /\ m = Say("request", m.from, p, m.nonce) /\ m \in ToSet(inbox[p])
        /\ m.from \in Player /\ m.from # p /\ m.nonce \in 0..MaxTurns
    BY <1>3, <2>2, HeadNews
  <2>4. CASE /\ m.from \in peers[p] /\ outbox'[p] = outbox[p]
             /\ link'[p] = Phase("incoming", m.from, m.nonce)
    <3>1. /\ link'[p] \in Linking /\ link'[p].peer = m.from
      BY <2>3, <2>4, PhaseIs DEF Phases
    <3>2. FrontTyped(p)'
      BY <1>1, <2>1, <2>4, <3>1 DEF FrontTyped
    <3>3. \A a, k : link'[p] = Phase("incoming", a, k) => a = m.from /\ k = m.nonce
      BY <2>4 DEF Phase
    <3> QED
      BY <1>2, <2>2, <2>3, <2>4, <3>2, <3>3 DEF FrontStep
  <2>5. CASE link'[p] = link[p] /\ SaysIfHeard(p, "decline", m.from, m.nonce)
    <3>1. FrontTyped(p)'
      BY <1>1, <2>1, <2>5 DEF FrontTyped
    <3> QED
      BY <1>2, <1>3, <2>2, <2>3, <2>5, <3>1, Answers DEF SaysIfHeard
  <2> QED
    BY <2>1, <2>4, <2>5
<1>6. CASE Accept(p)
  <2> DEFINE q == link[p].peer
             n == link[p].nonce
  <2>1. /\ FrontMoves(p) /\ turn' = turn /\ inbox'[p] = inbox[p] /\ peers'[p] = peers[p]
        /\ link[p].phase = "incoming"
        /\ \/ Says(p, Say("accept", p, q, n)) /\ link'[p] = Phase("holding", q, n)
           \/ outbox'[p] = outbox[p] /\ link'[p] = link[p]
           \/ SaysIfHeard(p, "decline", q, n) /\ link'[p] = NoLink
    BY <1>1, <1>6, AcceptDoes
  <2>2. /\ q \in peers[p] /\ q \in Player /\ q # p /\ n \in 0..MaxTurns
        /\ link[p] = Phase("incoming", q, n)
    BY <2>1, EndIs, NoLinkIs
  <2> HIDE DEF q, n
  <2>3. CASE Says(p, Say("accept", p, q, n)) /\ link'[p] = Phase("holding", q, n)
    <3>1. /\ link'[p] \in Linking /\ link'[p].peer = q
          /\ \A a, k : link'[p] # Phase("incoming", a, k)
      BY <2>2, <2>3, PhaseIs DEF Phases
    <3>2. FrontTyped(p)'
      BY <1>1, <2>1, <2>2, <3>1 DEF FrontTyped
    <3>3. /\ Say("accept", p, q, n) \in Mail(p)
          /\ Say("accept", p, q, n).kind = "accept"
          /\ Say("accept", p, q, n).to = q /\ Say("accept", p, q, n).nonce = n
      BY <1>3, <2>2, MailSaid
    <3> QED
      BY <1>2, <2>1, <2>2, <2>3, <3>1, <3>2, <3>3 DEF FrontStep
  <2>4. CASE outbox'[p] = outbox[p] /\ link'[p] = link[p]
    <3>1. FrontTyped(p)'
      BY <1>1, <2>1, <2>4 DEF FrontTyped
    <3> QED
      BY <1>2, <2>1, <2>4, <3>1, Answers
  <2>5. CASE SaysIfHeard(p, "decline", q, n) /\ link'[p] = NoLink
    <3>1. FrontTyped(p)' /\ link'[p].phase # "incoming"
      BY <1>1, <2>1, <2>5, NoLinkIs DEF FrontTyped
    <3> QED
      BY <1>2, <1>3, <2>1, <2>2, <2>5, <3>1, Answers DEF SaysIfHeard
  <2> QED
    BY <2>1, <2>3, <2>4, <2>5
<1>7. CASE Hold(p)
  <2> DEFINE q == link[p].peer
             n == link[p].nonce
  <2>1. /\ FrontMoves(p) /\ turn' = turn /\ inbox'[p] = inbox[p] /\ peers'[p] = peers[p]
        /\ link[p].phase = "holding"
        /\ \/ Says(p, Say("start", p, q, n)) /\ link'[p] = Phase("starting", q, n)
           \/ outbox'[p] = outbox[p] /\ TRUE \in Refusals(p, q) /\ link'[p] = NoLink
           \/ SaysIfHeard(p, "unlink", q, 0) /\ link'[p] = NoLink
    BY <1>1, <1>7, HoldDoes
  <2>2. q \in peers[p] /\ q \in Player /\ q # p /\ n \in 0..MaxTurns
    BY <2>1, EndIs, NoLinkIs
  <2> HIDE DEF q, n
  <2>3. FrontTyped(p)' /\ link'[p].phase # "incoming"
    <3>1. CASE link'[p] = Phase("starting", q, n)
      <4>1. link'[p] \in Linking /\ link'[p].peer = q /\ link'[p].phase = "starting"
        BY <2>2, <3>1, PhaseIs DEF Phases
      <4> QED
        BY <1>1, <2>1, <2>2, <4>1 DEF FrontTyped
    <3>2. CASE link'[p] = NoLink
      BY <1>1, <2>1, <3>2, NoLinkIs DEF FrontTyped
    <3> QED
      BY <2>1, <3>1, <3>2
  <2> QED
    BY <1>2, <1>3, <2>1, <2>2, <2>3, Answers DEF SaysIfHeard
<1>8. CASE HearAccept(p)
  <2>1. /\ Listens(p, "accept") /\ peers'[p] = peers[p]
        /\ \/ /\ link[p] = Phase("requesting", m.from, m.nonce)
              /\ link'[p] = Phase("holding", m.from, m.nonce) /\ outbox'[p] = outbox[p]
           \/ /\ link[p] # Phase("requesting", m.from, m.nonce)
              /\ link'[p] = link[p] /\ SaysIfHeard(p, "unlink", m.from, 0)
    BY <1>1, <1>8, HearAcceptDoes
  <2>2. /\ FrontMoves(p) /\ turn' = turn /\ inbox[p] # <<>> /\ inbox'[p] = Tail(inbox[p])
        /\ m.kind = "accept"
    BY <2>1 DEF Listens
  <2>3. m.from \in Player /\ m.from # p /\ m.nonce \in 0..MaxTurns
    BY <1>3, <2>2, HeadNews
  <2>4. CASE /\ link[p] = Phase("requesting", m.from, m.nonce)
             /\ link'[p] = Phase("holding", m.from, m.nonce) /\ outbox'[p] = outbox[p]
    <3>1. link[p].phase = "requesting" /\ link[p].peer = m.from
      BY <2>4, PhaseIs DEF Phases
    <3>2. m.from \in peers[p]
      BY <3>1, EndIs, NoLinkIs
    <3>3. link'[p] \in Linking /\ link'[p].peer = m.from /\ link'[p].phase = "holding"
      BY <2>3, <2>4, PhaseIs DEF Phases
    <3>4. FrontTyped(p)'
      BY <1>1, <2>1, <3>2, <3>3 DEF FrontTyped
    <3> QED
      BY <1>2, <2>2, <2>4, <3>3, <3>4, Answers
  <2>5. CASE link'[p] = link[p] /\ SaysIfHeard(p, "unlink", m.from, 0)
    <3>1. FrontTyped(p)'
      BY <1>1, <2>1, <2>5 DEF FrontTyped
    <3> QED
      BY <1>2, <1>3, <2>2, <2>3, <2>5, <3>1, Answers DEF SaysIfHeard
  <2> QED
    BY <2>1, <2>4, <2>5
<1>9. CASE HearDecline(p)
  <2>1. /\ Listens(p, "decline") /\ peers'[p] = peers[p] /\ outbox'[p] = outbox[p]
        /\ link'[p] = link[p] \/ link'[p] = NoLink
    BY <1>1, <1>9, HearDeclineDoes
  <2>2. FrontTyped(p)' /\ (link'[p] = link[p] \/ link'[p].phase # "incoming")
    BY <1>1, <2>1, NoLinkIs DEF FrontTyped
  <2> QED
    BY <1>2, <2>1, <2>2, Answers DEF Listens
<1>10. CASE HearStart(p)
  <2>1. /\ Listens(p, "start") /\ peers'[p] = peers[p]
        /\ \/ link'[p] = link[p] /\ outbox'[p] = outbox[p]
           \/ /\ link[p] = Phase("starting", m.from, m.nonce)
              /\ \/ link'[p] = Phase("plugged", m.from, m.nonce) /\ outbox'[p] = outbox[p]
                 \/ link'[p] = NoLink /\ SaysIfHeard(p, "unlink", m.from, 0)
    BY <1>1, <1>10, HearStartDoes
  <2>2. /\ FrontMoves(p) /\ turn' = turn /\ inbox[p] # <<>> /\ inbox'[p] = Tail(inbox[p])
        /\ m.kind = "start"
    BY <2>1 DEF Listens
  <2>3. m.from \in Player /\ m.from # p /\ m.nonce \in 0..MaxTurns
    BY <1>3, <2>2, HeadNews
  <2>4. FrontTyped(p)' /\ (link'[p] = link[p] \/ link'[p].phase # "incoming")
    <3>1. CASE link'[p] = link[p] \/ link'[p] = NoLink
      BY <1>1, <2>1, <3>1, NoLinkIs DEF FrontTyped
    <3>2. CASE /\ link[p] = Phase("starting", m.from, m.nonce)
               /\ link'[p] = Phase("plugged", m.from, m.nonce)
      <4>1. link[p].phase = "starting" /\ link[p].peer = m.from
        BY <3>2, PhaseIs DEF Phases
      <4>2. m.from \in peers[p]
        BY <4>1, EndIs, NoLinkIs
      <4>3. link'[p] \in Linking /\ link'[p].peer = m.from /\ link'[p].phase = "plugged"
        BY <2>3, <3>2, PhaseIs DEF Phases
      <4> QED
        BY <1>1, <2>1, <4>2, <4>3 DEF FrontTyped
    <3> QED
      BY <2>1, <3>1, <3>2
  <2> QED
    BY <1>2, <1>3, <2>1, <2>2, <2>3, <2>4, Answers DEF SaysIfHeard
<1>11. CASE HearUnlink(p)
  <2>1. /\ Listens(p, "unlink") /\ peers'[p] = peers[p] /\ outbox'[p] = outbox[p]
        /\ link'[p] = link[p] \/ link'[p] = NoLink
    BY <1>1, <1>11, HearUnlinkDoes
  <2>2. FrontTyped(p)' /\ (link'[p] = link[p] \/ link'[p].phase # "incoming")
    BY <1>1, <2>1, NoLinkIs DEF FrontTyped
  <2> QED
    BY <1>2, <2>1, <2>2, Answers DEF Listens
<1>12. CASE HearLeft(p)
  <2>1. /\ Listens(p, "left") /\ peers'[p] = peers[p] \ {m.from} /\ outbox'[p] = outbox[p]
        /\ link'[p] = IF link[p].peer = m.from THEN NoLink ELSE link[p]
    BY <1>1, <1>12, HearLeftDoes
  <2>2. FrontTyped(p)' /\ (link'[p] = link[p] \/ link'[p].phase # "incoming")
    BY <1>1, <2>1, NoLinkIs DEF FrontTyped
  <2> QED
    BY <1>2, <2>1, <2>2, Answers DEF Listens
<1>13. CASE Pull(p)
  <2> DEFINE q == link[p].peer
  <2>1. /\ FrontMoves(p) /\ inbox'[p] = inbox[p] /\ peers'[p] = peers[p]
        /\ turn < MaxTurns /\ turn' = turn + 1
        /\ link[p] # NoLink /\ link'[p] = NoLink
        /\ SaysIfHeard(p, "decline", q, link[p].nonce) \/ SaysIfHeard(p, "unlink", q, 0)
    BY <1>1, <1>13, PullDoes
  <2>2. q \in Player /\ q # p /\ link[p].nonce \in 0..MaxTurns
    BY <2>1, EndIs
  <2> HIDE DEF q
  <2>3. FrontTyped(p)' /\ link'[p].phase # "incoming" /\ turn' \in turn..MaxTurns
    BY <1>1, <1>2, <2>1, NoLinkIs DEF FrontTyped
  <2> QED
    BY <1>3, <2>1, <2>2, <2>3, Answers DEF SaysIfHeard
<1> QED
  BY <1>4, <1>5, <1>6, <1>7, <1>8, <1>9, <1>10, <1>11, <1>12, <1>13 DEF Frontend

\* What a line of no job, or of one, carries.
LEMMA CarryIs ==
    ASSUME NEW do
    PROVE  /\ Carry(<<>>, do) = {}
           /\ \A j : Carry(<<j>>, do) = IF j.do = do THEN {j.message} ELSE {}
<1>1. ToSet(<<>>) = {} /\ \A j : ToSet(<<j>>) = {j}
  BY DEF ToSet
<1> QED
  BY <1>1 DEF Carry

\* A job is what it was made of.
LEMMA JobIs ==
    ASSUME NEW do, NEW m, NEW todo
    PROVE  /\ Job(do, m, todo).do = do /\ Job(do, m, todo).message = m /\ Job(do, m, todo).todo = todo
           /\ Deliver(m).do = "deliver" /\ Deliver(m).message = m
BY DEF Job, Deliver

\* What the lines a reader can have carry.
LEMMA JobCarries ==
    ASSUME NEW m
    PROVE  /\ Carry(<<>>, "deliver") = {} /\ Carry(<<>>, "record") = {}
           /\ Carry(<<Deliver(m)>>, "deliver") = {m} /\ Carry(<<Deliver(m)>>, "record") = {}
           /\ Carry(<<Job("record", m, {})>>, "record") = {m}
           /\ Carry(<<Job("record", m, {})>>, "deliver") = {}
<1>1. \A j : Carry(<<j>>, "deliver") = IF j.do = "deliver" THEN {j.message} ELSE {}
  BY CarryIs
<1>2. \A j : Carry(<<j>>, "record") = IF j.do = "record" THEN {j.message} ELSE {}
  BY CarryIs
<1>3. /\ Deliver(m).do = "deliver" /\ Deliver(m).message = m
      /\ Job("record", m, {}).do = "record" /\ Job("record", m, {}).message = m
  BY JobIs
<1> QED
  BY <1>1, <1>2, <1>3, CarryIs

\* A reader that takes a message and has these jobs of it changes nothing else.
LEMMA Routing ==
    ASSUME Wired, NEW p \in Player, NEW kind, NEW jobs, Takes(p, kind), Then(p, jobs),
           UNCHANGED <<conns, closing, inbox, frontVars>>
    PROVE  Routes(p, kind, jobs)
<1>1. DOMAIN work = Thread /\ DOMAIN outbox = Player /\ Reader(p) \in Thread
  BY Threads DEF Wired
<1> QED
  BY <1>1 DEF Takes, Then, Routes, RouteMoves, frontVars

\* The message a reader takes was in its outbox, and says what it is.
LEMMA HeadMail ==
    ASSUME Types, NEW p \in Player, outbox[p] # <<>>
    PROVE  LET m == Head(outbox[p])
           IN /\ m \in Mail(p) /\ m \in ToSet(outbox[p])
              /\ m = Say(m.kind, p, m.to, m.nonce)
              /\ m.kind \in UrgentKinds /\ m.from = p /\ m.to \in Player /\ m.to # p
              /\ m.nonce \in 0..MaxTurns
<1> DEFINE m == Head(outbox[p])
<1>1. outbox[p] \in Seq(Mail(p))
  BY DEF Types, Wired, OutTyped
<1>2. m \in Mail(p) /\ m \in ToSet(outbox[p])
  BY <1>1, TailElements
<1>3. /\ m \in [kind : UrgentKinds, from : Player, to : Player, nonce : 0..MaxTurns]
      /\ m.from = p /\ m.to # p
  BY <1>2 DEF Mail, Letter
<1>4. m = [kind |-> m.kind, from |-> m.from, to |-> m.to, nonce |-> m.nonce]
  BY <1>3
<1> QED
  BY <1>2, <1>3, <1>4 DEF Say

\* What a reader may have to do with a message.
LEMMA TaskIs ==
    ASSUME NEW p \in Player, NEW m \in Mail(p)
    PROVE  /\ m.kind = "request" => Job("record", m, {}) \in Task(p)
           /\ Deliver(m) \in Task(p)
           /\ Deliver(Answer(m, "decline")) \in Task(p)
           /\ Deliver(Answer(m, "unlink")) \in Task(p)
<1>1. /\ m \in Letter /\ m.from = p /\ m.to # p
      /\ m.to \in Player /\ m.nonce \in 0..MaxTurns
  BY DEF Mail, Letter
<1>2. \A kind \in {"decline", "unlink"} : Answer(m, kind) \in News(p) /\ Answer(m, kind).kind = kind
  BY <1>1 DEF Answer, Say, News, Letter, UrgentKinds
<1> QED
  BY <1>1, <1>2 DEF Task, Ask

\* What the roster, the reader and the outbox keep of their types.
LEMMA RouteTypes ==
    ASSUME Types, NEW p \in Player, RouteMoves(p),
           outbox'[p] = outbox[p] \/ (outbox[p] # <<>> /\ outbox'[p] = Tail(outbox[p])),
           work'[Reader(p)] = <<>> \/ \E j \in Task(p) : work'[Reader(p)] = <<j>>,
           \A l \in links' : l \in links \/ \E a, b \in Player : l = <<a, b>> /\ a # b,
           \A r \in requests' : r \in requests
               \/ \E a, b \in Player, n \in 0..MaxTurns : r = <<a, b, n>> /\ a # b
    PROVE  Types'
<1>1. Typed'
  BY DEF Types, Typed, RouteMoves
<1>2. /\ DOMAIN work' = Thread /\ DOMAIN outbox' = Player /\ DOMAIN inbox' = Player
      /\ DOMAIN link' = Player /\ DOMAIN peers' = Player
  BY DEF Types, Wired, RouteMoves
<1>3. ASSUME NEW x \in Player PROVE OutTyped(x)'
  <2>1. outbox[x] \in Seq(Mail(x)) /\ outbox[p] \in Seq(Mail(p))
    BY DEF Types, Wired, OutTyped
  <2>2. outbox[p] # <<>> => Tail(outbox[p]) \in Seq(Mail(p))
    BY <2>1, TailPlaces
  <2> QED
    BY <2>1, <2>2 DEF OutTyped, RouteMoves
<1>4. ASSUME NEW x \in Player PROVE InTyped(x)'
  BY DEF Types, Wired, InTyped, RouteMoves
<1>5. ASSUME NEW x \in Player PROVE ReadTyped(x)'
  <2>1. x = p \/ work'[Reader(x)] = work[Reader(x)]
    BY Threads DEF RouteMoves
  <2> QED
    BY <2>1 DEF Types, Wired, ReadTyped
<1>6. ASSUME NEW x \in Player PROVE CloseTyped(x)'
  <2>1. work'[Closer(x)] = work[Closer(x)] /\ closing' = closing
    BY Threads DEF RouteMoves
  <2> QED
    BY <2>1 DEF Types, Wired, CloseTyped
<1>7. ASSUME NEW x \in Player PROVE FrontTyped(x)'
  BY DEF Types, Wired, FrontTyped, RouteMoves
<1> QED
  BY <1>1, <1>2, <1>3, <1>4, <1>5, <1>6, <1>7 DEF Types, Wired

\* What each routing step does to the roster and what the reader has to do then.
LEMMA RouteRequestDoes ==
    ASSUME Wired, NEW p \in Player, RouteRequest(p)
    PROVE  LET m == Head(outbox[p])
           IN /\ UNCHANGED <<links, requests>>
              /\ \/ Routes(p, "request", <<Job("record", m, {})>>)
                 \/ Routes(p, "request", <<Deliver(Answer(m, "decline"))>>)
<1> DEFINE m == Head(outbox[p])
           jobs == IF m.to \in conns \union {Host} THEN <<Job("record", m, {})>>
                   ELSE <<Deliver(Answer(m, "decline"))>>
<1>1. Takes(p, "request") /\ Then(p, jobs) /\ UNCHANGED <<rosterVars, inbox, frontVars>>
  BY DEF RouteRequest
<1>2. Routes(p, "request", jobs)
  BY <1>1, Routing DEF rosterVars
<1> QED
  BY <1>1, <1>2 DEF rosterVars

LEMMA RouteAcceptDoes ==
    ASSUME Wired, NEW p \in Player, RouteAccept(p)
    PROVE  LET m == Head(outbox[p])
               ask == <<m.to, m.from, m.nonce>>
           IN \/ /\ ask \notin requests /\ requests' = requests /\ links' = links
                 /\ Routes(p, "accept", <<>>)
              \/ /\ ask \in requests /\ requests' = requests \ {ask} /\ links' = links
                 /\ IsLinked(m.from) \/ IsLinked(m.to)
                 /\ Routes(p, "accept", <<Deliver(Answer(m, "unlink"))>>)
              \/ /\ ask \in requests /\ requests' = requests \ {ask}
                 /\ ~ IsLinked(m.from) /\ ~ IsLinked(m.to)
                 /\ links' = links \union {<<m.to, m.from>>}
                 /\ Routes(p, "accept", <<Deliver(m)>>)
<1> DEFINE m == Head(outbox[p])
           ask == <<m.to, m.from, m.nonce>>
           busy == IsLinked(m.from) \/ IsLinked(m.to)
           jobs == IF ask \notin requests THEN <<>>
                   ELSE IF busy THEN <<Deliver(Answer(m, "unlink"))>> ELSE <<Deliver(m)>>
<1>1. /\ Takes(p, "accept") /\ Then(p, jobs) /\ UNCHANGED <<conns, closing, inbox, frontVars>>
      /\ requests' = requests \ {ask}
      /\ links' = links \union (IF ask \in requests /\ ~ busy THEN {<<m.to, m.from>>} ELSE {})
  BY DEF RouteAccept
<1>2. Routes(p, "accept", jobs)
  BY <1>1, Routing
<1> QED
  BY <1>1, <1>2

LEMMA RouteDeclineDoes ==
    ASSUME Wired, NEW p \in Player, RouteDecline(p)
    PROVE  LET m == Head(outbox[p])
           IN /\ links' = links /\ requests' \subseteq requests
              /\ Routes(p, "decline", <<>>) \/ Routes(p, "decline", <<Deliver(m)>>)
<1> DEFINE m == Head(outbox[p])
           jobs == IF <<m.to, m.from, m.nonce>> \in requests THEN <<Deliver(m)>> ELSE <<>>
<1>1. /\ Takes(p, "decline") /\ Then(p, jobs)
      /\ UNCHANGED <<conns, closing, links, endedBy, inbox, frontVars>>
      /\ requests' = requests \ {<<m.to, m.from, m.nonce>>}
  BY DEF RouteDecline
<1>2. Routes(p, "decline", jobs)
  BY <1>1, Routing
<1> QED
  BY <1>1, <1>2

LEMMA RouteStartDoes ==
    ASSUME Wired, NEW p \in Player, RouteStart(p)
    PROVE  LET m == Head(outbox[p])
           IN /\ UNCHANGED <<links, requests>>
              /\ Routes(p, "start", <<>>) \/ Routes(p, "start", <<Deliver(m)>>)
<1> DEFINE m == Head(outbox[p])
           jobs == IF AreLinked(m.from, m.to) THEN <<Deliver(m)>> ELSE <<>>
<1>1. Takes(p, "start") /\ Then(p, jobs) /\ UNCHANGED <<rosterVars, inbox, frontVars>>
  BY DEF RouteStart
<1>2. Routes(p, "start", jobs)
  BY <1>1, Routing DEF rosterVars
<1> QED
  BY <1>1, <1>2 DEF rosterVars

LEMMA RouteUnlinkDoes ==
    ASSUME Wired, NEW p \in Player, RouteUnlink(p)
    PROVE  LET m == Head(outbox[p])
           IN /\ requests' = {r \in requests : {r[1], r[2]} # {m.from, m.to}}
              /\ links' = links \ {<<m.from, m.to>>, <<m.to, m.from>>}
              /\ \/ Routes(p, "unlink", <<>>)
                 \/ AreLinked(m.from, m.to) /\ Routes(p, "unlink", <<Deliver(m)>>)
<1> DEFINE m == Head(outbox[p])
           jobs == IF AreLinked(m.from, m.to) THEN <<Deliver(m)>> ELSE <<>>
<1>1. /\ Takes(p, "unlink") /\ Then(p, jobs) /\ UNCHANGED <<conns, closing, inbox, frontVars>>
      /\ requests' = {r \in requests : {r[1], r[2]} # {m.from, m.to}}
      /\ links' = links \ Pairs(m)
  BY DEF RouteUnlink
<1>2. Routes(p, "unlink", jobs)
  BY <1>1, Routing
<1> QED
  BY <1>1, <1>2 DEF Pairs

\* Recording a request: it is on record and delivered, or the asker is declined.
LEMMA RecordRequestDoes ==
    ASSUME Types, NEW p \in Player, RecordRequest(p)
    PROVE  \E m \in Mail(p) \cap Ask :
              /\ work[Reader(p)] = <<Job("record", m, {})>>
              /\ RouteMoves(p) /\ outbox'[p] = outbox[p] /\ links' = links
              /\ \/ /\ requests' = requests
                    /\ work'[Reader(p)] = <<Deliver(Answer(m, "decline"))>>
                 \/ /\ ~ IsLinked(m.from) /\ ~ IsLinked(m.to)
                    /\ requests' = {r \in requests : r[1] # m.from} \union {<<m.from, m.to, m.nonce>>}
                    /\ work'[Reader(p)] = <<Deliver(m)>>
<1>1. PICK j \in Task(p) : work[Reader(p)] = <<j>>
  BY DEF RecordRequest, Types, Wired, ReadTyped
<1>2. Head(work[Reader(p)]) = j /\ j.do = "record"
  BY <1>1 DEF RecordRequest
<1>3. PICK m \in Mail(p) \cap Ask : j = Job("record", m, {})
  BY <1>2, JobIs DEF Task
<1>4. m = Head(work[Reader(p)]).message
  BY <1>2, <1>3, JobIs
<1> DEFINE busy == IsLinked(m.from) \/ IsLinked(m.to)
<1>5. /\ requests' = IF busy THEN requests
                     ELSE {r \in requests : r[1] # m.from} \union {<<m.from, m.to, m.nonce>>}
      /\ work' = [work EXCEPT ![Reader(p)] = <<Deliver(IF busy THEN Answer(m, "decline") ELSE m)>>]
      /\ UNCHANGED <<conns, closing, links, endedBy, outbox, inbox, frontVars>>
  BY <1>4 DEF RecordRequest
<1>6. DOMAIN work = Thread /\ DOMAIN outbox = Player /\ Reader(p) \in Thread
  BY Threads DEF Types, Wired
<1>7. /\ DOMAIN work' = Thread
      /\ \A t \in Thread : t # Reader(p) => work'[t] = work[t]
      /\ work'[Reader(p)] = <<Deliver(IF busy THEN Answer(m, "decline") ELSE m)>>
  BY <1>5, <1>6
<1>8. RouteMoves(p)
  BY <1>5, <1>6, <1>7 DEF RouteMoves, frontVars
<1> QED
  BY <1>1, <1>3, <1>5, <1>7, <1>8

-----------------------------------------------------------------------------
(* Types.                                                                  *)

\* No routing step, no step of a frontend, no delivery and no close breaks the types.
LEMMA RoutedTypes ==
    ASSUME Types, NEW p \in Player, Route(p)
    PROVE  Types'
<1> DEFINE m == Head(outbox[p])
<1>1. Wired
  BY DEF Types
<1>2. ASSUME NEW kind, NEW jobs, Routes(p, kind, jobs),
             jobs = <<>> \/ \E j \in Task(p) : jobs = <<j>>,
             requests' \subseteq requests,
             \A l \in links' : l \in links \/ \E a, b \in Player : l = <<a, b>> /\ a # b
      PROVE  Types'
  BY <1>2, RouteTypes DEF Routes
<1>3. ASSUME NEW kind, NEW jobs, Routes(p, kind, jobs)
      PROVE  /\ kind = "request" => Job("record", m, {}) \in Task(p)
             /\ Deliver(m) \in Task(p)
             /\ Deliver(Answer(m, "decline")) \in Task(p)
             /\ Deliver(Answer(m, "unlink")) \in Task(p)
             /\ m.from = p /\ m.to \in Player /\ m.to # p
  <2>1. m \in Mail(p) /\ m.kind = kind /\ m.from = p /\ m.to \in Player /\ m.to # p
    BY <1>3, HeadMail DEF Routes
  <2> QED
    BY <2>1, TaskIs
<1> HIDE DEF m
<1>4. CASE RouteRequest(p)
  <2>1. /\ UNCHANGED <<links, requests>>
        /\ \/ Routes(p, "request", <<Job("record", m, {})>>)
           \/ Routes(p, "request", <<Deliver(Answer(m, "decline"))>>)
    BY <1>1, <1>4, RouteRequestDoes DEF m
  <2> QED
    BY <1>2, <1>3, <2>1
<1>5. CASE RouteAccept(p)
  <2>1. /\ requests' \subseteq requests
        /\ links' \subseteq links \union {<<m.to, m.from>>}
        /\ \E jobs \in {<<>>, <<Deliver(Answer(m, "unlink"))>>, <<Deliver(m)>>} :
              Routes(p, "accept", jobs)
    BY <1>1, <1>5, RouteAcceptDoes DEF m
  <2>2. PICK jobs \in {<<>>, <<Deliver(Answer(m, "unlink"))>>, <<Deliver(m)>>} :
              Routes(p, "accept", jobs)
    BY <2>1
  <2> QED
    BY <1>2, <1>3, <2>1, <2>2
<1>6. CASE RouteDecline(p)
  <2>1. /\ links' = links /\ requests' \subseteq requests
        /\ Routes(p, "decline", <<>>) \/ Routes(p, "decline", <<Deliver(m)>>)
    BY <1>1, <1>6, RouteDeclineDoes DEF m
  <2> QED
    BY <1>2, <1>3, <2>1
<1>7. CASE RouteStart(p)
  <2>1. /\ UNCHANGED <<links, requests>>
        /\ Routes(p, "start", <<>>) \/ Routes(p, "start", <<Deliver(m)>>)
    BY <1>1, <1>7, RouteStartDoes DEF m
  <2> QED
    BY <1>2, <1>3, <2>1
<1>8. CASE RouteUnlink(p)
  <2>1. /\ links' \subseteq links /\ requests' \subseteq requests
        /\ Routes(p, "unlink", <<>>) \/ Routes(p, "unlink", <<Deliver(m)>>)
    BY <1>1, <1>8, RouteUnlinkDoes DEF m
  <2> QED
    BY <1>2, <1>3, <2>1
<1>9. CASE RecordRequest(p)
  <2>1. PICK o \in Mail(p) \cap Ask :
              /\ RouteMoves(p) /\ outbox'[p] = outbox[p] /\ links' = links
              /\ requests' \subseteq requests \union {<<o.from, o.to, o.nonce>>}
              /\ work'[Reader(p)] = <<Deliver(Answer(o, "decline"))>> \/ work'[Reader(p)] = <<Deliver(o)>>
    BY <1>9, RecordRequestDoes
  <2>2. o.from = p /\ o.to \in Player /\ o.to # p /\ o.nonce \in 0..MaxTurns
    BY DEF Mail, Letter
  <2>3. Deliver(Answer(o, "decline")) \in Task(p) /\ Deliver(o) \in Task(p)
    BY TaskIs
  <2>4. \A r \in requests' : r \in requests
               \/ \E a, b \in Player, n \in 0..MaxTurns : r = <<a, b, n>> /\ a # b
    BY <2>1, <2>2
  <2> QED
    BY <2>1, <2>3, <2>4, RouteTypes
<1> QED
  BY <1>4, <1>5, <1>6, <1>7, <1>8, <1>9 DEF Route

LEMMA FrontTypes ==
    ASSUME Types, NEW p \in Player, FrontStep(p)
    PROVE  Types'
<1>1. /\ FrontMoves(p) /\ FrontTyped(p)' /\ turn' \in turn..MaxTurns
      /\ outbox'[p] = outbox[p] \/ \E m \in Mail(p) : Says(p, m)
      /\ inbox'[p] = inbox[p] \/ (inbox[p] # <<>> /\ inbox'[p] = Tail(inbox[p]))
  BY DEF FrontStep
<1>2. turn' \in 0..MaxTurns
  BY <1>1, TurnIn
<1>3. Typed'
  BY <1>1, <1>2 DEF Types, Typed, FrontMoves, rosterVars
<1>4. /\ DOMAIN work' = Thread /\ DOMAIN outbox' = Player /\ DOMAIN inbox' = Player
      /\ DOMAIN link' = Player /\ DOMAIN peers' = Player
  BY <1>1 DEF Types, Wired, FrontMoves
<1>5. ASSUME NEW x \in Player PROVE OutTyped(x)'
  <2>1. outbox[x] \in Seq(Mail(x)) /\ outbox[p] \in Seq(Mail(p))
    BY DEF Types, Wired, OutTyped
  <2>2. \A m \in Mail(p) : Append(outbox[p], m) \in Seq(Mail(p))
    BY <2>1, AppendPlaces
  <2> QED
    BY <1>1, <2>1, <2>2 DEF OutTyped, FrontMoves, Says
<1>6. ASSUME NEW x \in Player PROVE InTyped(x)'
  <2> DEFINE Box(y) == News(y) \union {Left(c) : c \in closing}
  <2>1. inbox[x] \in Seq(Box(x)) /\ inbox[p] \in Seq(Box(p))
    BY DEF Types, Wired, InTyped
  <2>2. inbox[p] # <<>> => Tail(inbox[p]) \in Seq(Box(p))
    BY <2>1, TailPlaces
  <2>3. closing' = closing
    BY <1>1 DEF FrontMoves, rosterVars
  <2>4. inbox'[x] \in Seq(Box(x))
    BY <1>1, <2>1, <2>2 DEF FrontMoves
  <2> QED
    BY <2>3, <2>4 DEF InTyped
<1>7. ASSUME NEW x \in Player PROVE ReadTyped(x)' /\ CloseTyped(x)'
  BY <1>1 DEF Types, Wired, ReadTyped, CloseTyped, FrontMoves, rosterVars
<1>8. ASSUME NEW x \in Player PROVE FrontTyped(x)'
  BY <1>1 DEF Types, Wired, FrontTyped, FrontMoves
<1> QED
  BY <1>3, <1>4, <1>5, <1>6, <1>7, <1>8 DEF Types, Wired

\* What is at the head of a line of jobs is a task of a reader or a duty of a closer.
LEMMA ThreadJobs ==
    ASSUME Types, NEW t \in Thread, work[t] # <<>>
    PROVE  LET j == Head(work[t])
           IN \/ \E p \in Player : /\ t = Reader(p) /\ j \in Task(p)
                                   /\ work[t] = <<j>> /\ Tail(work[t]) = <<>>
              \/ \E c \in Player \cap closing : /\ t = Closer(c) /\ j \in Duty(c)
                                             /\ work[t] \in Seq(Duty(c))
                                             /\ Tail(work[t]) \in Seq(Duty(c))
<1>1. PICK p \in Player : t = Reader(p) \/ t = Closer(p)
  BY Threads
<1>2. CASE t = Reader(p)
  <2>1. PICK j \in Task(p) : work[t] = <<j>>
    BY <1>2 DEF Types, Wired, ReadTyped
  <2>2. Head(work[t]) = j /\ Tail(work[t]) = <<>>
    BY <2>1
  <2> QED
    BY <1>2, <2>1, <2>2
<1>3. CASE t = Closer(p)
  <2>1. work[t] \in Seq(Duty(p)) /\ p \in closing
    BY <1>3 DEF Types, Wired, CloseTyped
  <2>2. Head(work[t]) \in Duty(p) /\ Tail(work[t]) \in Seq(Duty(p))
    BY <2>1, TailElements, TailPlaces
  <2> QED
    BY <1>3, <2>1, <2>2
<1> QED
  BY <1>1, <1>2, <1>3

\* A delivering step takes the head of the line and hands it over.
LEMMA DeliveringDoes ==
    ASSUME Types, NEW t \in Thread, Delivering(t)
    PROVE  Delivers(t, Head(work[t]).message)
<1> DEFINE j == Head(work[t])
           m == j.message
<1>1. /\ work[t] # <<>> /\ j.do = "deliver"
      /\ work' = [work EXCEPT ![t] = Tail(@)]
      /\ UNCHANGED <<rosterVars, outbox, frontVars>>
  BY DEF Delivering, DoesNext, Done
<1>2. PICK box \in (IF m.to = Host THEN {Append(inbox[m.to], m)}
                    ELSE IF m.to \in conns \ closing THEN Overtaking(inbox[m.to], m)
                    ELSE {inbox[m.to]}) :
            inbox' = [inbox EXCEPT ![m.to] = box]
  BY DEF Delivering
<1>3. \/ \E p \in Player :
            /\ t = Reader(p) /\ work[t] = <<Deliver(m)>> /\ Tail(work[t]) = <<>>
            /\ (m \in Mail(p) \/ (m \in News(p) /\ m.kind \in {"decline", "unlink"}))
      \/ \E c \in Player \cap closing : t = Closer(c) /\ \E q \in Player \ {c} : m = Say("unlink", c, q, 0)
  <2>1. CASE \E p \in Player : t = Reader(p) /\ j \in Task(p) /\ work[t] = <<j>> /\ Tail(work[t]) = <<>>
    <3>1. PICK p \in Player : t = Reader(p) /\ j \in Task(p) /\ work[t] = <<j>> /\ Tail(work[t]) = <<>>
      BY <2>1
    <3>2. \/ \E o \in Mail(p) : j = Deliver(o)
          \/ \E o \in News(p) : j = Deliver(o) /\ o.kind \in {"decline", "unlink"}
      BY <1>1, <3>1, JobIs DEF Task
    <3>3. j = Deliver(m) /\ (m \in Mail(p) \/ (m \in News(p) /\ m.kind \in {"decline", "unlink"}))
      BY <3>2, JobIs
    <3> QED
      BY <3>1, <3>3
  <2>2. CASE \E c \in Player \cap closing : t = Closer(c) /\ j \in Duty(c)
    <3>1. PICK c \in Player \cap closing : t = Closer(c) /\ j \in Duty(c)
      BY <2>2
    <3>2. PICK q \in Player \ {c} : j = Deliver(Say("unlink", c, q, 0))
      BY <1>1, <3>1, JobIs DEF Duty
    <3>3. m = Say("unlink", c, q, 0)
      BY <3>2, JobIs
    <3> QED
      BY <3>1, <3>3
  <2> QED
    BY <1>1, <2>1, <2>2, ThreadJobs
<1>4. m.to \in Player /\ m \in News(m.to)
  <2>1. CASE \E p \in Player : m \in Mail(p) \/ m \in News(p)
    BY <2>1 DEF Mail, News, Letter
  <2>2. CASE \E c \in Player, q \in Player : c # q /\ m = Say("unlink", c, q, 0)
    <3>1. "unlink" \in UrgentKinds /\ 0 \in 0..MaxTurns
      BY LinkBoundsAssumption DEF UrgentKinds
    <3>2. PICK c \in Player, q \in Player : c # q /\ m = Say("unlink", c, q, 0)
      BY <2>2
    <3> QED
      BY <3>1, <3>2, MailSaid
  <2> QED
    BY <1>3, <2>1, <2>2
<1> HIDE DEF m
<1> DEFINE Box == News(m.to) \union {Left(c) : c \in closing}
<1>5. DOMAIN work = Thread /\ DOMAIN inbox = Player /\ inbox[m.to] \in Seq(Box) /\ m \in Box
  BY <1>4 DEF Types, Wired, InTyped
<1>6. \/ inbox'[m.to] = inbox[m.to] /\ m.to \notin Staying
      \/ /\ inbox'[m.to] \in Seq(Box)
         /\ ToSet(inbox'[m.to]) = ToSet(inbox[m.to]) \union {m}
         /\ Grows(inbox[m.to], inbox'[m.to], m)
  <2>1. inbox'[m.to] = box
    BY <1>2, <1>4, <1>5
  <2> HIDE DEF Box
  <2>2. CASE m.to = Host
    <3>1. box = Append(inbox[m.to], m)
      BY <1>2, <2>2
    <3> QED
      BY <1>5, <2>1, <3>1, AppendPlaces
  <2>3. CASE m.to # Host /\ m.to \in conns \ closing
    <3>1. PICK i \in (LastUrgent(inbox[m.to]) + 1)..(Len(inbox[m.to]) + 1) : box = InsertAt(inbox[m.to], i, m)
      BY <1>2, <2>3 DEF Overtaking
    <3> QED
      BY <1>5, <2>1, <3>1, InsertPlaces
  <2>4. CASE m.to # Host /\ m.to \notin conns \ closing
    <3>1. m.to \in Client /\ m.to \in closing
      BY <1>4, <2>4 DEF Player, Types, Typed
    <3> QED
      BY <1>2, <2>1, <2>4, <3>1 DEF Staying
  <2> QED
    BY <2>2, <2>3, <2>4
<1>7. /\ DOMAIN work' = Thread /\ DOMAIN inbox' = Player
      /\ \A u \in Thread : u # t => work'[u] = work[u]
      /\ work'[t] = Tail(work[t])
      /\ \A y \in Player : y # m.to => inbox'[y] = inbox[y]
  BY <1>1, <1>2, <1>4, <1>5
<1>8. Hands(t, m)
  BY <1>1, <1>3, <1>7 DEF Hands
<1>9. Delivers(t, m)
  BY <1>1, <1>4, <1>6, <1>7, <1>8 DEF Delivers
<1> QED
  BY <1>9 DEF m

LEMMA DeliversTypes ==
    ASSUME Types, NEW t \in Thread, NEW m, Delivers(t, m)
    PROVE  Types'
<1>0. \/ \E p \in Player : t = Reader(p) /\ work'[t] = <<>>
      \/ \E c \in Player : t = Closer(c) /\ work[t] # <<>> /\ work'[t] = Tail(work[t])
  <2>1. Hands(t, m)
    BY DEF Delivers
  <2> QED
    BY <2>1 DEF Hands
<1>1. Typed'
  BY DEF Types, Typed, Delivers, rosterVars, frontVars
<1>2. /\ DOMAIN work' = Thread /\ DOMAIN outbox' = Player /\ DOMAIN inbox' = Player
      /\ DOMAIN link' = Player /\ DOMAIN peers' = Player
  BY DEF Types, Wired, Delivers, frontVars
<1>3. ASSUME NEW x \in Player PROVE OutTyped(x)' /\ FrontTyped(x)'
  BY DEF Types, Wired, OutTyped, FrontTyped, Delivers, frontVars
<1>4. ASSUME NEW x \in Player PROVE InTyped(x)'
  <2>1. closing' = closing
    BY DEF Delivers, rosterVars
  <2>2. inbox'[x] \in Seq(News(x) \union {Left(c) : c \in closing})
    BY DEF Types, Wired, InTyped, Delivers
  <2> QED
    BY <2>1, <2>2 DEF InTyped
<1>5. ASSUME NEW x \in Player PROVE ReadTyped(x)'
  <2>1. CASE t = Reader(x)
    <3>1. work'[Reader(x)] = <<>>
      BY <1>0, <2>1, Threads
    <3> QED
      BY <3>1 DEF ReadTyped
  <2>2. CASE t # Reader(x)
    <3>1. work'[Reader(x)] = work[Reader(x)]
      BY <2>2, Threads DEF Delivers
    <3> QED
      BY <3>1 DEF Types, Wired, ReadTyped
  <2> QED
    BY <2>1, <2>2
<1>6. ASSUME NEW x \in Player PROVE CloseTyped(x)'
  <2>1. work[Closer(x)] \in Seq(Duty(x)) /\ (work[Closer(x)] # <<>> => x \in closing) /\ closing' = closing
    BY DEF Types, Wired, CloseTyped, Delivers, rosterVars
  <2>2. CASE t = Closer(x)
    <3>1. work[Closer(x)] # <<>> /\ work'[Closer(x)] = Tail(work[Closer(x)])
      BY <1>0, <2>2, Threads
    <3>2. work'[Closer(x)] \in Seq(Duty(x))
      BY <2>1, <3>1, TailPlaces
    <3> QED
      BY <2>1, <3>1, <3>2 DEF CloseTyped
  <2>3. CASE t # Closer(x)
    <3>1. work'[Closer(x)] = work[Closer(x)]
      BY <2>3, Threads DEF Delivers
    <3> QED
      BY <2>1, <3>1 DEF CloseTyped
  <2> QED
    BY <2>2, <2>3
<1> QED
  BY <1>1, <1>2, <1>3, <1>4, <1>5, <1>6 DEF Types, Wired

LEMMA CloseStepTypes ==
    ASSUME Types, CloseStep, DOMAIN work' = Thread,
           conns' \subseteq Client, closing' \subseteq Client, Client \ closing' \subseteq conns',
           \A x \in Player : CloseTyped(x)'
    PROVE  Types'
<1>1. turn' \in 0..MaxTurns
  BY TurnIn DEF CloseStep
<1>2. Typed'
  BY <1>1 DEF Types, Typed, CloseStep
<1>3. /\ DOMAIN outbox' = Player /\ DOMAIN inbox' = Player
      /\ DOMAIN link' = Player /\ DOMAIN peers' = Player
  BY DEF Types, Wired, CloseStep
<1>4. ASSUME NEW x \in Player PROVE OutTyped(x)' /\ ReadTyped(x)' /\ FrontTyped(x)'
  <2>1. <<>> \in Seq(Mail(x))
    OBVIOUS
  <2>2. OutTyped(x) /\ ReadTyped(x) /\ FrontTyped(x)
    BY DEF Types, Wired
  <2>3. /\ work'[Reader(x)] = work[Reader(x)] /\ link' = link /\ peers' = peers
        /\ outbox'[x] = outbox[x] \/ outbox'[x] = <<>>
    BY DEF CloseStep
  <2>4. OutTyped(x)'
    BY <2>1, <2>2, <2>3 DEF OutTyped
  <2>5. ReadTyped(x)'
    BY <2>2, <2>3 DEF ReadTyped
  <2>6. FrontTyped(x)'
    BY <2>2, <2>3 DEF FrontTyped
  <2> QED
    BY <2>4, <2>5, <2>6
<1>5. ASSUME NEW x \in Player PROVE InTyped(x)'
  <2> DEFINE Had == News(x) \union {Left(c) : c \in closing}
             May == News(x) \union {Left(c) : c \in closing'}
  <2>1. Had \subseteq May /\ inbox[x] \in Seq(Had)
    BY DEF Types, Wired, InTyped, CloseStep
  <2>2. \A c \in closing : Left(c) \in Had
    OBVIOUS
  <2> HIDE DEF Had, May
  <2>3. inbox[x] \in Seq(May) /\ <<>> \in Seq(May)
    BY <2>1, SeqMonotonic
  <2>4. \A c \in closing : Append(inbox[x], Left(c)) \in Seq(May)
    BY <2>1, <2>2, <2>3, AppendPlaces
  <2>5. inbox'[x] \in Seq(May)
    BY <2>3, <2>4 DEF CloseStep
  <2> QED
    BY <2>5 DEF InTyped, May
<1> QED
  BY <1>2, <1>3, <1>4, <1>5 DEF Types, Wired

\* The duties of a closer, and what they carry.
LEMMA LeftDuty ==
    ASSUME NEW c
    PROVE  /\ Job("remove", Left(c), {}) \in Duty(c) /\ Job("depart", Left(c), {}) \in Duty(c)
           /\ Announce(Left(c)) \in Duty(c)
           /\ \A j \in Duty(c) : j.do \in {"remove", "depart", "announce"} => j.message = Left(c)
           /\ \A j \in Duty(c) : j.do = "announce" => \A d : Job(j.do, j.message, j.todo \ {d}) \in Duty(c)
<1>1. /\ Job("remove", Left(c), {}) \in Duty(c) /\ Job("depart", Left(c), {}) \in Duty(c)
      /\ Announce(Left(c)) \in Duty(c)
  BY DEF Duty, Announce
<1>2. ASSUME NEW j \in Duty(c), j.do \in {"remove", "depart", "announce"}
      PROVE  /\ j.message = Left(c)
             /\ j.do = "announce" => \E todo \in SUBSET Client : j = Job("announce", Left(c), todo)
  BY <1>2, JobIs DEF Duty
<1>3. ASSUME NEW j \in Duty(c), j.do = "announce", NEW d
      PROVE  Job(j.do, j.message, j.todo \ {d}) \in Duty(c)
  <2>1. PICK todo \in SUBSET Client : j = Job("announce", Left(c), todo)
    BY <1>2, <1>3
  <2>2. Job(j.do, j.message, j.todo \ {d}) = Job("announce", Left(c), todo \ {d})
    BY <2>1 DEF Job
  <2> QED
    BY <2>2 DEF Duty
<1> QED
  BY <1>1, <1>2, <1>3

\* One thread's work changes, and it is no reader's.
LEMMA CloserWorks ==
    ASSUME Types, NEW c \in Player, NEW jobs,
           DOMAIN work' = DOMAIN work, work'[Closer(c)] = jobs,
           \A u \in Thread : u # Closer(c) => work'[u] = work[u],
           jobs \in Seq(Duty(c)), c \in closing', closing \subseteq closing'
    PROVE  /\ DOMAIN work' = Thread
           /\ \A x \in Player : work'[Reader(x)] = work[Reader(x)]
           /\ \A x \in Player : CloseTyped(x)'
<1>1. DOMAIN work = Thread /\ Closer(c) \in Thread
  BY Threads DEF Types, Wired
<1>2. /\ DOMAIN work' = Thread
      /\ \A t \in Thread : work'[t] = IF t = Closer(c) THEN jobs ELSE work[t]
  BY <1>1
<1>3. \A x \in Player : work'[Reader(x)] = work[Reader(x)]
  BY <1>2, Threads
<1>4. ASSUME NEW x \in Player PROVE CloseTyped(x)'
  <2>1. work[Closer(x)] \in Seq(Duty(x)) /\ (work[Closer(x)] # <<>> => x \in closing)
    BY DEF Types, Wired, CloseTyped
  <2>2. work'[Closer(x)] = IF x = c THEN jobs ELSE work[Closer(x)]
    BY <1>2, Threads
  <2> QED
    BY <2>1, <2>2 DEF CloseTyped
<1> QED
  BY <1>2, <1>3, <1>4

\* A closer's line is replaced and no other.
LEMMA CloserGets ==
    ASSUME Types, NEW c \in Player, NEW jobs, work' = [work EXCEPT ![Closer(c)] = jobs]
    PROVE  /\ DOMAIN work' = DOMAIN work /\ work'[Closer(c)] = jobs
           /\ \A u \in Thread : u # Closer(c) => work'[u] = work[u]
BY Threads DEF Types, Wired

LEMMA AnnounceTypes ==
    ASSUME Types, NEW t \in Thread,
           Announced(t) \/ \E c \in Client : Announcing(t, c)
    PROVE  CloseStep /\ Types'
<1>1. work[t] # <<>> /\ Head(work[t]).do = "announce"
  BY DEF Announced, Announcing, DoesNext
<1> DEFINE j == Head(work[t])
           rest == Tail(work[t])
<1>2. PICK d \in Player \cap closing : /\ t = Closer(d) /\ j \in Duty(d)
                                        /\ work[t] \in Seq(Duty(d)) /\ rest \in Seq(Duty(d))
  <2>1. ASSUME NEW p \in Player, j \in Task(p) PROVE j.do # "announce"
    BY <2>1, JobIs DEF Task
  <2> QED
    BY <1>1, <2>1, ThreadJobs
<1>3. j.message = Left(d) /\ \A e : Job(j.do, j.message, j.todo \ {e}) \in Duty(d)
  BY <1>1, <1>2, LeftDuty
<1>4. turn \in turn..MaxTurns /\ closing \subseteq Client /\ conns \subseteq Client /\ Client \ closing \subseteq conns
  BY TurnIn DEF Types, Typed
<1>5. DOMAIN outbox = Player /\ DOMAIN inbox = Player
  BY DEF Types, Wired
<1>6. CASE Announced(t)
  <2>1. work' = [work EXCEPT ![Closer(d)] = rest] /\ UNCHANGED <<rosterVars, outbox, inbox, frontVars>>
    BY <1>2, <1>6 DEF Announced, Done
  <2> HIDE DEF rest, j
  <2>2. /\ DOMAIN work' = Thread
        /\ \A x \in Player : work'[Reader(x)] = work[Reader(x)]
        /\ \A x \in Player : CloseTyped(x)'
    BY <1>2, <2>1, CloserGets, CloserWorks DEF rosterVars
  <2>3. CloseStep
    BY <1>4, <1>5, <2>1, <2>2 DEF CloseStep, rosterVars, frontVars
  <2> QED
    BY <1>4, <2>1, <2>2, <2>3, CloseStepTypes DEF rosterVars
<1>7. ASSUME NEW c \in Client, Announcing(t, c) PROVE CloseStep /\ Types'
  <2> DEFINE jobs == <<Job(j.do, j.message, j.todo \ {c})>> \o rest
  <2>0. /\ DOMAIN work' = DOMAIN work
        /\ work'[t] = <<Job(j.do, j.message, j.todo \ {c})>> \o rest
        /\ \A u \in Thread : u # t => work'[u] = work[u]
    <3>1. t \in DOMAIN work /\ DOMAIN work = Thread
      BY DEF Types, Wired
    <3>2. work' = [work EXCEPT ![t] = jobs]
      BY <1>7 DEF Announcing
    <3> HIDE DEF jobs
    <3>3. /\ DOMAIN work' = DOMAIN work /\ work'[t] = jobs
          /\ \A u \in Thread : u # t => work'[u] = work[u]
      BY <3>1, <3>2
    <3> QED
      BY <3>3 DEF jobs
  <2>1. /\ inbox' = [inbox EXCEPT ![c] =
                    IF c \in conns \ closing THEN Append(@, j.message) ELSE @]
        /\ UNCHANGED <<rosterVars, outbox, frontVars>>
    BY <1>7 DEF Announcing
  <2>2. /\ DOMAIN work' = DOMAIN work /\ work'[Closer(d)] = jobs
        /\ \A u \in Thread : u # Closer(d) => work'[u] = work[u]
    BY <1>2, <2>0
  <2>3. jobs \in Seq(Duty(d))
    <3>1. \A e \in Duty(d), s \in Seq(Duty(d)) : <<e>> \o s \in Seq(Duty(d))
      OBVIOUS
    <3> QED
      BY <1>2, <1>3, <3>1
  <2>4. /\ DOMAIN inbox' = Player
        /\ \A x \in Player : inbox'[x] = inbox[x] \/ inbox'[x] = Append(inbox[x], Left(d))
    BY <1>3, <1>5, <2>1
  <2> HIDE DEF jobs, rest, j
  <2>5. /\ DOMAIN work' = Thread
        /\ \A x \in Player : work'[Reader(x)] = work[Reader(x)]
        /\ \A x \in Player : CloseTyped(x)'
    BY <1>2, <2>1, <2>2, <2>3, CloserWorks DEF rosterVars
  <2>6. CloseStep
    BY <1>2, <1>4, <1>5, <2>1, <2>4, <2>5 DEF CloseStep, rosterVars, frontVars
  <2> QED
    BY <1>4, <2>1, <2>5, <2>6, CloseStepTypes DEF rosterVars
<1> QED
  BY <1>6, <1>7

\* A finite set as a sequence has only elements of the set.
LEMMA SequenceOfSet ==
    ASSUME NEW S, IsFiniteSet(S)
    PROVE  SetToSeq(S) \in Seq(S)
<1>1. Cardinality(S) \in Nat /\ ExistsBijection(1..Cardinality(S), S)
  BY FS_CardinalityType
<1>2. \E g \in [1..Cardinality(S) -> S] : IsInjective(g)
  BY <1>1 DEF ExistsBijection, Bijection, Injection
<1>3. SetToSeq(S) \in [1..Cardinality(S) -> S]
  BY <1>2 DEF SetToSeq
<1> QED
  BY <1>1, <1>3

\* What a closer owes the partners of the player it closes is a line of its duties.
LEMMA UnplugsAre ==
    ASSUME Types, NEW c \in Player
    PROVE  Unplugs(c) \in Seq(Duty(c))
<1> DEFINE S == {Deliver(Say("unlink", c, p, 0)) : p \in PartnersOf(c)}
<1>1. IsFiniteSet(Player)
  BY ClientAssumption, FS_AddElement DEF Player
<1>2. IsFiniteSet(PartnersOf(c))
  BY <1>1, FS_Subset DEF PartnersOf
<1>3. IsFiniteSet(S)
  <2> DEFINE f == [p \in PartnersOf(c) |-> Deliver(Say("unlink", c, p, 0))]
  <2>1. f \in Surjection(PartnersOf(c), S)
    BY DEF Surjection
  <2> QED
    BY <1>2, <2>1, FS_Surjection
<1>4. c \notin PartnersOf(c)
  <2>1. <<c, c>> \notin links
    <3> SUFFICES ASSUME <<c, c>> \in links PROVE FALSE
      OBVIOUS
    <3>1. <<c, c>>[1] # <<c, c>>[2]
      BY DEF Types, Typed
    <3> QED
      BY <3>1
  <2> QED
    BY <2>1 DEF PartnersOf, AreLinked
<1>5. S \subseteq Duty(c)
  BY <1>4 DEF Duty, PartnersOf
<1>6. SetToSeq(S) \in Seq(S)
  BY <1>3, SequenceOfSet
<1> QED
  BY <1>5, <1>6, SeqMonotonic DEF Unplugs

LEMMA CloseTypes ==
    ASSUME Types, NEW c \in Client, Close(c)
    PROVE  CloseStep /\ Types'
<1>1. /\ turn \in 0..MaxTurns /\ MaxTurns \in Nat /\ turn \in turn..MaxTurns
      /\ closing \subseteq Client /\ conns \subseteq Client /\ Client \ closing \subseteq conns
      /\ c \in Player
  BY TurnIn DEF Types, Typed, Player
<1>2. DOMAIN outbox = Player /\ DOMAIN inbox = Player
  BY DEF Types, Wired
<1>3. ASSUME work[Closer(c)] # <<>>, Head(work[Closer(c)]).do \in {"remove", "depart"}
      PROVE  Head(work[Closer(c)]).message = Left(c) /\ c \in closing
  <2>1. work[Closer(c)] \in Seq(Duty(c)) /\ c \in closing
    BY <1>1, <1>3 DEF Types, Wired, CloseTyped
  <2>2. Head(work[Closer(c)]) \in Duty(c)
    BY <1>3, <2>1, TailElements
  <2> QED
    BY <1>3, <2>1, <2>2, LeftDuty
<1>4. /\ Job("remove", Left(c), {}) \in Duty(c) /\ Job("depart", Left(c), {}) \in Duty(c)
      /\ Announce(Left(c)) \in Duty(c)
  BY LeftDuty
<1>5. \A j \in Duty(c) : <<j>> \in Seq(Duty(c))
  OBVIOUS
<1>6. CASE BeginClose(c)
  <2>1. /\ turn' = turn + 1 /\ turn < MaxTurns
        /\ closing' = closing \union {c}
        /\ inbox' = [inbox EXCEPT ![c] = <<>>] /\ outbox' = [outbox EXCEPT ![c] = <<>>]
        /\ work' = [work EXCEPT ![Closer(c)] = <<Job("remove", Left(c), {})>>]
        /\ UNCHANGED <<conns, links, requests, endedBy, link, peers>>
    BY <1>6 DEF BeginClose, TakeTurn, Left
  <2>2. /\ DOMAIN work' = Thread
        /\ \A x \in Player : work'[Reader(x)] = work[Reader(x)]
        /\ \A x \in Player : CloseTyped(x)'
    BY <1>1, <1>4, <1>5, <2>1, CloserGets, CloserWorks
  <2>3. turn' \in turn..MaxTurns
    BY <1>1, <2>1
  <2>4. CloseStep
    BY <1>1, <1>2, <2>1, <2>2, <2>3 DEF CloseStep
  <2> QED
    BY <1>1, <2>1, <2>2, <2>4, CloseStepTypes
<1>7. CASE Removing(c)
  <2>1. work[Closer(c)] # <<>> /\ Head(work[Closer(c)]).do = "remove"
    BY <1>7 DEF Removing, DoesNext
  <2>2. Head(work[Closer(c)]).message = Left(c) /\ c \in closing
    BY <1>3, <2>1
  <2>3. /\ inbox' = [inbox EXCEPT ![Host] = Append(@, Left(c))]
        /\ work' = [work EXCEPT ![Closer(c)] = <<Job("depart", Left(c), {})>>]
        /\ conns' = conns \ {c}
        /\ UNCHANGED <<closing, links, requests, endedBy, outbox, frontVars>>
    BY <1>7, <2>2 DEF Removing
  <2>4. /\ DOMAIN work' = Thread
        /\ \A x \in Player : work'[Reader(x)] = work[Reader(x)]
        /\ \A x \in Player : CloseTyped(x)'
    BY <1>1, <1>4, <1>5, <2>2, <2>3, CloserGets, CloserWorks
  <2>5. /\ DOMAIN inbox' = Player
        /\ \A x \in Player : inbox'[x] = inbox[x] \/ inbox'[x] = Append(inbox[x], Left(c))
    BY <1>2, <2>3
  <2>6. CloseStep
    BY <1>1, <1>2, <2>2, <2>3, <2>4, <2>5 DEF CloseStep, frontVars
  <2> QED
    BY <1>1, <2>2, <2>3, <2>4, <2>6, CloseStepTypes
<1>8. CASE Departing(c)
  <2>1. work[Closer(c)] # <<>> /\ Head(work[Closer(c)]).do = "depart"
    BY <1>8 DEF Departing, DoesNext
  <2>2. Head(work[Closer(c)]).message = Left(c) /\ c \in closing
    BY <1>3, <2>1
  <2>3. /\ requests' \subseteq requests /\ links' \subseteq links
        /\ work' = [work EXCEPT ![Closer(c)] = Unplugs(c) \o <<Announce(Left(c))>>]
        /\ UNCHANGED <<conns, closing, endedBy, outbox, inbox, frontVars>>
    BY <1>8, <2>2 DEF Departing
  <2>4. Unplugs(c) \o <<Announce(Left(c))>> \in Seq(Duty(c))
    BY <1>1, <1>4, <1>5, UnplugsAre
  <2>5. /\ DOMAIN work' = Thread
        /\ \A x \in Player : work'[Reader(x)] = work[Reader(x)]
        /\ \A x \in Player : CloseTyped(x)'
    BY <1>1, <2>2, <2>3, <2>4, CloserGets, CloserWorks
  <2>6. CloseStep
    BY <1>1, <1>2, <2>3, <2>5 DEF CloseStep, frontVars
  <2> QED
    BY <1>1, <2>3, <2>5, <2>6, CloseStepTypes
<1> QED
  BY <1>6, <1>7, <1>8 DEF Close

LEMMA TypesInit == Init => Types
<1> SUFFICES ASSUME Init PROVE Types
  OBVIOUS
<1>1. /\ conns = Client /\ closing = {} /\ links = {} /\ requests = {} /\ turn = 0
      /\ work = [t \in Thread |-> <<>>]
      /\ outbox = [p \in Player |-> <<>>] /\ inbox = [p \in Player |-> <<>>]
      /\ link = [p \in Player |-> NoLink] /\ peers = [p \in Player |-> Player \ {p}]
  BY DEF Init
<1>2. Typed
  BY <1>1, LinkBoundsAssumption DEF Typed
<1>3. ASSUME NEW p \in Player
      PROVE  OutTyped(p) /\ InTyped(p) /\ ReadTyped(p) /\ CloseTyped(p) /\ FrontTyped(p)
  <2>1. /\ work[Reader(p)] = <<>> /\ work[Closer(p)] = <<>>
        /\ outbox[p] = <<>> /\ inbox[p] = <<>> /\ link[p] = NoLink /\ peers[p] = Player \ {p}
    BY <1>1, Threads
  <2>2. \A S : <<>> \in Seq(S)
    OBVIOUS
  <2> QED
    BY <2>1, <2>2 DEF OutTyped, InTyped, ReadTyped, CloseTyped, FrontTyped
<1>4. Wired
  BY <1>1, <1>3 DEF Wired
<1> QED
  BY <1>2, <1>4 DEF Types

LEMMA TypesKept == Types /\ [Next]_vars => Types'
<1> SUFFICES ASSUME Types, [Next]_vars PROVE Types'
  OBVIOUS
<1>1. CASE UNCHANGED vars
  BY <1>1 DEF vars, rosterVars, frontVars, Types, Typed, Wired, OutTyped, InTyped, ReadTyped,
              CloseTyped, FrontTyped
<1>2. ASSUME NEW p \in Player, Route(p) PROVE Types'
  BY <1>2, RoutedTypes
<1>3. ASSUME NEW p \in Player, Frontend(p) PROVE Types'
  BY <1>3, FrontSteps, FrontTypes
<1>4. ASSUME NEW t \in Thread, Work(t) PROVE Types'
  BY <1>4, DeliveringDoes, DeliversTypes, AnnounceTypes DEF Work
<1>5. ASSUME NEW c \in Client, Close(c) PROVE Types'
  BY <1>5, CloseTypes
<1> QED
  BY <1>1, <1>2, <1>3, <1>4, <1>5 DEF Next

-----------------------------------------------------------------------------
(* Numbers.                                                                *)

\* What is mentioned of a request only moves on, or it is a new one.
LEMMA NumbersKept ==
    ASSUME Types, Numbers, NEW new, turn' \in turn..MaxTurns,
           \A o \in Ask : Waiting(o)' => \/ Waiting(o)
                                         \/ o = new /\ new.nonce = turn + 1 /\ turn' = turn + 1,
           \A o \in Ask : Arrived(o)' => Arrived(o) \/ (Waiting(o) /\ ~ Waiting(o)'),
           \A o \in Ask : Answered(o)' => Mentioned(o),
           Once', OneRequest'
    PROVE  Numbers'
<1>1. turn \in Nat /\ turn' \in Nat /\ turn <= turn'
  BY TurnIn
<1>2. \A o \in Ask : Mentioned(o)' =>
        Mentioned(o) \/ (o = new /\ new.nonce = turn + 1 /\ turn' = turn + 1)
  BY DEF Mentioned
<1>3. \A o \in Ask : Mentioned(o) => o.nonce \in 1..turn
  BY DEF Numbers, Numbered
<1>4. Numbered'
  BY <1>1, <1>2, <1>3 DEF Numbered
<1>5. OneAsker'
  BY <1>1, <1>2, <1>3 DEF Numbers, OneAsker
<1>6. Fresh'
  <2> SUFFICES ASSUME NEW o \in Ask, Waiting(o)', Arrived(o)' PROVE FALSE
    BY DEF Fresh
  <2>1. Arrived(o)
    OBVIOUS
  <2>2. ~ Waiting(o)
    BY <2>1 DEF Numbers, Fresh
  <2>3. o.nonce = turn + 1 /\ o.nonce \in 1..turn
    BY <1>3, <2>1, <2>2 DEF Mentioned
  <2> QED
    BY <1>1, <2>3
<1> QED
  BY <1>4, <1>5, <1>6 DEF Numbers

\* A letter is what it says.
LEMMA LetterIs ==
    ASSUME NEW m \in Letter
    PROVE  m = Say(m.kind, m.from, m.to, m.nonce) /\ m.from \in Player /\ m.to \in Player
           /\ m.nonce \in 0..MaxTurns /\ m.kind \in UrgentKinds
<1>1. m \in [kind : UrgentKinds, from : Player, to : Player, nonce : 0..MaxTurns]
  BY DEF Letter
<1>2. m = [kind |-> m.kind, from |-> m.from, to |-> m.to, nonce |-> m.nonce]
  BY <1>1
<1> QED
  BY <1>1, <1>2 DEF Say

\* A request is what was said in it, and so is the accept that answers it.
LEMMA AskIs ==
    ASSUME NEW o \in Ask
    PROVE  /\ o \in Letter /\ o.kind = "request" /\ o.from \in Player /\ o.to \in Player
           /\ o.nonce \in 0..MaxTurns /\ o = Say("request", o.from, o.to, o.nonce)
           /\ Answer(o, "accept").kind = "accept" /\ Answer(o, "accept").from = o.to
           /\ Answer(o, "accept").to = o.from /\ Answer(o, "accept").nonce = o.nonce
BY LetterIs DEF Ask, Answer, Say

\* The outbox loses its head, or stays: what was there once is there once.
LEMMA OnceKept ==
    ASSUME Types, NEW p \in Player, OnceFrom(p),
           \/ outbox'[p] = outbox[p] \/ outbox'[p] = <<>>
           \/ outbox[p] # <<>> /\ outbox'[p] = Tail(outbox[p]),
           \A o \in Recording(p)' : o \in Recording(p)
                \/ (outbox[p] # <<>> /\ outbox'[p] = Tail(outbox[p]) /\ o = Head(outbox[p]))
    PROVE  OnceFrom(p)'
<1>1. outbox[p] \in Seq(Mail(p))
  BY DEF Types, Wired, OutTyped
<1>2. CASE outbox'[p] = outbox[p] /\ \A o \in Recording(p)' : o \in Recording(p)
  BY <1>2 DEF OnceFrom
<1>3. CASE outbox'[p] = <<>>
  <2>1. ToSet(outbox'[p]) = {} /\ DOMAIN (outbox'[p]) = {}
    BY <1>3 DEF ToSet
  <2> QED
    BY <2>1 DEF OnceFrom
<1>4. CASE outbox[p] # <<>> /\ outbox'[p] = Tail(outbox[p])
  <2> DEFINE b == outbox[p]
             t == Tail(outbox[p])
  <2>1. /\ Head(b) = b[1] /\ 1 \in DOMAIN b
        /\ \A j \in DOMAIN t : /\ j \in Nat /\ j + 1 \in DOMAIN b /\ t[j] = b[j + 1]
    BY <1>1, <1>4, TailPlaces
  <2>2. ToSet(t) \subseteq ToSet(b)
    BY <1>1, <1>4, TailElements
  <2>3. \A m \in Ask : \A i, j \in DOMAIN b : b[i] = m /\ b[j] = m => i = j
    BY DEF OnceFrom
  <2>4. outbox'[p] = t
    BY <1>4
  <2> HIDE DEF b, t
  <2>5. ASSUME NEW m \in Ask, NEW i \in DOMAIN t, NEW j \in DOMAIN t, t[i] = m, t[j] = m PROVE i = j
    <3>1. i + 1 = j + 1
      BY <2>1, <2>3, <2>5
    <3> QED
      BY <2>1, <3>1
  <2>6. ASSUME NEW m \in Ask, m = Head(b) PROVE m \notin ToSet(t)
    <3>1. ASSUME NEW j \in DOMAIN t, t[j] = m PROVE FALSE
      <4>1. j + 1 = 1 /\ j \in Nat /\ j + 1 \in DOMAIN b
        BY <2>1, <2>3, <2>6, <3>1
      <4>2. j = 0
        BY <4>1
      <4>3. 0 \notin DOMAIN t
        BY <1>1, <1>4 DEF t
      <4> QED
        BY <4>2, <4>3
    <3> QED
      BY <3>1 DEF ToSet
  <2>7. ASSUME NEW m \in Ask, m \in Recording(p)' PROVE m \notin ToSet(t)
    <3>1. m \in Recording(p) \/ m = Head(b)
      BY <2>7 DEF b
    <3>2. m \in Recording(p) => m \notin ToSet(b)
      BY DEF OnceFrom, b
    <3> QED
      BY <2>2, <2>6, <3>1, <3>2
  <2> QED
    BY <2>4, <2>5, <2>7 DEF OnceFrom
<1> QED
  BY <1>2, <1>3, <1>4
\* A frontend hears, and answers what it has heard; only a request of its own is new.
LEMMA FrontNumbers ==
    ASSUME Types, Numbers, NEW p \in Player, FrontStep(p)
    PROVE  Numbers'
<1>1. /\ FrontMoves(p) /\ turn' \in turn..MaxTurns
      /\ inbox'[p] = inbox[p] \/ (inbox[p] # <<>> /\ inbox'[p] = Tail(inbox[p]))
      /\ \A a \in Player, n \in 0..MaxTurns :
            link'[p] = Phase("incoming", a, n)
                => link[p] = Phase("incoming", a, n) \/ Say("request", a, p, n) \in ToSet(inbox[p])
  BY DEF FrontStep
<1>2. \A x \in Player : Carried(x)' = Carried(x) /\ Recording(x)' = Recording(x)
  BY <1>1 DEF FrontMoves, Carried, Recording
<1>3. requests' = requests
  BY <1>1 DEF FrontMoves, rosterVars
<1>4. \A x \in Player : ToSet(inbox'[x]) \subseteq ToSet(inbox[x])
  <2>1. inbox[p] \in Seq(News(p) \union {Left(c) : c \in closing})
    BY DEF Types, Wired, InTyped
  <2>2. inbox[p] # <<>> => ToSet(Tail(inbox[p])) \subseteq ToSet(inbox[p])
    BY <2>1, TailElements
  <2> QED
    BY <1>1, <2>2 DEF FrontMoves
<1>5. PICK m : /\ \A x \in Player : \A o \in ToSet(outbox'[x]) : o \in ToSet(outbox[x]) \/ (x = p /\ o = m)
               /\ outbox'[p] = outbox[p]
                  \/ (m \in Mail(p) /\ Says(p, m)
                      /\ (m.kind = "request" => m.nonce = turn + 1 /\ turn' = turn + 1)
                      /\ (m.kind = "accept" => link[p] = Phase("incoming", m.to, m.nonce)))
  <2>1. CASE outbox'[p] = outbox[p]
    BY <1>1, <2>1 DEF FrontMoves
  <2>2. ASSUME NEW m \in Mail(p), Says(p, m),
               m.kind = "request" => m.nonce = turn + 1 /\ turn' = turn + 1,
               m.kind = "accept" => link[p] = Phase("incoming", m.to, m.nonce)
        PROVE  \A x \in Player : \A o \in ToSet(outbox'[x]) : o \in ToSet(outbox[x]) \/ (x = p /\ o = m)
    <3>1. ToSet(outbox'[p]) = ToSet(outbox[p]) \union {m}
      BY <2>2, AppendPlaces DEF Types, Wired, OutTyped, Says
    <3> QED
      BY <1>1, <3>1 DEF FrontMoves
  <2> QED
    BY <2>1, <2>2 DEF FrontStep
<1>6. ASSUME NEW o \in Ask, Waiting(o)'
      PROVE  Waiting(o) \/ (o = m /\ m.nonce = turn + 1 /\ turn' = turn + 1)
  BY <1>2, <1>5, <1>6, AskIs DEF Waiting
<1>7. ASSUME NEW o \in Ask, Arrived(o)'
      PROVE  Arrived(o)
  <2>1. CASE o \in Carried(o.from)' \/ o \in ToSet(inbox'[o.to])
    BY <1>2, <1>4, <2>1, AskIs DEF Arrived
  <2>2. CASE link'[o.to] = Phase("incoming", o.from, o.nonce)
    BY <1>1, <2>2, AskIs DEF Arrived, FrontMoves
  <2>3. CASE Answer(o, "accept") \in ToSet(outbox'[o.to])
    <3>1. Answer(o, "accept") \in ToSet(outbox[o.to]) \/ (o.to = p /\ Answer(o, "accept") = m)
      BY <1>5, <2>3, AskIs
    <3>2. outbox'[p] = outbox[p] /\ o.to = p => Answer(o, "accept") \in ToSet(outbox[o.to])
      BY <2>3
    <3> QED
      BY <1>5, <3>1, <3>2, AskIs DEF Arrived
  <2> QED
    BY <1>7, <2>1, <2>2, <2>3 DEF Arrived
<1>8. ASSUME NEW o \in Ask, Answered(o)' PROVE Mentioned(o)
  BY <1>2, <1>3, <1>4, <1>8, AskIs DEF Answered, Mentioned
<1>9. ASSUME NEW x \in Player PROVE OnceFrom(x)'
  <2>1. OnceFrom(x) /\ OnceFrom(p)
    BY DEF Numbers, Once
  <2>2. CASE outbox'[x] = outbox[x]
    BY <1>2, <2>1, <2>2, OnceKept
  <2>3. CASE x = p /\ m \in Mail(p) /\ Says(p, m)
             /\ (m.kind = "request" => m.nonce = turn + 1)
    <3> DEFINE b == outbox[p]
    <3>1. /\ b \in Seq(Mail(p)) /\ outbox'[p] = Append(b, m)
      BY <2>3 DEF Types, Wired, OutTyped, Says
    <3>2. /\ Len(b) \in Nat /\ DOMAIN b = 1..Len(b) /\ DOMAIN Append(b, m) = 1..(Len(b) + 1)
          /\ Append(b, m)[Len(b) + 1] = m /\ \A j \in 1..Len(b) : Append(b, m)[j] = b[j]
      BY <2>3, <3>1
    <3>3. m \in Ask => ~ Mentioned(m)
      <4>1. ASSUME m \in Ask, Mentioned(m) PROVE FALSE
        <5>1. m.nonce \in 1..turn /\ m.nonce = turn + 1
          BY <2>3, <4>1, AskIs DEF Numbers, Numbered
        <5> QED
          BY <5>1, TurnIn
      <4> QED
        BY <4>1
    <3>4. m \in Ask => m \notin ToSet(b) /\ m \notin Recording(p)
      BY <2>3, <3>3 DEF Mentioned, Waiting, Mail
    <3>5. ToSet(outbox'[p]) = ToSet(b) \union {m}
      BY <2>3, <3>1, AppendPlaces
    <3>6. \A o \in Ask : o \in Recording(p)' => o \notin ToSet(outbox'[p])
      BY <1>2, <2>1, <3>4, <3>5 DEF OnceFrom
    <3>7. \A o \in Ask : \A i, j \in DOMAIN b : b[i] = o /\ b[j] = o => i = j
      BY <2>1 DEF OnceFrom
    <3> HIDE DEF b
    <3>8. ASSUME NEW o \in Ask, NEW i \in 1..(Len(b) + 1), NEW j \in 1..(Len(b) + 1),
                 Append(b, m)[i] = o, Append(b, m)[j] = o
          PROVE  i = j
      <4>1. i \in 1..Len(b) \/ i = Len(b) + 1
        BY <3>2
      <4>2. j \in 1..Len(b) \/ j = Len(b) + 1
        BY <3>2
      <4>3. \A k \in 1..Len(b) : b[k] \in ToSet(b)
        BY <3>2 DEF ToSet
      <4> QED
        BY <3>2, <3>4, <3>7, <3>8, <4>1, <4>2, <4>3 DEF b
    <3> QED
      BY <2>3, <3>1, <3>2, <3>6, <3>8 DEF OnceFrom
  <2> QED
    BY <1>1, <1>5, <2>2, <2>3 DEF FrontMoves
<1>10. Once' /\ OneRequest'
  BY <1>3, <1>9 DEF Once, Numbers, OneRequest
<1> QED
  BY <1>1, <1>6, <1>7, <1>8, <1>10, NumbersKept

\* What the threads carry on, letter by letter, and what they leave at the inboxes.
LEMMA PassedNumbers ==
    ASSUME Types, Numbers, turn' \in turn..MaxTurns, requests' \subseteq requests,
           link' = link,
           \A x \in Player : Recording(x)' \subseteq Recording(x) /\ Carried(x)' \subseteq Carried(x),
           \A x \in Player : outbox'[x] = outbox[x] \/ outbox'[x] = <<>>,
           \A x \in Player : \A o \in ToSet(inbox'[x]) :
                o \in ToSet(inbox[x])
                    \/ (o.kind \in {"request", "accept"} => o \in Carried(o.from))
    PROVE  Numbers'
<1>1. \A x \in Player : ToSet(outbox'[x]) \subseteq ToSet(outbox[x])
  BY DEF ToSet
<1>2. \A o \in Ask : Waiting(o)' => Waiting(o)
  BY <1>1, AskIs DEF Waiting
<1>3. ASSUME NEW o \in Ask, Arrived(o)' PROVE Arrived(o)
  <2>1. CASE o \in ToSet(inbox'[o.to])
    BY <2>1, AskIs DEF Arrived
  <2> QED
    BY <1>1, <1>3, <2>1, AskIs DEF Arrived
<1>4. ASSUME NEW o \in Ask, Answered(o)' PROVE Mentioned(o)
  <2>1. CASE Answer(o, "accept") \in ToSet(inbox'[o.from])
    BY <2>1, AskIs DEF Answered, Mentioned
  <2> QED
    BY <1>4, <2>1, AskIs DEF Answered, Mentioned
<1>5. Once'
  <2>1. ASSUME NEW x \in Player PROVE OnceFrom(x)'
    BY OnceKept DEF Numbers, Once
  <2> QED
    BY <2>1 DEF Once
<1>6. OneRequest'
  BY DEF Numbers, OneRequest
<1> QED
  BY <1>2, <1>3, <1>4, <1>5, <1>6, NumbersKept
\* What a delivery takes from a reader's hands, or a closer's.
LEMMA DeliversCarries ==
    ASSUME Types, NEW t \in Thread, NEW m, Delivers(t, m)
    PROVE  /\ \A x \in Player : Recording(x)' = Recording(x)
           /\ \/ \E p \in Player :
                   /\ Carried(p) = {m} /\ Carried(p)' = {}
                   /\ \A x \in Player : x # p => Carried(x)' = Carried(x)
                   /\ (m \in Mail(p) \/ (m \in News(p) /\ m.kind \in {"decline", "unlink"}))
              \/ /\ \A x \in Player : Carried(x)' = Carried(x)
                 /\ \E c \in Player \cap closing : \E q \in Player \ {c} : m = Say("unlink", c, q, 0)
<1>1. Hands(t, m) /\ \A u \in Thread : u # t => work'[u] = work[u]
  BY DEF Delivers
<1>2. ASSUME NEW x \in Player, t # Reader(x)
      PROVE  Recording(x)' = Recording(x) /\ Carried(x)' = Carried(x)
  <2>1. work'[Reader(x)] = work[Reader(x)]
    BY <1>1, <1>2, Threads
  <2> QED
    BY <2>1 DEF Recording, Carried
<1>3. CASE \E p \in Player :
              /\ t = Reader(p) /\ work[t] = <<Deliver(m)>> /\ work'[t] = <<>>
              /\ (m \in Mail(p) \/ (m \in News(p) /\ m.kind \in {"decline", "unlink"}))
  <2>1. PICK p \in Player :
              /\ t = Reader(p) /\ work[t] = <<Deliver(m)>> /\ work'[t] = <<>>
              /\ (m \in Mail(p) \/ (m \in News(p) /\ m.kind \in {"decline", "unlink"}))
    BY <1>3
  <2>2. Carried(p) = {m} /\ Carried(p)' = {} /\ Recording(p) = {} /\ Recording(p)' = {}
    BY <2>1, JobCarries DEF Carried, Recording
  <2>3. \A x \in Player : x # p => t # Reader(x)
    BY <2>1, Threads
  <2> QED
    BY <1>2, <2>1, <2>2, <2>3
<1>4. CASE \E c \in Player \cap closing :
              t = Closer(c) /\ \E q \in Player \ {c} : m = Say("unlink", c, q, 0)
  <2>1. \A x \in Player : t # Reader(x)
    BY <1>4, Threads
  <2> QED
    BY <1>2, <1>4, <2>1
<1> QED
  BY <1>1, <1>3, <1>4 DEF Hands

\* Deliveries and closes keep the numbers: a message only moves along its way.
LEMMA DeliversNumbers ==
    ASSUME Types, Numbers, NEW t \in Thread, NEW m, Delivers(t, m)
    PROVE  Numbers'
<1>1. /\ turn' = turn /\ requests' = requests /\ link' = link /\ outbox' = outbox
      /\ m.to \in Player /\ \A y \in Player : y # m.to => inbox'[y] = inbox[y]
      /\ ToSet(inbox'[m.to]) \subseteq ToSet(inbox[m.to]) \union {m}
  BY DEF Delivers, rosterVars, frontVars
<1>2. turn' \in turn..MaxTurns
  BY <1>1, TurnIn
<1>3. \A x \in Player : Recording(x)' \subseteq Recording(x) /\ Carried(x)' \subseteq Carried(x)
  BY DeliversCarries
<1>4. m.kind \in {"request", "accept"} => m \in Carried(m.from)
  <2>1. \A c, q : Say("unlink", c, q, 0).kind = "unlink"
    BY DEF Say
  <2> QED
    BY <2>1, DeliversCarries DEF Mail
<1>5. \A x \in Player : \A o \in ToSet(inbox'[x]) :
         o \in ToSet(inbox[x]) \/ (o.kind \in {"request", "accept"} => o \in Carried(o.from))
  BY <1>1, <1>4
<1> QED
  BY <1>1, <1>2, <1>3, <1>5, PassedNumbers

LEMMA CloseNumbers ==
    ASSUME Types, Numbers, CloseStep
    PROVE  Numbers'
<1>1. \A x \in Player : Recording(x)' = Recording(x) /\ Carried(x)' = Carried(x)
  BY DEF CloseStep, Recording, Carried
<1>2. ASSUME NEW x \in Player, NEW o \in ToSet(inbox'[x])
      PROVE  o \in ToSet(inbox[x]) \/ o.kind \notin {"request", "accept"}
  <2>1. inbox[x] \in Seq(News(x) \union {Left(c) : c \in closing})
    BY DEF Types, Wired, InTyped
  <2>2. ASSUME NEW c \in closing, inbox'[x] = Append(inbox[x], Left(c))
        PROVE  o \in ToSet(inbox[x]) \/ o = Left(c)
    <3>1. ToSet(Append(inbox[x], Left(c))) = ToSet(inbox[x]) \union {Left(c)}
      BY <2>1, AppendPlaces
    <3> QED
      BY <2>2, <3>1
  <2>3. \A c : Left(c).kind = "left"
    BY DEF Left, Say
  <2>4. ToSet(<<>>) = {}
    BY DEF ToSet
  <2> QED
    BY <2>2, <2>3, <2>4 DEF CloseStep
<1>3. /\ turn' \in turn..MaxTurns /\ requests' \subseteq requests /\ link' = link
      /\ \A x \in Player : outbox'[x] = outbox[x] \/ outbox'[x] = <<>>
  BY DEF CloseStep
<1> QED
  BY <1>1, <1>2, <1>3, PassedNumbers

\* A reader takes a letter, and does as its kind says.
LEMMA RouteNumbers ==
    ASSUME Types, Numbers, NEW p \in Player, NEW kind, NEW jobs, Routes(p, kind, jobs),
           requests' \subseteq requests,
           \/ jobs = <<>>
           \/ kind = "request" /\ jobs = <<Job("record", Head(outbox[p]), {})>>
           \/ kind # "request" /\ jobs = <<Deliver(Head(outbox[p]))>>
           \/ \E what \in {"decline", "unlink"} : jobs = <<Deliver(Answer(Head(outbox[p]), what))>>
    PROVE  Numbers'
<1> DEFINE m == Head(outbox[p])
<1>1. /\ outbox[p] # <<>> /\ m.kind = kind /\ outbox'[p] = Tail(outbox[p])
      /\ work'[Reader(p)] = jobs /\ inbox' = inbox /\ link' = link /\ turn' = turn
      /\ \A x \in Player : x # p => outbox'[x] = outbox[x]
      /\ \A x \in Player : x # p => work'[Reader(x)] = work[Reader(x)]
  BY Threads DEF Routes, RouteMoves
<1>2. \A what : Answer(m, what).kind = what
  BY DEF Answer, Say
<1>3. /\ Recording(p)' = {} \/ (kind = "request" /\ Recording(p)' = {m})
      /\ \A o \in Carried(p)' : o.kind # "request" /\ (o.kind = "accept" => o = m)
  <2>1. \A o : /\ Carry(<<Deliver(o)>>, "deliver") = {o} /\ Carry(<<Deliver(o)>>, "record") = {}
                /\ Carry(<<Job("record", o, {})>>, "record") = {o}
                /\ Carry(<<Job("record", o, {})>>, "deliver") = {}
    BY JobCarries
  <2>2. Carry(<<>>, "deliver") = {} /\ Carry(<<>>, "record") = {}
    BY JobCarries
  <2>3. Carried(p)' = Carry(jobs, "deliver") /\ Recording(p)' = Carry(jobs, "record")
    BY <1>1 DEF Recording, Carried
  <2>4. CASE jobs = <<>> \/ (kind = "request" /\ jobs = <<Job("record", m, {})>>)
    BY <2>1, <2>2, <2>3, <2>4
  <2>5. CASE kind # "request" /\ jobs = <<Deliver(m)>>
    BY <1>1, <2>1, <2>3, <2>5
  <2>6. ASSUME NEW what \in {"decline", "unlink"}, jobs = <<Deliver(Answer(m, what))>>
        PROVE  Recording(p)' = {} /\ Carried(p)' = {Answer(m, what)}
    BY <2>1, <2>3, <2>6
  <2> QED
    BY <1>2, <2>4, <2>5, <2>6
<1>4. \A x \in Player : x # p => Carried(x)' = Carried(x) /\ Recording(x)' = Recording(x)
  BY <1>1 DEF Carried, Recording
<1>5. m \in ToSet(outbox[p]) /\ ToSet(outbox'[p]) \subseteq ToSet(outbox[p])
  BY <1>1, TailElements DEF Types, Wired, OutTyped
<1> HIDE DEF m
<1>6. \A x \in Player : ToSet(outbox'[x]) \subseteq ToSet(outbox[x])
  BY <1>1, <1>5
<1>7. \A x \in Player : \A o \in Recording(x)' : o \in Recording(x) \/ o \in ToSet(outbox[x])
  BY <1>3, <1>4, <1>5
<1>8. \A x \in Player : \A o \in Carried(x)' :
         \/ o \in Carried(x)
         \/ o.kind # "request" /\ (o.kind = "accept" => o \in ToSet(outbox[x]))
  BY <1>3, <1>4, <1>5
<1>9. \A o \in Ask : Waiting(o)' => Waiting(o)
  BY <1>6, <1>7, AskIs DEF Waiting
<1>10. \A o \in Ask : Arrived(o)' => Arrived(o)
  BY <1>1, <1>6, <1>8, AskIs DEF Arrived
<1>11. ASSUME NEW o \in Ask, Answered(o)' PROVE Mentioned(o)
  <2>1. CASE Answer(o, "accept") \in Carried(o.to)'
    BY <1>8, <2>1, AskIs DEF Answered, Mentioned, Arrived
  <2> QED
    BY <1>1, <1>11, <2>1, AskIs DEF Answered, Mentioned
<1>12. ASSUME NEW x \in Player PROVE OnceFrom(x)'
  <2>1. OnceFrom(x)
    BY DEF Numbers, Once
  <2>2. CASE x = p
    BY <1>1, <1>3, <2>1, <2>2, OnceKept DEF m
  <2>3. CASE x # p
    BY <1>1, <1>4, <2>1, <2>3, OnceKept
  <2> QED
    BY <2>2, <2>3
<1>13. Once' /\ OneRequest'
  BY <1>12 DEF Once, Numbers, OneRequest
<1>14. turn' \in turn..MaxTurns
  BY <1>1, TurnIn
<1> QED
  BY <1>9, <1>10, <1>11, <1>13, <1>14, NumbersKept

\* A recorded request was waiting; it is answered for from now on.
LEMMA RecordNumbers ==
    ASSUME Types, Numbers, NEW p \in Player, RecordRequest(p)
    PROVE  Numbers'
<1>1. PICK m \in Mail(p) \cap Ask :
              /\ work[Reader(p)] = <<Job("record", m, {})>>
              /\ RouteMoves(p) /\ outbox'[p] = outbox[p] /\ links' = links
              /\ \/ /\ requests' = requests
                    /\ work'[Reader(p)] = <<Deliver(Answer(m, "decline"))>>
                 \/ /\ ~ IsLinked(m.from) /\ ~ IsLinked(m.to)
                    /\ requests' = {r \in requests : r[1] # m.from} \union {<<m.from, m.to, m.nonce>>}
                    /\ work'[Reader(p)] = <<Deliver(m)>>
  BY RecordRequestDoes
<1>2. /\ inbox' = inbox /\ link' = link /\ turn' = turn
      /\ \A x \in Player : outbox'[x] = outbox[x]
      /\ \A x \in Player : x # p => work'[Reader(x)] = work[Reader(x)]
  BY <1>1, Threads DEF RouteMoves
<1>3. m \in Ask /\ m.from = p /\ m.kind = "request" /\ Answer(m, "decline").kind = "decline"
  BY AskIs DEF Mail, Answer, Say
<1>4. Recording(p) = {m} /\ Carried(p) = {} /\ Recording(p)' = {}
  BY <1>1, JobCarries DEF Recording, Carried
<1>5. \A o \in Carried(p)' : o = m \/ o.kind = "decline"
  <2>1. Carried(p)' = {Answer(m, "decline")} \/ Carried(p)' = {m}
    <3>1. \A o : Carry(<<Deliver(o)>>, "deliver") = {o}
      BY JobCarries
    <3> QED
      BY <1>1, <3>1 DEF Carried
  <2> QED
    BY <1>3, <2>1
<1>6. \A x \in Player : x # p => Carried(x)' = Carried(x) /\ Recording(x)' = Recording(x)
  BY <1>2 DEF Carried, Recording
<1>7. Waiting(m) /\ ~ Waiting(m)'
  <2>1. m \notin ToSet(outbox[p])
    BY <1>3, <1>4 DEF Numbers, Once, OnceFrom
  <2> QED
    BY <1>2, <1>3, <1>4, <2>1 DEF Waiting
<1>8. \A o \in Ask : Waiting(o)' => Waiting(o)
  BY <1>2, <1>4, <1>6, AskIs DEF Waiting
<1>9. \A o \in Ask : Arrived(o)' => Arrived(o) \/ o = m
  BY <1>2, <1>3, <1>5, <1>6, AskIs DEF Arrived
<1>10. ASSUME NEW o \in Ask, Answered(o)' PROVE Mentioned(o)
  <2>1. CASE <<o.from, o.to, o.nonce>> \in requests'
    <3>1. CASE <<o.from, o.to, o.nonce>> \in requests
      BY <3>1 DEF Answered, Mentioned
    <3>2. CASE <<o.from, o.to, o.nonce>> = <<m.from, m.to, m.nonce>>
      <4>1. o = m
        BY <1>3, <3>2, AskIs
      <4> QED
        BY <1>7, <4>1 DEF Mentioned
    <3> QED
      BY <1>1, <2>1, <3>1, <3>2
  <2>2. CASE Answer(o, "accept") \in Carried(o.to)'
    <3>1. Answer(o, "accept") \in Carried(o.to)
      BY <1>3, <1>5, <1>6, <2>2, AskIs
    <3> QED
      BY <3>1 DEF Answered, Mentioned
  <2>3. CASE Answer(o, "accept") \in ToSet(inbox'[o.from])
    BY <1>2, <2>3 DEF Answered, Mentioned
  <2> QED
    BY <1>10, <2>1, <2>2, <2>3 DEF Answered
<1>11. ASSUME NEW x \in Player PROVE OnceFrom(x)'
  BY <1>2, <1>4, <1>6, OnceKept DEF Numbers, Once
<1>12. OneRequest'
  <2>1. \A r, s \in requests : r[1] = s[1] => r = s
    BY DEF Numbers, OneRequest
  <2>2. <<m.from, m.to, m.nonce>>[1] = m.from
    OBVIOUS
  <2> QED
    BY <1>1, <2>1, <2>2 DEF OneRequest
<1>13. Once' /\ turn' \in turn..MaxTurns
  BY <1>2, <1>11, TurnIn DEF Once
<1> QED
  BY <1>7, <1>8, <1>9, <1>10, <1>12, <1>13, NumbersKept

LEMMA NumbersInit == Init => Numbers
<1> SUFFICES ASSUME Init PROVE Numbers
  OBVIOUS
<1>1. /\ requests = {} /\ work = [t \in Thread |-> <<>>]
      /\ outbox = [p \in Player |-> <<>>] /\ inbox = [p \in Player |-> <<>>]
      /\ link = [p \in Player |-> NoLink]
  BY DEF Init
<1>2. ToSet(<<>>) = {} /\ DOMAIN <<>> = {}
  BY DEF ToSet
<1>3. \A x \in Player : /\ Carried(x) = {} /\ Recording(x) = {}
                        /\ outbox[x] = <<>> /\ inbox[x] = <<>> /\ link[x] = NoLink
  BY <1>1, Threads, CarryIs DEF Carried, Recording
<1>4. ASSUME NEW o \in Ask PROVE ~ Mentioned(o) /\ ~ Waiting(o)
  BY <1>1, <1>2, <1>3, AskIs DEF Mentioned, Waiting, Arrived, Answered, NoLink, Phase
<1>5. Once
  BY <1>2, <1>3 DEF Once, OnceFrom
<1> QED
  BY <1>1, <1>4, <1>5 DEF Numbers, Numbered, OneAsker, Fresh, OneRequest

LEMMA NumbersKeep == Types /\ Numbers /\ [Next]_vars => Numbers'
<1> SUFFICES ASSUME Types, Numbers, [Next]_vars PROVE Numbers'
  OBVIOUS
<1>1. CASE UNCHANGED vars
  BY <1>1 DEF vars, rosterVars, frontVars, Numbers, Numbered, OneAsker, Fresh, Once, OnceFrom,
              OneRequest, Mentioned, Waiting, Arrived, Answered, Recording, Carried
<1>2. ASSUME NEW p \in Player, Route(p) PROVE Numbers'
  <2>1. Wired
    BY DEF Types
  <2>2. CASE RouteRequest(p)
    BY <2>1, <2>2, RouteRequestDoes, RouteNumbers
  <2>3. CASE RecordRequest(p)
    BY <2>3, RecordNumbers
  <2>4. CASE RouteAccept(p)
    BY <2>1, <2>4, RouteAcceptDoes, RouteNumbers
  <2>5. CASE RouteDecline(p)
    BY <2>1, <2>5, RouteDeclineDoes, RouteNumbers
  <2>6. CASE RouteStart(p)
    BY <2>1, <2>6, RouteStartDoes, RouteNumbers
  <2>7. CASE RouteUnlink(p)
    BY <2>1, <2>7, RouteUnlinkDoes, RouteNumbers
  <2> QED
    BY <1>2, <2>2, <2>3, <2>4, <2>5, <2>6, <2>7 DEF Route
<1>3. ASSUME NEW p \in Player, Frontend(p) PROVE Numbers'
  BY <1>3, FrontSteps, FrontNumbers
<1>4. ASSUME NEW t \in Thread, Work(t) PROVE Numbers'
  BY <1>4, DeliveringDoes, DeliversNumbers, AnnounceTypes, CloseNumbers DEF Work
<1>5. ASSUME NEW c \in Client, Close(c) PROVE Numbers'
  BY <1>5, CloseTypes, CloseNumbers
<1> QED
  BY <1>1, <1>2, <1>3, <1>4, <1>5 DEF Next
-----------------------------------------------------------------------------
(* Views.                                                                  *)

\* Views depend on the view's own end, and on what the two readers carry.
LEMMA SameView ==
    ASSUME NEW p \in Player, NEW q \in Player, View(p, q),
           outbox'[p] = outbox[p], inbox'[p] = inbox[p], link'[p] = link[p],
           Carried(p)' = Carried(p), Carried(q)' = Carried(q),
           requests' = requests, links' = links
    PROVE  View(p, q)'
<1>1. CASE Pulled(ToSet(outbox[p]), p, q)
  BY <1>1 DEF View
<1>2. CASE Sees(p, q)
  <2>1. Sees(p, q)'
    BY <1>2 DEF Sees
  <2> QED
    BY <2>1 DEF View
<1> QED
  BY <1>1, <1>2 DEF View

\* What p says is there, and the rest of its outbox still is.
LEMMA SaidThere ==
    ASSUME Types, NEW p \in Player, NEW m \in Mail(p), Says(p, m)
    PROVE  ToSet(outbox'[p]) = ToSet(outbox[p]) \union {m}
BY AppendPlaces DEF Types, Wired, OutTyped, Says

\* What a player says of another is in its outbox, if the other stays.
LEMMA HeardThere ==
    ASSUME Types, NEW p \in Player, NEW q \in Player, p # q, NEW n \in 0..MaxTurns,
           NEW kind \in UrgentKinds \ {"accept"}, SaysIfHeard(p, kind, q, n)
    PROVE  /\ ToSet(outbox[p]) \subseteq ToSet(outbox'[p])
           /\ \A m \in ToSet(outbox'[p]) : m.kind = "accept" => m \in ToSet(outbox[p])
           /\ kind = "unlink" /\ q \in Staying => Pulled(ToSet(outbox'[p]), p, q)
<1> DEFINE m == Say(kind, p, q, n)
<1>1. m \in Mail(p) /\ m.kind = kind /\ m.from = p /\ m.to = q
  BY MailSaid
<1> HIDE DEF m
<1>2. CASE Says(p, m)
  <2>1. ToSet(outbox'[p]) = ToSet(outbox[p]) \union {m}
    BY <1>1, <1>2, SaidThere
  <2> QED
    BY <1>1, <2>1 DEF Pulled, IsUnlink
<1>3. CASE outbox'[p] = outbox[p] /\ TRUE \in Refusals(p, q)
  BY <1>3, Refusing
<1> QED
  BY <1>2, <1>3 DEF SaysIfHeard, m

\* An end that stays, or was not tied to q, sees q as before.
LEMMA EndSees ==
    ASSUME Types, NEW p \in Player, NEW q \in Player, FrontMoves(p), p # q, Sees(p, q),
           link'[p] = link[p] \/ (link'[p] = NoLink /\ ~ Tied(link[p], q)),
           \/ inbox'[p] = inbox[p]
           \/ /\ inbox[p] # <<>> /\ inbox'[p] = Tail(inbox[p])
              /\ ~ IsUnlink(Head(inbox[p]), q, p) /\ ~ IsAccept(Head(inbox[p]), q, p),
           \A m \in ToSet(outbox'[p]) : m.kind = "accept" => m \in ToSet(outbox[p])
    PROVE  Sees(p, q)'
<1> DEFINE L == link[p]
           L2 == link'[p]
           O == ToSet(outbox[p])
           O2 == ToSet(outbox'[p])
           B == inbox[p]
           B2 == inbox'[p]
           W == Carried(p)
           H == Carried(q)
<1>1. Carried(p)' = W /\ Carried(q)' = H /\ requests' = requests /\ links' = links
  BY DEF FrontMoves, Carried, rosterVars
<1>2. Fine(p, q, L, O, B, W, H, requests, links)
  BY DEF Sees
<1>3. B \in Seq(News(p) \union {Left(c) : c \in closing})
  BY DEF Types, Wired, InTyped
<1>4. Fine(p, q, L2, O2, B, W, H, requests, links)
  <2>1. Tied(L, q) => Tied(L2, q) /\ L2.nonce = L.nonce
    OBVIOUS
  <2>2. \A n : NoLink # Phase("requesting", q, n) /\ NoLink # Phase("incoming", q, n)
    BY DEF NoLink, Phase
  <2>3. \A n : L2 = Phase("requesting", q, n) => L = L2
    BY <2>2
  <2>4. \A n : L2 = Phase("incoming", q, n) => L = L2
    BY <2>2
  <2>5. \A n : Say("accept", p, q, n) \in O2 => Say("accept", p, q, n) \in O
    BY DEF Say
  <2> HIDE DEF L, L2, O, O2, B, W, H
  <2> QED
    BY <1>2, <2>1, <2>3, <2>4, <2>5, FineEnd
<1>5. Fine(p, q, L2, O2, B2, W, H, requests, links)
  <2>1. CASE B2 = B
    BY <1>4, <2>1
  <2>2. CASE /\ B # <<>> /\ B2 = Tail(B)
             /\ ~ IsUnlink(Head(B), q, p) /\ ~ IsAccept(Head(B), q, p)
    <3> HIDE DEF L, L2, O, O2, B, B2, W, H
    <3> QED
      BY <1>3, <1>4, <2>2, FineTail
  <2> QED
    BY <2>1, <2>2
<1> QED
  BY <1>1, <1>5 DEF Sees

\* Accepts on their way, and requests that stand, are of turns that were taken.
LEMMA AcceptNumbered ==
    ASSUME Types, Numbers, NEW p \in Player, NEW q \in Player,
           NEW m \in Carried(q) \union ToSet(inbox[p]), IsAccept(m, q, p)
    PROVE  m \in Letter /\ m = Say("accept", q, p, m.nonce)
           /\ Say("request", p, q, m.nonce) \in Ask /\ Answered(Say("request", p, q, m.nonce))
           /\ m.nonce \in 1..turn
<1> DEFINE o == Say("request", p, q, m.nonce)
<1>1. m \in Letter
  <2>1. CASE m \in Carried(q)
    <3>1. PICK j \in Task(q) : m = j.message
      BY <2>1 DEF Types, Wired, ReadTyped, Carried, Carry, ToSet
    <3> QED
      BY <3>1, JobIs DEF Task, Mail, News
  <2>2. CASE m \in ToSet(inbox[p])
    <3>0. inbox[p] \in Seq(News(p) \union {Left(c) : c \in closing})
      BY DEF Types, Wired, InTyped
    <3>1. m \in News(p) \union {Left(c) : c \in closing}
      BY <2>2, <3>0 DEF ToSet
    <3>2. \A c : Left(c).kind = "left"
      BY DEF Left, Say
    <3> QED
      BY <3>1, <3>2 DEF News, IsAccept
  <2> QED
    BY <2>1, <2>2
<1>2. m = Say("accept", q, p, m.nonce) /\ m.nonce \in 0..MaxTurns
  BY <1>1, LetterIs DEF IsAccept
<1>3. o \in Ask /\ o.from = p /\ o.to = q /\ o.nonce = m.nonce /\ Answer(o, "accept") = m
  BY <1>2 DEF Ask, Letter, Say, Answer, UrgentKinds
<1>4. Answered(o)
  BY <1>3 DEF Answered
<1>5. o.nonce \in 1..turn
  BY <1>3, <1>4 DEF Numbers, Numbered, Mentioned
<1> QED
  BY <1>1, <1>2, <1>3, <1>4, <1>5

\* A request on record was made, and has its number.
LEMMA RequestNumbered ==
    ASSUME Types, Numbers, NEW p \in Player, NEW q \in Player, NEW n, <<q, p, n>> \in requests
    PROVE  Say("request", q, p, n) \in Ask /\ Answered(Say("request", q, p, n))
           /\ n \in 1..MaxTurns /\ n \in 1..turn
<1> DEFINE o == Say("request", q, p, n)
<1>1. n \in 0..MaxTurns
  BY DEF Types, Typed
<1>2. o \in Ask /\ o.from = q /\ o.to = p /\ o.nonce = n
  BY <1>1 DEF Ask, Letter, Say, UrgentKinds
<1>3. Answered(o)
  BY <1>2 DEF Answered
<1>4. n \in 1..turn
  BY <1>2, <1>3 DEF Numbers, Numbered, Mentioned
<1>5. n \in 1..MaxTurns
  BY <1>4, TurnIn
<1> QED
  BY <1>2, <1>3, <1>4, <1>5
\* The frontend's own steps, one by one: what q is to p.
LEMMA RequestSees ==
    ASSUME Types, Numbers, NEW p \in Player, NEW q \in Staying, p # q, Sees(p, q),
           NEW r \in Player, Request(p, r)
    PROVE  Sees(p, q)'
<1> DEFINE k == turn + 1
           L2 == link'[p]
           O == ToSet(outbox[p])
           O2 == ToSet(outbox'[p])
           B == inbox[p]
           W == Carried(p)
           H == Carried(q)
<1>1. /\ FrontMoves(p) /\ inbox'[p] = inbox[p] /\ turn < MaxTurns
      /\ link[p] = NoLink /\ r \in peers[p] /\ r # p
      /\ \/ Says(p, Say("request", p, r, k)) /\ link'[p] = Phase("requesting", r, k)
         \/ outbox'[p] = outbox[p] /\ link'[p] = NoLink
  BY RequestDoes DEF Types, Wired, FrontTyped
<1>2. q \in Player /\ turn \in 0..MaxTurns /\ MaxTurns \in Nat /\ k \in 0..MaxTurns
  BY <1>1, TurnIn DEF Staying
<1>3. CASE outbox'[p] = outbox[p] /\ link'[p] = NoLink
  BY <1>1, <1>2, <1>3, EndSees
<1>4. CASE Says(p, Say("request", p, r, k)) /\ link'[p] = Phase("requesting", r, k)
  <2>1. Carried(p)' = W /\ Carried(q)' = H /\ requests' = requests /\ links' = links
    BY <1>1 DEF FrontMoves, Carried, rosterVars
  <2>2. ~ Tied(NoLink, q) /\ Fine(p, q, NoLink, O, B, W, H, requests, links)
    BY <1>1 DEF Sees, Tied, NoLink
  <2>3. O2 = O \union {Say("request", p, r, k)}
    <3>1. "request" \in UrgentKinds
      BY DEF UrgentKinds
    <3>2. Say("request", p, r, k) \in Mail(p)
      BY <1>1, <1>2, <3>1, MailSaid
    <3> QED
      BY <1>4, <3>2, SaidThere
  <2>4. \A n : Say("accept", p, q, n) \in O2 => Say("accept", p, q, n) \in O
    BY <2>3 DEF Say
  <2>5. \A n : L2 = Phase("requesting", q, n) => n = k
    BY <1>4 DEF Phase
  <2>6. \A n : L2 # Phase("incoming", q, n)
    BY <1>4 DEF Phase
  <2>7. \A m \in H : IsAccept(m, q, p) => m.nonce # k
    <3>1. ASSUME NEW m \in H, IsAccept(m, q, p), m.nonce = k PROVE FALSE
      <4>1. m.nonce \in 1..turn
        BY <1>2, <3>1, AcceptNumbered
      <4> QED
        BY <1>2, <3>1, <4>1
    <3> QED
      BY <3>1
  <2>8. \A i \in DOMAIN B : IsAccept(B[i], q, p) => B[i].nonce # k
    <3>1. ASSUME NEW i \in DOMAIN B, IsAccept(B[i], q, p), B[i].nonce = k PROVE FALSE
      <4>1. B[i] \in ToSet(inbox[p])
        BY DEF ToSet
      <4>2. B[i].nonce \in 1..turn
        BY <1>2, <3>1, <4>1, AcceptNumbered
      <4> QED
        BY <1>2, <3>1, <4>2
    <3> QED
      BY <3>1
  <2> HIDE DEF L2, O, O2, B, W, H, k
  <2>9. Fine(p, q, L2, O2, B, W, H, requests, links)
    BY <2>2, <2>4, <2>5, <2>6, <2>7, <2>8, FineEnd
  <2> QED
    BY <1>1, <2>1, <2>9 DEF Sees, L2, O2, B
<1> QED
  BY <1>1, <1>3, <1>4

\* Each step of a frontend keeps what there is between it and another player, or its
\* own Unlink is on its way then.
LEMMA HearRequestSees ==
    ASSUME Types, Numbers, NEW p \in Player, NEW q \in Staying, p # q, Sees(p, q), HearRequest(p)
    PROVE  Sees(p, q)'
<1> DEFINE m == Head(inbox[p])
           L2 == Phase("incoming", m.from, m.nonce)
           O == ToSet(outbox[p])
           B == inbox[p]
           W == Carried(p)
           H == Carried(q)
<1>1. /\ FrontMoves(p) /\ inbox[p] # <<>> /\ m.kind = "request" /\ inbox'[p] = Tail(inbox[p])
      /\ \/ /\ link[p] = NoLink /\ outbox'[p] = outbox[p]
            /\ link'[p] = Phase("incoming", m.from, m.nonce)
         \/ link'[p] = link[p] /\ SaysIfHeard(p, "decline", m.from, m.nonce)
  BY HearRequestDoes DEF Types, Listens
<1>2. q \in Player /\ "request" \in UrgentKinds /\ "decline" \in UrgentKinds \ {"accept"}
  BY DEF Staying, UrgentKinds
<1>3. m = Say("request", m.from, p, m.nonce) /\ m.from \in Player /\ m.from # p /\ m.nonce \in 0..MaxTurns
  BY <1>1, <1>2, HeadNews
<1>4. ~ IsUnlink(m, q, p) /\ ~ IsAccept(m, q, p)
  BY <1>1 DEF IsUnlink, IsAccept
<1>5. CASE link'[p] = link[p] /\ SaysIfHeard(p, "decline", m.from, m.nonce)
  <2>1. \A o \in ToSet(outbox'[p]) : o.kind = "accept" => o \in ToSet(outbox[p])
    BY <1>2, <1>3, <1>5, HeardThere
  <2> QED
    BY <1>1, <1>2, <1>4, <1>5, <2>1, EndSees
<1>6. CASE link[p] = NoLink /\ outbox'[p] = outbox[p] /\ link'[p] = L2
  <2>1. Carried(p)' = W /\ Carried(q)' = H /\ requests' = requests /\ links' = links
    BY <1>1 DEF FrontMoves, Carried, rosterVars
  <2>2. ~ Tied(NoLink, q) /\ Fine(p, q, NoLink, O, B, W, H, requests, links)
    BY <1>6 DEF Sees, Tied, NoLink
  <2>3. B \in Seq(News(p) \union {Left(c) : c \in closing}) /\ B # <<>>
    BY <1>1 DEF Types, Wired, InTyped
  <2>4. Head(B) = B[1] /\ 1 \in DOMAIN B /\ \A j \in DOMAIN B : ~ (j < 1)
    <3>1. DOMAIN B = 1..Len(B) /\ Len(B) \in Nat
      BY <2>3
    <3> QED
      BY <2>3, <3>1, TailPlaces
  <2>5. ASSUME NEW n, L2 = Phase("incoming", q, n), <<q, p, n>> \in requests
        PROVE  ~ Threat(B, W, H, p, q)
    <3>1. n \in 1..MaxTurns
      BY <1>2, <2>5, RequestNumbered
    <3>2. HereFine(p, q, NoLink, B, W, H, n)
      BY <2>2, <2>5, <3>1 DEF Fine
    <3>3. B[1] = Say("request", q, p, n)
      BY <1>3, <2>4, <2>5 DEF Phase
    <3>4. ~ Coming(W, H, p, q) /\ Ahead(B, p, q, 1)
      BY <2>2, <2>4, <3>2, <3>3 DEF HereFine
    <3>5. ~ Waits(B, p, q)
      BY <2>4, <3>4 DEF Ahead, Waits
    <3> QED
      BY <3>4, <3>5 DEF Threat
  <2>6. \A n : L2 # Phase("requesting", q, n)
    BY DEF Phase
  <2> HIDE DEF L2, O, B, W, H
  <2>7. Fine(p, q, L2, O, B, W, H, requests, links)
    BY <2>2, <2>5, <2>6, FineEnd
  <2>8. Fine(p, q, L2, O, Tail(B), W, H, requests, links)
    BY <1>4, <2>3, <2>7, FineTail DEF B
  <2> QED
    BY <1>1, <1>6, <2>1, <2>8 DEF Sees, O, B
<1> QED
  BY <1>1, <1>5, <1>6

LEMMA AcceptSees ==
    ASSUME Types, Numbers, NEW p \in Player, NEW q \in Staying, p # q, Sees(p, q), Accept(p)
    PROVE  Sees(p, q)'
<1> DEFINE L == link[p]
           r == link[p].peer
           k == link[p].nonce
           L2 == Phase("holding", r, k)
           O == ToSet(outbox[p])
           O2 == ToSet(outbox'[p])
           B == inbox[p]
           W == Carried(p)
           H == Carried(q)
<1>1. /\ FrontMoves(p) /\ inbox'[p] = inbox[p] /\ link[p].phase = "incoming"
      /\ \/ Says(p, Say("accept", p, r, k)) /\ link'[p] = L2
         \/ outbox'[p] = outbox[p] /\ link'[p] = link[p]
         \/ SaysIfHeard(p, "decline", r, k) /\ link'[p] = NoLink
  BY AcceptDoes DEF Types
<1>2. link[p] # NoLink /\ ~ Tied(link[p], q) /\ q \in Player
  BY <1>1 DEF NoLink, Tied, Staying
<1>3. /\ r \in Player /\ r # p /\ k \in 0..MaxTurns /\ L = Phase("incoming", r, k)
      /\ "accept" \in UrgentKinds /\ "decline" \in UrgentKinds \ {"accept"}
  BY <1>1, <1>2, EndIs DEF UrgentKinds
<1>4. CASE outbox'[p] = outbox[p] /\ link'[p] = link[p]
  BY <1>1, <1>2, <1>4, EndSees
<1>5. CASE SaysIfHeard(p, "decline", r, k) /\ link'[p] = NoLink
  <2>1. \A o \in ToSet(outbox'[p]) : o.kind = "accept" => o \in ToSet(outbox[p])
    BY <1>3, <1>5, HeardThere
  <2> QED
    BY <1>1, <1>2, <1>5, <2>1, EndSees
<1>6. CASE Says(p, Say("accept", p, r, k)) /\ link'[p] = L2
  <2>1. Carried(p)' = W /\ Carried(q)' = H /\ requests' = requests /\ links' = links
    BY <1>1 DEF FrontMoves, Carried, rosterVars
  <2>2. Fine(p, q, L, O, B, W, H, requests, links)
    BY DEF Sees
  <2>3. O2 = O \union {Say("accept", p, r, k)}
    BY <1>3, <1>6, MailSaid, SaidThere
  <2>4. \A n : L2 # Phase("requesting", q, n) /\ L2 # Phase("incoming", q, n)
    BY DEF Phase
  <2>5. ASSUME NEW n, Say("accept", p, q, n) \in O2, <<q, p, n>> \in requests,
               Say("accept", p, q, n) \notin O
        PROVE  Tied(L2, q) /\ L2.nonce = n /\ ~ Threat(B, W, H, p, q)
    <3>1. Say("accept", p, q, n) = Say("accept", p, r, k)
      BY <2>3, <2>5
    <3>2. q = r /\ n = k
      BY <3>1 DEF Say
    <3>3. n \in 1..MaxTurns
      BY <1>2, <2>5, RequestNumbered
    <3>4. SeenFine(p, q, L, B, W, H, n)
      BY <2>2, <2>5, <3>3 DEF Fine
    <3> QED
      BY <1>3, <3>2, <3>4 DEF SeenFine, Tied, Phase
  <2>6. ~ Tied(L, q)
    BY <1>2
  <2> HIDE DEF L, L2, O, O2, B, W, H, r, k
  <2>7. Fine(p, q, L2, O2, B, W, H, requests, links)
    BY <2>2, <2>4, <2>5, <2>6, FineEnd
  <2> QED
    BY <1>1, <1>6, <2>1, <2>7 DEF Sees, O2, B
<1> QED
  BY <1>1, <1>4, <1>5, <1>6

LEMMA HoldSees ==
    ASSUME Types, NEW p \in Player, NEW q \in Staying, p # q, Sees(p, q), Hold(p)
    PROVE  View(p, q)'
<1> DEFINE L == link[p]
           r == link[p].peer
           k == link[p].nonce
           L2 == Phase("starting", r, k)
           O == ToSet(outbox[p])
           O2 == ToSet(outbox'[p])
           B == inbox[p]
           W == Carried(p)
           H == Carried(q)
<1>1. /\ FrontMoves(p) /\ inbox'[p] = inbox[p] /\ link[p].phase = "holding"
      /\ \/ Says(p, Say("start", p, r, k)) /\ link'[p] = L2
         \/ outbox'[p] = outbox[p] /\ TRUE \in Refusals(p, r) /\ link'[p] = NoLink
         \/ SaysIfHeard(p, "unlink", r, 0) /\ link'[p] = NoLink
  BY HoldDoes DEF Types
<1>2. link[p] # NoLink /\ q \in Player
  BY <1>1 DEF NoLink, Staying
<1>3. /\ r \in Player /\ r # p /\ k \in 0..MaxTurns /\ L = Phase("holding", r, k)
      /\ "start" \in UrgentKinds /\ "unlink" \in UrgentKinds \ {"accept"} /\ 0 \in 0..MaxTurns
  BY <1>1, <1>2, EndIs, TurnIn DEF UrgentKinds
<1>4. r # q => ~ Tied(link[p], q)
  BY DEF Tied
<1>5. CASE outbox'[p] = outbox[p] /\ TRUE \in Refusals(p, r) /\ link'[p] = NoLink
  <2>1. r # q
    BY <1>3, <1>5, Refusing
  <2> QED
    BY <1>1, <1>2, <1>4, <1>5, <2>1, EndSees DEF View
<1>6. CASE SaysIfHeard(p, "unlink", r, 0) /\ link'[p] = NoLink
  <2>1. /\ \A o \in ToSet(outbox'[p]) : o.kind = "accept" => o \in ToSet(outbox[p])
        /\ r = q => Pulled(ToSet(outbox'[p]), p, q)
    BY <1>3, <1>6, HeardThere
  <2>2. CASE r = q
    BY <2>1, <2>2 DEF View
  <2>3. CASE r # q
    BY <1>1, <1>2, <1>4, <1>6, <2>1, <2>3, EndSees DEF View
  <2> QED
    BY <2>2, <2>3
<1>7. CASE Says(p, Say("start", p, r, k)) /\ link'[p] = L2
  <2>1. Carried(p)' = W /\ Carried(q)' = H /\ requests' = requests /\ links' = links
    BY <1>1 DEF FrontMoves, Carried, rosterVars
  <2>2. Fine(p, q, L, O, B, W, H, requests, links)
    BY DEF Sees
  <2>3. O2 = O \union {Say("start", p, r, k)}
    <3>1. Say("start", p, r, k) \in Mail(p)
      BY <1>3, MailSaid
    <3> QED
      BY <1>7, <3>1, SaidThere
  <2>4. \A n : L2 # Phase("requesting", q, n) /\ L2 # Phase("incoming", q, n)
    BY DEF Phase
  <2>5. \A n : Say("accept", p, q, n) \in O2 => Say("accept", p, q, n) \in O
    BY <2>3 DEF Say
  <2>6. Tied(L, q) => Tied(L2, q) /\ L2.nonce = L.nonce
    BY <1>3 DEF Tied, Phase
  <2> HIDE DEF L, L2, O, O2, B, W, H, r, k
  <2>7. Fine(p, q, L2, O2, B, W, H, requests, links)
    BY <2>2, <2>4, <2>5, <2>6, FineEnd
  <2> QED
    BY <1>1, <1>7, <2>1, <2>7 DEF Sees, View, O2, B
<1> QED
  BY <1>1, <1>5, <1>6, <1>7

LEMMA HearAcceptSees ==
    ASSUME Types, Numbers, NEW p \in Player, NEW q \in Staying, p # q, Sees(p, q), HearAccept(p)
    PROVE  View(p, q)'
<1> DEFINE L == link[p]
           m == Head(inbox[p])
           r == m.from
           k == m.nonce
           L2 == Phase("holding", r, k)
           O == ToSet(outbox[p])
           B == inbox[p]
           W == Carried(p)
           H == Carried(q)
<1>1. /\ FrontMoves(p) /\ inbox[p] # <<>> /\ m.kind = "accept" /\ inbox'[p] = Tail(inbox[p])
      /\ \/ /\ link[p] = Phase("requesting", r, k)
            /\ link'[p] = L2 /\ outbox'[p] = outbox[p]
         \/ /\ link'[p] = link[p] /\ SaysIfHeard(p, "unlink", r, 0)
  BY HearAcceptDoes DEF Types, Listens
<1>2. /\ q \in Player /\ "accept" \in UrgentKinds /\ "unlink" \in UrgentKinds \ {"accept"}
      /\ 0 \in 0..MaxTurns
  BY TurnIn DEF Staying, UrgentKinds
<1>3. m \in ToSet(inbox[p]) /\ m = Say("accept", r, p, k) /\ r \in Player /\ r # p /\ k \in 0..MaxTurns
  BY <1>1, <1>2, HeadNews
<1>4. ~ IsUnlink(m, q, p) /\ (r # q => ~ IsAccept(m, q, p))
  BY <1>1 DEF IsUnlink, IsAccept
<1>5. CASE link'[p] = link[p] /\ SaysIfHeard(p, "unlink", r, 0)
  <2>1. /\ \A o \in ToSet(outbox'[p]) : o.kind = "accept" => o \in ToSet(outbox[p])
        /\ r = q => Pulled(ToSet(outbox'[p]), p, q)
    BY <1>2, <1>3, <1>5, HeardThere
  <2>2. CASE r = q
    BY <2>1, <2>2 DEF View
  <2>3. CASE r # q
    <3>1. Sees(p, q)'
      BY <1>1, <1>2, <1>4, <1>5, <2>1, <2>3, EndSees
    <3> QED
      BY <3>1 DEF View
  <2> QED
    BY <2>2, <2>3
<1>6. CASE link[p] = Phase("requesting", r, k) /\ link'[p] = L2 /\ outbox'[p] = outbox[p]
  <2>1. Carried(p)' = W /\ Carried(q)' = H /\ requests' = requests /\ links' = links
    BY <1>1 DEF FrontMoves, Carried, rosterVars
  <2>2. Fine(p, q, L, O, B, W, H, requests, links)
    BY DEF Sees
  <2>3. B \in Seq(News(p) \union {Left(c) : c \in closing}) /\ B # <<>>
    BY <1>1 DEF Types, Wired, InTyped
  <2>4. Fine(p, q, L2, O, Tail(B), W, H, requests, links)
    <3>1. CASE r = q
      <4>1. <<q, p, k>> \notin requests
        <5> SUFFICES ASSUME <<q, p, k>> \in requests PROVE FALSE
          OBVIOUS
        <5>1. Say("request", q, p, k) \in Ask /\ Mentioned(Say("request", q, p, k))
          BY <1>2, RequestNumbered DEF Mentioned
        <5>2. IsAccept(m, q, p) /\ m \in Carried(q) \union ToSet(inbox[p])
          BY <1>1, <1>3, <3>1 DEF IsAccept, Say
        <5>3. Say("request", p, q, m.nonce) \in Ask /\ Mentioned(Say("request", p, q, m.nonce))
          BY <1>2, <5>2, AcceptNumbered DEF Mentioned
        <5>4. Say("request", q, p, k) = Say("request", p, q, k)
          BY <5>1, <5>3 DEF Numbers, OneAsker, Say
        <5> QED
          BY <5>4 DEF Say
      <4>2. Head(B) = Say("accept", q, p, k) /\ L = Phase("requesting", q, k) /\ L2 = Phase("holding", q, k)
        BY <1>3, <1>6, <3>1
      <4> HIDE DEF L, L2, O, B, W, H, r, k, m
      <4> QED
        BY <2>2, <2>3, <4>1, <4>2, FineAccepted
    <3>2. CASE r # q
      <4>1. ~ Tied(L, q)
        BY <1>6 DEF Tied, Phase
      <4>2. \A n : L2 # Phase("requesting", q, n) /\ L2 # Phase("incoming", q, n)
        BY DEF Phase
      <4>3. ~ IsUnlink(Head(B), q, p) /\ ~ IsAccept(Head(B), q, p)
        BY <1>4, <3>2
      <4> HIDE DEF L, L2, O, B, W, H, r, k, m
      <4>4. Fine(p, q, L2, O, B, W, H, requests, links)
        BY <2>2, <4>1, <4>2, FineEnd
      <4> QED
        BY <2>3, <4>3, <4>4, FineTail
    <3> QED
      BY <3>1, <3>2
  <2> HIDE DEF L, L2, O, B, W, H, r, k, m
  <2> QED
    BY <1>1, <1>6, <2>1, <2>4 DEF Sees, View, O, B
<1> QED
  BY <1>1, <1>5, <1>6

LEMMA HearStartSees ==
    ASSUME Types, NEW p \in Player, NEW q \in Staying, p # q, Sees(p, q), HearStart(p)
    PROVE  View(p, q)'
<1> DEFINE L == link[p]
           m == Head(inbox[p])
           r == m.from
           k == m.nonce
           L2 == Phase("plugged", r, k)
           O == ToSet(outbox[p])
           B == inbox[p]
           W == Carried(p)
           H == Carried(q)
<1>1. /\ FrontMoves(p) /\ inbox[p] # <<>> /\ m.kind = "start" /\ inbox'[p] = Tail(inbox[p])
      /\ \/ link'[p] = link[p] /\ outbox'[p] = outbox[p]
         \/ link[p] = Phase("starting", r, k) /\ link'[p] = L2 /\ outbox'[p] = outbox[p]
         \/ link[p] = Phase("starting", r, k) /\ link'[p] = NoLink /\ SaysIfHeard(p, "unlink", r, 0)
  BY HearStartDoes DEF Types, Listens
<1>2. /\ q \in Player /\ "start" \in UrgentKinds /\ "unlink" \in UrgentKinds \ {"accept"}
      /\ 0 \in 0..MaxTurns
  BY TurnIn DEF Staying, UrgentKinds
<1>3. r \in Player /\ r # p
  BY <1>1, <1>2, HeadNews
<1>4. ~ IsUnlink(m, q, p) /\ ~ IsAccept(m, q, p)
  BY <1>1 DEF IsUnlink, IsAccept
<1>5. CASE link'[p] = link[p] /\ outbox'[p] = outbox[p]
  BY <1>1, <1>2, <1>4, <1>5, EndSees DEF View
<1>6. CASE link[p] = Phase("starting", r, k) /\ link'[p] = NoLink /\ SaysIfHeard(p, "unlink", r, 0)
  <2>1. /\ \A o \in ToSet(outbox'[p]) : o.kind = "accept" => o \in ToSet(outbox[p])
        /\ r = q => Pulled(ToSet(outbox'[p]), p, q)
    BY <1>2, <1>3, <1>6, HeardThere
  <2>2. CASE r = q
    BY <2>1, <2>2 DEF View
  <2>3. CASE r # q
    <3>1. ~ Tied(link[p], q)
      BY <1>6, <2>3 DEF Tied, Phase
    <3>2. Sees(p, q)'
      BY <1>1, <1>2, <1>4, <1>6, <2>1, <3>1, EndSees
    <3> QED
      BY <3>2 DEF View
  <2> QED
    BY <2>2, <2>3
<1>7. CASE link[p] = Phase("starting", r, k) /\ link'[p] = L2 /\ outbox'[p] = outbox[p]
  <2>1. Carried(p)' = W /\ Carried(q)' = H /\ requests' = requests /\ links' = links
    BY <1>1 DEF FrontMoves, Carried, rosterVars
  <2>2. Fine(p, q, L, O, B, W, H, requests, links)
    BY DEF Sees
  <2>3. B \in Seq(News(p) \union {Left(c) : c \in closing}) /\ B # <<>>
    BY <1>1 DEF Types, Wired, InTyped
  <2>4. Tied(L, q) => Tied(L2, q) /\ L2.nonce = L.nonce
    BY <1>7 DEF Tied, Phase
  <2>5. \A n : L2 # Phase("requesting", q, n) /\ L2 # Phase("incoming", q, n)
    BY DEF Phase
  <2>6. ~ IsUnlink(Head(B), q, p) /\ ~ IsAccept(Head(B), q, p)
    BY <1>4
  <2> HIDE DEF L, L2, O, B, W, H, r, k, m
  <2>7. Fine(p, q, L2, O, B, W, H, requests, links)
    BY <2>2, <2>4, <2>5, FineEnd
  <2>8. Fine(p, q, L2, O, Tail(B), W, H, requests, links)
    BY <2>3, <2>6, <2>7, FineTail
  <2> QED
    BY <1>1, <1>7, <2>1, <2>8 DEF Sees, View, O, B
<1> QED
  BY <1>1, <1>5, <1>6, <1>7

LEMMA HearUnlinkSees ==
    ASSUME Types, NEW p \in Player, NEW q \in Staying, p # q, Sees(p, q), HearUnlink(p)
    PROVE  Sees(p, q)'
<1> DEFINE L == link[p]
           m == Head(inbox[p])
           L2 == IF L.peer = q THEN NoLink ELSE L
           O == ToSet(outbox[p])
           B == inbox[p]
           W == Carried(p)
           H == Carried(q)
<1>1. /\ FrontMoves(p) /\ inbox[p] # <<>> /\ m.kind = "unlink" /\ inbox'[p] = Tail(inbox[p])
      /\ outbox'[p] = outbox[p]
      /\ link'[p] = IF link[p].peer = m.from THEN NoLink ELSE link[p]
  BY HearUnlinkDoes DEF Types, Listens
<1>2. q \in Player /\ "unlink" \in UrgentKinds /\ q # Nobody
  BY NobodyAssumption DEF Staying, UrgentKinds, Player
<1>3. m = Say("unlink", m.from, p, m.nonce)
  BY <1>1, <1>2, HeadNews
<1>4. CASE m.from = q
  <2>1. Carried(p)' = W /\ Carried(q)' = H /\ requests' = requests /\ links' = links
    BY <1>1 DEF FrontMoves, Carried, rosterVars
  <2>2. Fine(p, q, L, O, B, W, H, requests, links)
    BY DEF Sees
  <2>3. B \in Seq(News(p) \union {Left(c) : c \in closing}) /\ B # <<>>
    BY <1>1 DEF Types, Wired, InTyped
  <2>4. IsUnlink(Head(B), q, p)
    BY <1>1, <1>3, <1>4 DEF IsUnlink, Say
  <2>5. link'[p] = L2
    BY <1>1, <1>4
  <2> HIDE DEF L, O, B, W, H, m
  <2>6. Fine(p, q, L2, O, Tail(B), W, H, requests, links)
    BY <1>2, <2>2, <2>3, <2>4, FineUnlinked
  <2> HIDE DEF L2
  <2> QED
    BY <1>1, <2>1, <2>5, <2>6 DEF Sees, O, B
<1>5. CASE m.from # q
  <2>1. ~ IsUnlink(m, q, p) /\ ~ IsAccept(m, q, p)
    BY <1>1, <1>5 DEF IsUnlink, IsAccept
  <2>2. link'[p] = link[p] \/ (link'[p] = NoLink /\ ~ Tied(link[p], q))
    BY <1>1, <1>5 DEF Tied
  <2> QED
    BY <1>1, <1>2, <2>1, <2>2, EndSees
<1> QED
  BY <1>4, <1>5

LEMMA EndingSees ==
    ASSUME Types, NEW p \in Player, NEW q \in Staying, p # q, Sees(p, q),
           HearDecline(p) \/ HearLeft(p)
    PROVE  Sees(p, q)'
<1> DEFINE m == Head(inbox[p])
<1>1. q \in Player /\ Types /\ Wired
  BY DEF Staying, Types
<1>2. CASE HearDecline(p)
  <2>1. /\ FrontMoves(p) /\ inbox[p] # <<>> /\ m.kind = "decline" /\ inbox'[p] = Tail(inbox[p])
        /\ outbox'[p] = outbox[p]
        /\ \/ link'[p] = link[p]
           \/ link[p].phase = "requesting" /\ link'[p] = NoLink
    BY <1>1, <1>2, HearDeclineDoes DEF Listens
  <2>2. ~ IsUnlink(m, q, p) /\ ~ IsAccept(m, q, p)
    BY <2>1 DEF IsUnlink, IsAccept
  <2>3. link'[p] = link[p] \/ (link'[p] = NoLink /\ ~ Tied(link[p], q))
    BY <2>1 DEF Tied
  <2> QED
    BY <1>1, <2>1, <2>2, <2>3, EndSees
<1>3. CASE HearLeft(p)
  <2>1. /\ FrontMoves(p) /\ inbox[p] # <<>> /\ m.kind = "left" /\ inbox'[p] = Tail(inbox[p])
        /\ outbox'[p] = outbox[p]
        /\ link'[p] = IF link[p].peer = m.from THEN NoLink ELSE link[p]
    BY <1>1, <1>3, HearLeftDoes DEF Listens
  <2>2. ~ IsUnlink(m, q, p) /\ ~ IsAccept(m, q, p)
    BY <2>1 DEF IsUnlink, IsAccept
  <2>3. m.from # q
    BY <2>1, HeadNews DEF Staying
  <2>4. link'[p] = link[p] \/ (link'[p] = NoLink /\ ~ Tied(link[p], q))
    BY <2>1, <2>3 DEF Tied
  <2> QED
    BY <1>1, <2>1, <2>2, <2>4, EndSees
<1> QED
  BY <1>2, <1>3

LEMMA PullSees ==
    ASSUME Types, NEW p \in Player, NEW q \in Staying, p # q, Sees(p, q), Pull(p)
    PROVE  View(p, q)'
<1> DEFINE r == link[p].peer
<1>1. /\ FrontMoves(p) /\ inbox'[p] = inbox[p] /\ link[p] # NoLink /\ link'[p] = NoLink
      /\ \/ link[p].phase = "incoming" /\ SaysIfHeard(p, "decline", r, link[p].nonce)
         \/ SaysIfHeard(p, "unlink", r, 0)
  BY PullDoes DEF Types
<1>2. /\ r \in Player /\ r # p /\ link[p].nonce \in 0..MaxTurns /\ 0 \in 0..MaxTurns /\ q \in Player
      /\ {"decline", "unlink"} \subseteq UrgentKinds \ {"accept"}
  BY <1>1, EndIs, TurnIn DEF UrgentKinds, Staying
<1>3. /\ \A o \in ToSet(outbox'[p]) : o.kind = "accept" => o \in ToSet(outbox[p])
      /\ link[p].phase = "incoming" \/ (r = q => Pulled(ToSet(outbox'[p]), p, q))
  BY <1>1, <1>2, HeardThere
<1>4. CASE link[p].phase # "incoming" /\ r = q
  BY <1>3, <1>4 DEF View
<1>5. CASE link[p].phase = "incoming" \/ r # q
  <2>1. ~ Tied(link[p], q)
    BY <1>5 DEF Tied
  <2>2. Sees(p, q)'
    BY <1>1, <1>2, <1>3, <2>1, EndSees
  <2> QED
    BY <2>2 DEF View
<1> QED
  BY <1>4, <1>5

\* No step of a frontend disturbs the view of another.
LEMMA FrontViews ==
    ASSUME Types, Numbers, Views, NEW p \in Player, Frontend(p)
    PROVE  Views'
<1>1. FrontStep(p) /\ FrontMoves(p)
  BY FrontSteps DEF FrontStep
<1>2. /\ Staying' = Staying
      /\ requests' = requests /\ links' = links
      /\ \A x \in Player : Carried(x)' = Carried(x)
      /\ \A x \in Player : x # p => outbox'[x] = outbox[x] /\ inbox'[x] = inbox[x] /\ link'[x] = link[x]
  BY <1>1 DEF FrontMoves, Carried, rosterVars, Staying
<1>3. Staying \subseteq Player
  BY DEF Staying
<1>4. ToSet(outbox[p]) \subseteq ToSet(outbox'[p])
  <2>1. CASE outbox'[p] = outbox[p]
    BY <2>1
  <2>2. CASE \E m \in Mail(p) : Says(p, m)
    BY <2>2, SaidThere
  <2> QED
    BY <1>1, <2>1, <2>2 DEF FrontStep
<1>5. ASSUME NEW q \in Staying, p # q, View(p, q) PROVE View(p, q)'
  <2>1. CASE Pulled(ToSet(outbox[p]), p, q)
    BY <1>4, <2>1 DEF View, Pulled
  <2>2. CASE Sees(p, q)
    <3>1. CASE \E r \in Player : Request(p, r)
      BY <1>5, <2>2, <3>1, RequestSees DEF View
    <3>2. CASE Accept(p) \/ HearRequest(p)
      BY <1>5, <2>2, <3>2, AcceptSees, HearRequestSees DEF View
    <3>3. CASE Hold(p) \/ HearAccept(p) \/ HearStart(p) \/ Pull(p)
      BY <1>5, <2>2, <3>3, HoldSees, HearAcceptSees, HearStartSees, PullSees
    <3>4. CASE HearUnlink(p) \/ HearDecline(p) \/ HearLeft(p)
      BY <1>5, <2>2, <3>4, HearUnlinkSees, EndingSees DEF View
    <3> QED
      BY <3>1, <3>2, <3>3, <3>4 DEF Frontend
  <2> QED
    BY <1>5, <2>1, <2>2 DEF View
<1>6. ASSUME NEW a \in Staying, NEW b \in Staying, a # b PROVE View(a, b)'
  <2>1. View(a, b)
    BY <1>6 DEF Views
  <2>2. CASE a = p
    BY <1>5, <1>6, <2>1, <2>2
  <2>3. CASE a # p
    BY <1>2, <1>3, <2>1, <2>3, SameView
  <2> QED
    BY <2>2, <2>3
<1> QED
  BY <1>2, <1>6 DEF Views
\* A step of p's reader that brings nothing that matters between a and b.
LEMMA RouteKeeps ==
    ASSUME Types, NEW p \in Player, RouteMoves(p), Carried(p) = {},
           ToSet(outbox'[p]) \subseteq ToSet(outbox[p]),
           NEW a \in Player, NEW b \in Player, View(a, b),
           a = p /\ Pulled(ToSet(outbox[p]), p, b) => Pulled(ToSet(outbox'[p]), p, b),
           \A o \in Carried(p)' : ~ IsUnlink(o, b, a),
           \A n : <<b, a, n>> \in requests' =>
                <<b, a, n>> \in requests /\ Say("request", b, a, n) \notin Carried(p)',
           <<a, b>> \in links' => <<a, b>> \in links,
           <<b, a>> \in links' => <<b, a>> \in links
    PROVE  View(a, b)'
<1> DEFINE L == link[a]
           O == ToSet(outbox[a])
           O2 == ToSet(outbox'[a])
           B == inbox[a]
           W == Carried(a)
           W2 == Carried(a)'
           H == Carried(b)
           H2 == Carried(b)'
<1>1. /\ inbox' = inbox /\ link' = link
      /\ \A x \in Player : x # p => outbox'[x] = outbox[x]
      /\ \A x \in Player : x # p => work'[Reader(x)] = work[Reader(x)]
  BY Threads DEF RouteMoves
<1>2. \A x \in Player : x # p => Carried(x)' = Carried(x)
  BY <1>1 DEF Carried
<1>3. CASE Pulled(ToSet(outbox[a]), a, b)
  BY <1>1, <1>3 DEF View
<1>4. CASE Sees(a, b)
  <2>1. Fine(a, b, L, O, B, W, H, requests, links)
    BY <1>4 DEF Sees
  <2>2. O2 \subseteq O
    BY <1>1
  <2>3. Comes(W2, a, b) => Comes(W, a, b)
    BY <1>2 DEF Comes
  <2>4. Comes(H2, a, b) => Comes(H, a, b)
    BY <1>2 DEF Comes
  <2>5. \A m \in H : IsAccept(m, b, a) => m \in H2
    BY <1>2
  <2>6. \A n : <<b, a, n>> \in requests' /\ Say("request", b, a, n) \in H2 => Say("request", b, a, n) \in H
    BY <1>2
  <2>7. link'[a] = L /\ inbox'[a] = B
    BY <1>1
  <2> HIDE DEF L, O, O2, B, W, H, W2, H2
  <2>8. Fine(a, b, L, O2, B, W2, H2, requests', links')
    BY <2>1, <2>2, <2>3, <2>4, <2>5, <2>6, FineKept
  <2> QED
    BY <2>7, <2>8 DEF View, Sees, O2, W2, H2
<1> QED
  BY <1>3, <1>4 DEF View

\* What p's reader has at hand after it took a letter, and what is left to take.
LEMMA RouteHands ==
    ASSUME Types, NEW p \in Player, NEW kind, NEW jobs, Routes(p, kind, jobs)
    PROVE  LET m == Head(outbox[p])
           IN /\ RouteMoves(p) /\ Carried(p) = {} /\ Carried(p)' = Carry(jobs, "deliver")
              /\ m \in ToSet(outbox[p]) /\ m.kind = kind /\ m = Say(kind, p, m.to, m.nonce)
              /\ m.from = p /\ m.to \in Player /\ m.to # p
              /\ ToSet(outbox'[p]) \subseteq ToSet(outbox[p])
              /\ \A b : Pulled(ToSet(outbox[p]), p, b) =>
                    Pulled(ToSet(outbox'[p]), p, b) \/ (kind = "unlink" /\ b = m.to)
              /\ closing' = closing /\ inbox' = inbox /\ link' = link
              /\ \A x \in Player : x # p => outbox'[x] = outbox[x] /\ Carried(x)' = Carried(x)
<1> DEFINE m == Head(outbox[p])
<1>1. /\ RouteMoves(p) /\ work[Reader(p)] = <<>> /\ work'[Reader(p)] = jobs
      /\ outbox[p] # <<>> /\ m.kind = kind /\ outbox'[p] = Tail(outbox[p])
  BY DEF Routes
<1>2. Carried(p) = {} /\ Carried(p)' = Carry(jobs, "deliver")
  BY <1>1, JobCarries DEF Carried
<1>3. /\ m \in ToSet(outbox[p]) /\ m = Say(kind, p, m.to, m.nonce)
      /\ m.from = p /\ m.to \in Player /\ m.to # p
  BY <1>1, HeadMail
<1>4. /\ ToSet(outbox'[p]) \subseteq ToSet(outbox[p])
      /\ ToSet(outbox[p]) = {m} \union ToSet(outbox'[p])
  BY <1>1, TailElements DEF Types, Wired, OutTyped
<1>5. \A b : Pulled(ToSet(outbox[p]), p, b) =>
                    Pulled(ToSet(outbox'[p]), p, b) \/ (kind = "unlink" /\ b = m.to)
  BY <1>1, <1>4 DEF Pulled, IsUnlink
<1>6. \A x \in Player : x # p => outbox'[x] = outbox[x] /\ Carried(x)' = Carried(x)
  BY <1>1, Threads DEF RouteMoves, Carried
<1>7. closing' = closing /\ inbox' = inbox /\ link' = link
  BY <1>1 DEF RouteMoves
<1> QED
  BY <1>1, <1>2, <1>3, <1>4, <1>5, <1>6, <1>7

\* A letter that is declined, dropped or of a start.
LEMMA QuietRoute ==
    ASSUME Types, Views, NEW p \in Player, NEW kind, NEW jobs, Routes(p, kind, jobs),
           kind # "unlink", requests' \subseteq requests, links' = links,
           \A o \in Carry(jobs, "deliver") : o.kind \in {"decline", "start"}
    PROVE  Views'
<1>1. /\ RouteMoves(p) /\ Carried(p) = {} /\ Carried(p)' = Carry(jobs, "deliver")
      /\ ToSet(outbox'[p]) \subseteq ToSet(outbox[p])
      /\ \A b : Pulled(ToSet(outbox[p]), p, b) => Pulled(ToSet(outbox'[p]), p, b)
      /\ closing' = closing
  BY RouteHands
<1>2. ASSUME NEW a \in Staying, NEW b \in Staying, a # b PROVE View(a, b)'
  <2>1. View(a, b) /\ a \in Player /\ b \in Player
    BY <1>2 DEF Views, Staying
  <2>2. \A o \in Carried(p)' : ~ IsUnlink(o, b, a)
    BY <1>1 DEF IsUnlink
  <2>3. \A n : Say("request", b, a, n) \notin Carried(p)'
    BY <1>1 DEF Say
  <2> QED
    BY <1>1, <2>1, <2>2, <2>3, RouteKeeps
<1> QED
  BY <1>1, <1>2 DEF Views, Staying

\* An accept of a player that is linked meanwhile, or whose asker is: the host answers the
\* accepter with an Unlink (host.rs:478-482), the two being on record as nothing.
LEMMA BusyViews ==
    ASSUME Types, Numbers, Views, NEW p \in Player,
           NEW m, m = Head(outbox[p]), NEW r, r = m.to,
           <<r, p, m.nonce>> \in requests, requests' = requests \ {<<r, p, m.nonce>>}, links' = links,
           Routes(p, "accept", <<Deliver(Answer(m, "unlink"))>>)
    PROVE  Views'
<1> DEFINE n == m.nonce
           u == Answer(m, "unlink")
<1>1. /\ RouteMoves(p) /\ Carried(p) = {} /\ Carried(p)' = {u}
      /\ m \in ToSet(outbox[p]) /\ m = Say("accept", p, r, n)
      /\ m.from = p /\ r \in Player /\ r # p
      /\ ToSet(outbox'[p]) \subseteq ToSet(outbox[p])
      /\ \A b : Pulled(ToSet(outbox[p]), p, b) => Pulled(ToSet(outbox'[p]), p, b)
      /\ closing' = closing /\ inbox' = inbox /\ link' = link
      /\ \A x \in Player : x # p => outbox'[x] = outbox[x] /\ Carried(x)' = Carried(x)
  BY RouteHands, JobCarries
<1>2. /\ \A a, b : IsUnlink(u, b, a) => b = r /\ a = p
      /\ u.kind = "unlink"
  BY <1>1 DEF Answer, Say, IsUnlink
<1>3. /\ n \in 1..MaxTurns /\ \A k : <<r, p, k>> \notin requests'
  <2>1. n \in 1..MaxTurns
    BY <1>1, RequestNumbered
  <2>2. ASSUME NEW k, <<r, p, k>> \in requests PROVE k = n
    <3>1. <<r, p, k>>[1] = r /\ <<r, p, n>>[1] = r
      OBVIOUS
    <3>2. <<r, p, k>> = <<r, p, n>>
      BY <2>2, <3>1 DEF Numbers, OneRequest
    <3> QED
      BY <3>2
  <2> QED
    BY <2>1, <2>2
<1> HIDE DEF n, u
<1>4. ASSUME NEW a \in Staying, NEW b \in Staying, a # b PROVE View(a, b)'
  <2>1. View(a, b) /\ a \in Player /\ b \in Player
    BY <1>4 DEF Views, Staying
  <2>2. CASE a = p /\ b = r
    <3>1. CASE Pulled(ToSet(outbox[p]), p, r)
      BY <1>1, <2>2, <3>1 DEF View
    <3>2. CASE Sees(p, r)
      <4>1. Fine(p, r, link[p], ToSet(outbox[p]), inbox[p], {}, Carried(r), requests, links)
        BY <1>1, <3>2 DEF Sees
      <4>2. <<r, p, n>> \in requests /\ Say("accept", p, r, n) \in ToSet(outbox[p])
        BY <1>1 DEF n
      <4>3. Fine(p, r, link[p], ToSet(outbox'[p]), inbox[p], Carried(p)', Carried(r), requests', links)
        BY <1>3, <4>1, <4>2, FineBusy
      <4> QED
        BY <1>1, <2>2, <4>3 DEF View, Sees
    <3> QED
      BY <2>1, <2>2, <3>1, <3>2 DEF View
  <2>3. CASE ~ (a = p /\ b = r)
    <3>1. \A o \in Carried(p)' : ~ IsUnlink(o, b, a)
      BY <1>1, <1>2, <2>3
    <3>2. \A k : Say("request", b, a, k) \notin Carried(p)'
      BY <1>1, <1>2 DEF Say
    <3>3. \A k : <<b, a, k>> \in requests' => <<b, a, k>> \in requests
      OBVIOUS
    <3> QED
      BY <1>1, <2>1, <3>1, <3>2, <3>3, RouteKeeps
  <2> QED
    BY <2>2, <2>3
<1> QED
  BY <1>1, <1>4 DEF Views, Staying

\* An accept on record: the link is entered, its accepter has the cable and its asker gets it.
LEMMA GrantedViews ==
    ASSUME Types, Numbers, Views, NEW p \in Player,
           NEW m, m = Head(outbox[p]), NEW r, r = m.to,
           <<r, p, m.nonce>> \in requests, requests' = requests \ {<<r, p, m.nonce>>},
           ~ IsLinked(p), links' = links \union {<<r, p>>},
           Routes(p, "accept", <<Deliver(m)>>)
    PROVE  Views'
<1> DEFINE n == m.nonce
<1>1. /\ RouteMoves(p) /\ Carried(p) = {} /\ Carried(p)' = {m}
      /\ m \in ToSet(outbox[p]) /\ m = Say("accept", p, r, n)
      /\ m.from = p /\ r \in Player /\ r # p
      /\ ToSet(outbox'[p]) \subseteq ToSet(outbox[p])
      /\ \A b : Pulled(ToSet(outbox[p]), p, b) => Pulled(ToSet(outbox'[p]), p, b)
      /\ closing' = closing /\ inbox' = inbox /\ link' = link
      /\ \A x \in Player : x # p => outbox'[x] = outbox[x] /\ Carried(x)' = Carried(x)
  <2>1. Carry(<<Deliver(m)>>, "deliver") = {m}
    BY JobCarries
  <2> DEFINE jobs == <<Deliver(m)>>
  <2>2. Routes(p, "accept", jobs)
    OBVIOUS
  <2> HIDE DEF jobs
  <2>3. /\ RouteMoves(p) /\ Carried(p) = {} /\ Carried(p)' = Carry(jobs, "deliver")
        /\ m \in ToSet(outbox[p]) /\ m = Say("accept", p, r, n)
        /\ m.from = p /\ r \in Player /\ r # p
        /\ ToSet(outbox'[p]) \subseteq ToSet(outbox[p])
        /\ \A b : Pulled(ToSet(outbox[p]), p, b) => Pulled(ToSet(outbox'[p]), p, b)
        /\ closing' = closing /\ inbox' = inbox /\ link' = link
        /\ \A x \in Player : x # p => outbox'[x] = outbox[x] /\ Carried(x)' = Carried(x)
    BY <2>2, RouteHands
  <2> QED
    BY <2>1, <2>3 DEF jobs
<1>2. m.kind = "accept"
  BY <1>1 DEF Say
<1>3. n \in 1..MaxTurns
  BY <1>1, RequestNumbered
<1>4. <<p, r>> \notin links'
  <2>1. <<p, r>> \notin links
    <3> SUFFICES ASSUME <<p, r>> \in links PROVE FALSE
      OBVIOUS
    <3>1. p \in {<<p, r>>[1], <<p, r>>[2]}
      OBVIOUS
    <3> QED
      BY <3>1 DEF IsLinked
  <2> QED
    BY <1>1, <2>1
<1> HIDE DEF n
<1>5. ASSUME NEW a \in Staying, NEW b \in Staying, a # b PROVE View(a, b)'
  <2>1. View(a, b) /\ a \in Player /\ b \in Player
    BY <1>5 DEF Views, Staying
  <2>2. CASE a = p /\ b = r
    <3>1. CASE Pulled(ToSet(outbox[p]), p, r)
      BY <1>1, <2>2, <3>1 DEF View
    <3>2. CASE Sees(p, r)
      <4>1. Fine(p, r, link[p], ToSet(outbox[p]), inbox[p], {}, Carried(r), requests, links)
        BY <1>1, <3>2 DEF Sees
      <4>2. <<r, p, n>> \in requests /\ Say("accept", p, r, n) \in ToSet(outbox[p])
        BY <1>1 DEF n
      <4>3. ~ Comes(Carried(p)', p, r)
        BY <1>1, <1>2 DEF Comes, IsUnlink
      <4>4. \A k : <<r, p, k>> \in requests' => <<r, p, k>> \in requests /\ k # n
        BY DEF n
      <4>5. Fine(p, r, link[p], ToSet(outbox'[p]), inbox[p], Carried(p)', Carried(r), requests', links')
        BY <1>1, <1>3, <1>4, <4>1, <4>2, <4>3, <4>4, FineAccepting
      <4> QED
        BY <1>1, <2>2, <4>5 DEF View, Sees
    <3> QED
      BY <2>1, <2>2, <3>1, <3>2 DEF View
  <2>3. CASE a = r /\ b = p
    <3>1. CASE Pulled(ToSet(outbox[r]), r, p)
      BY <1>1, <2>3, <3>1 DEF View
    <3>2. CASE Sees(r, p)
      <4>1. Fine(r, p, link[r], ToSet(outbox[r]), inbox[r], Carried(r), {}, requests, links)
        BY <1>1, <3>2 DEF Sees
      <4>2. \A k : <<p, r, k>> \in requests' => <<p, r, k>> \in requests
        OBVIOUS
      <4>3. Fine(r, p, link[r], ToSet(outbox[r]), inbox[r], Carried(r), {Say("accept", p, r, n)}, requests', links')
        BY <1>4, <4>1, <4>2, FineGranted
      <4>4. Carried(p)' = {Say("accept", p, r, n)}
        BY <1>1 DEF n
      <4> QED
        BY <1>1, <2>3, <4>3, <4>4 DEF View, Sees
    <3> QED
      BY <2>1, <2>3, <3>1, <3>2 DEF View
  <2>4. CASE ~ (a = p /\ b = r) /\ ~ (a = r /\ b = p)
    <3>1. \A o \in Carried(p)' : ~ IsUnlink(o, b, a)
      BY <1>1, <1>2 DEF IsUnlink
    <3>2. \A k : Say("request", b, a, k) \notin Carried(p)'
      BY <1>1, <1>2 DEF Say
    <3>3. \A k : <<b, a, k>> \in requests' => <<b, a, k>> \in requests
      OBVIOUS
    <3>4. /\ <<a, b>> \in links' => <<a, b>> \in links
          /\ <<b, a>> \in links' => <<b, a>> \in links
      BY <2>4
    <3> QED
      BY <1>1, <2>1, <3>1, <3>2, <3>3, <3>4, RouteKeeps
  <2> QED
    BY <2>2, <2>3, <2>4
<1> QED
  BY <1>1, <1>5 DEF Views, Staying

\* An Unlink ends the record, and the requests between the two with it.
LEMMA UnlinkViews ==
    ASSUME Types, Views, NEW p \in Player, NEW jobs,
           NEW m, m = Head(outbox[p]), NEW r, r = m.to,
           requests' = {s \in requests : {s[1], s[2]} # {m.from, m.to}},
           links' = links \ {<<m.from, m.to>>, <<m.to, m.from>>},
           Routes(p, "unlink", jobs),
           jobs = <<>> \/ (AreLinked(m.from, m.to) /\ jobs = <<Deliver(m)>>)
    PROVE  Views'
<1>1. /\ RouteMoves(p) /\ Carried(p) = {} /\ Carried(p)' = Carry(jobs, "deliver")
      /\ m = Say("unlink", p, r, m.nonce)
      /\ m.from = p /\ r \in Player /\ r # p
      /\ ToSet(outbox'[p]) \subseteq ToSet(outbox[p])
      /\ \A b : Pulled(ToSet(outbox[p]), p, b) => Pulled(ToSet(outbox'[p]), p, b) \/ b = r
      /\ closing' = closing /\ inbox' = inbox /\ link' = link
      /\ \A x \in Player : x # p => outbox'[x] = outbox[x] /\ Carried(x)' = Carried(x)
  BY RouteHands
<1>2. Carried(p)' = {} \/ (AreLinked(p, r) /\ Carried(p)' = {m})
  <2>1. Carry(<<>>, "deliver") = {} /\ Carry(<<Deliver(m)>>, "deliver") = {m}
    BY JobCarries
  <2> QED
    BY <1>1, <2>1
<1>3. \A a, b : IsUnlink(m, b, a) => b = p /\ a = r
  BY <1>1 DEF IsUnlink
<1>4. m.kind = "unlink"
  BY <1>1 DEF Say
<1>5. /\ \A k : <<r, p, k>> \notin requests' /\ <<p, r, k>> \notin requests'
      /\ <<p, r>> \notin links' /\ <<r, p>> \notin links'
  <2>1. \A k : {<<r, p, k>>[1], <<r, p, k>>[2]} = {p, r} /\ {<<p, r, k>>[1], <<p, r, k>>[2]} = {p, r}
    OBVIOUS
  <2> QED
    BY <1>1, <2>1
<1>6. ASSUME NEW a \in Staying, NEW b \in Staying, a # b PROVE View(a, b)'
  <2>1. View(a, b) /\ a \in Player /\ b \in Player
    BY <1>6 DEF Views, Staying
  <2>2. CASE a = p /\ b = r
    <3>1. ~ Comes(Carried(p)', p, r)
      BY <1>1, <1>2, <1>3 DEF Comes
    <3>2. Fine(p, r, link[p], ToSet(outbox'[p]), inbox[p], Carried(p)', Carried(r), requests', links')
      BY <1>5, <3>1, FineApart
    <3> QED
      BY <1>1, <2>2, <3>2 DEF View, Sees
  <2>3. CASE a = r /\ b = p
    <3>1. CASE Pulled(ToSet(outbox[r]), r, p)
      BY <1>1, <2>3, <3>1 DEF View
    <3>2. CASE Sees(r, p)
      <4>1. Fine(r, p, link[r], ToSet(outbox[r]), inbox[r], Carried(r), {}, requests, links)
        BY <1>1, <3>2 DEF Sees
      <4>2. Comes(Carried(p)', r, p) => <<r, p>> \in links \/ <<p, r>> \in links
        BY <1>2 DEF Comes, AreLinked
      <4>3. Fine(r, p, link[r], ToSet(outbox[r]), inbox[r], Carried(r), Carried(p)', requests', links')
        <5> DEFINE H2 == Carried(p)'
                   R2 == requests'
                   K2 == links'
        <5>1. /\ \A k : <<p, r, k>> \notin R2
              /\ <<r, p>> \notin K2 /\ <<p, r>> \notin K2
              /\ Comes(H2, r, p) => <<r, p>> \in links \/ <<p, r>> \in links
          BY <1>5, <4>2
        <5> HIDE DEF H2, R2, K2
        <5>2. Fine(r, p, link[r], ToSet(outbox[r]), inbox[r], Carried(r), H2, R2, K2)
          BY <4>1, <5>1, FinePulled
        <5> QED
          BY <5>2 DEF H2, R2, K2
      <4> QED
        BY <1>1, <2>3, <4>3 DEF View, Sees
    <3> QED
      BY <2>1, <2>3, <3>1, <3>2 DEF View
  <2>4. CASE ~ (a = p /\ b = r) /\ ~ (a = r /\ b = p)
    <3>1. \A o \in Carried(p)' : ~ IsUnlink(o, b, a)
      BY <1>2, <1>3, <2>4
    <3>2. \A k : Say("request", b, a, k) \notin Carried(p)'
      BY <1>2, <1>4 DEF Say
    <3>3. \A k : <<b, a, k>> \in requests' => <<b, a, k>> \in requests
      OBVIOUS
    <3> QED
      BY <1>1, <2>1, <2>4, <3>1, <3>2, <3>3, RouteKeeps
  <2> QED
    BY <2>2, <2>3, <2>4
<1> QED
  BY <1>1, <1>6 DEF Views, Staying

\* A recorded request is safe from what is on its way between the two.
LEMMA RecordViews ==
    ASSUME Types, Numbers, Views, NEW p \in Player, RecordRequest(p)
    PROVE  Views'
<1>1. PICK m \in Mail(p) \cap Ask :
              /\ work[Reader(p)] = <<Job("record", m, {})>>
              /\ RouteMoves(p) /\ outbox'[p] = outbox[p] /\ links' = links
              /\ \/ /\ requests' = requests
                    /\ work'[Reader(p)] = <<Deliver(Answer(m, "decline"))>>
                 \/ /\ ~ IsLinked(m.from) /\ ~ IsLinked(m.to)
                    /\ requests' = {s \in requests : s[1] # m.from} \union {<<m.from, m.to, m.nonce>>}
                    /\ work'[Reader(p)] = <<Deliver(m)>>
  BY RecordRequestDoes
<1> DEFINE r == m.to
           n == m.nonce
<1>2. /\ m \in Ask /\ m.from = p /\ r \in Player /\ r # p /\ m = Say("request", p, r, n)
      /\ m.kind = "request" /\ Answer(m, "decline").kind = "decline"
  BY AskIs DEF Mail, Answer, Say
<1>3. /\ closing' = closing /\ inbox' = inbox /\ link' = link
      /\ \A x \in Player : outbox'[x] = outbox[x]
      /\ \A x \in Player : x # p => Carried(x)' = Carried(x)
  BY <1>1, Threads DEF RouteMoves, Carried
<1>4. Carried(p) = {} /\ Recording(p) = {m}
  BY <1>1, JobCarries DEF Carried, Recording
<1>5. ASSUME NEW a \in Staying, NEW b \in Staying, a # b,
             \A o \in Carried(p)' : ~ IsUnlink(o, b, a),
             \A k : <<b, a, k>> \in requests' =>
                <<b, a, k>> \in requests /\ Say("request", b, a, k) \notin Carried(p)'
      PROVE  View(a, b)'
  <2>1. View(a, b) /\ a \in Player /\ b \in Player
    BY <1>5 DEF Views, Staying
  <2> QED
    BY <1>1, <1>3, <1>4, <1>5, <2>1, RouteKeeps
<1>6. CASE requests' = requests /\ work'[Reader(p)] = <<Deliver(Answer(m, "decline"))>>
  <2>1. Carried(p)' = {Answer(m, "decline")}
    <3>1. \A o : Carry(<<Deliver(o)>>, "deliver") = {o}
      BY JobCarries
    <3> QED
      BY <1>6, <3>1 DEF Carried
  <2>2. ASSUME NEW a \in Staying, NEW b \in Staying, a # b PROVE View(a, b)'
    <3>1. \A o \in Carried(p)' : ~ IsUnlink(o, b, a)
      BY <1>2, <2>1 DEF IsUnlink
    <3>2. \A k : Say("request", b, a, k) \notin Carried(p)'
      BY <1>2, <2>1 DEF Say
    <3> QED
      BY <1>5, <1>6, <2>2, <3>1, <3>2
  <2> QED
    BY <1>3, <2>2 DEF Views, Staying
<1>7. CASE /\ ~ IsLinked(p)
           /\ requests' = {s \in requests : s[1] # p} \union {<<p, r, n>>}
           /\ work'[Reader(p)] = <<Deliver(m)>>
  <2>1. Carried(p)' = {m}
    <3>1. \A o : Carry(<<Deliver(o)>>, "deliver") = {o}
      BY JobCarries
    <3> QED
      BY <1>7, <3>1 DEF Carried
  <2>2. <<p, r>> \notin links /\ <<r, p>> \notin links
    <3>1. p \in {<<p, r>>[1], <<p, r>>[2]} /\ p \in {<<r, p>>[1], <<r, p>>[2]}
      OBVIOUS
    <3> QED
      BY <1>7, <3>1 DEF IsLinked
  <2>3. \A a, b : ~ IsUnlink(m, b, a)
    BY <1>2 DEF IsUnlink
  <2>4. /\ m \notin ToSet(inbox[r])
        /\ link[r] # Phase("incoming", p, n)
        /\ Say("accept", r, p, n) \notin ToSet(outbox[r])
    <3>1. Waiting(m)
      BY <1>2, <1>4 DEF Waiting
    <3>2. ~ Arrived(m)
      BY <1>2, <3>1 DEF Numbers, Fresh
    <3>3. Answer(m, "accept") = Say("accept", r, p, n)
      BY <1>2 DEF Answer
    <3> QED
      BY <1>2, <3>2, <3>3 DEF Arrived
  <2>5. \A k : <<p, r, k>> \in requests' => k = n
    <3>1. \A k : <<p, r, k>>[1] = p
      OBVIOUS
    <3> QED
      BY <1>7, <3>1
  <2>6. \A i \in DOMAIN inbox[r] : inbox[r][i] # m
    BY <2>4 DEF ToSet
  <2>7. ASSUME NEW a \in Staying, NEW b \in Staying, a # b PROVE View(a, b)'
    <3>1. View(a, b) /\ a \in Player /\ b \in Player
      BY <2>7 DEF Views, Staying
    <3>2. CASE a = r /\ b = p
      <4>1. CASE Pulled(ToSet(outbox[r]), r, p)
        BY <1>2, <1>3, <3>2, <4>1 DEF View
      <4>2. CASE Sees(r, p)
        <5> HIDE DEF r, n
        <5>1. Fine(r, p, link[r], ToSet(outbox[r]), inbox[r], Carried(r), Carried(p), requests, links)
          BY <4>2 DEF Sees
        <5>2. Carried(p)' = {Say("request", p, r, n)}
          BY <1>2, <2>1
        <5>3. \A i \in DOMAIN inbox[r] : inbox[r][i] # Say("request", p, r, n)
          BY <1>2, <2>6
        <5>4. Fine(r, p, link[r], ToSet(outbox[r]), inbox[r], Carried(r), {Say("request", p, r, n)}, requests', links)
          BY <2>2, <2>4, <2>5, <5>1, <5>3, FineAsked
        <5> QED
          BY <1>1, <1>2, <1>3, <3>2, <5>2, <5>4 DEF View, Sees
      <4> QED
        BY <3>1, <3>2, <4>1, <4>2 DEF View
    <3>3. CASE ~ (a = r /\ b = p)
      <4>1. \A k : <<b, a, k>> # <<p, r, n>>
        BY <3>3
      <4>2. \A k : Say("request", b, a, k) \notin Carried(p)'
        BY <1>2, <2>1, <3>3 DEF Say
      <4>3. \A o \in Carried(p)' : ~ IsUnlink(o, b, a)
        BY <2>1, <2>3
      <4>4. \A k : <<b, a, k>> \in requests' => <<b, a, k>> \in requests
        BY <1>7, <4>1
      <4> QED
        BY <1>5, <2>7, <4>2, <4>3, <4>4
    <3> QED
      BY <3>2, <3>3
  <2> QED
    BY <1>3, <2>7 DEF Views, Staying
<1> QED
  BY <1>1, <1>2, <1>6, <1>7

\* No routing step disturbs what there is between two players.
LEMMA RouteViews ==
    ASSUME Types, Numbers, Views, NEW p \in Player, Route(p)
    PROVE  Views'
<1> DEFINE m == Head(outbox[p])
           r == m.to
<1>1. Wired
  BY DEF Types
<1>2. ASSUME NEW kind, NEW jobs, Routes(p, kind, jobs)
      PROVE  m.from = p /\ m.kind = kind
  <2>1. outbox[p] # <<>> /\ m.kind = kind
    BY <1>2 DEF Routes
  <2> QED
    BY <2>1, HeadMail
<1> HIDE DEF m, r
<1>3. ASSUME NEW kind, NEW jobs, Routes(p, kind, jobs), kind # "unlink",
             requests' \subseteq requests, links' = links,
             jobs \in {<<>>, <<Job("record", m, {})>>, <<Deliver(Answer(m, "decline"))>>}
               \/ (jobs = <<Deliver(m)>> /\ kind \in {"decline", "start"})
      PROVE  Views'
  <2>1. /\ Carry(<<>>, "deliver") = {}
        /\ Carry(<<Job("record", m, {})>>, "deliver") = {}
        /\ Carry(<<Deliver(m)>>, "deliver") = {m}
    BY JobCarries
  <2>2. Carry(<<Deliver(Answer(m, "decline"))>>, "deliver") = {Answer(m, "decline")}
    BY JobCarries
  <2>3. Answer(m, "decline").kind = "decline" /\ m.kind = kind
    BY <1>2, <1>3 DEF Answer, Say
  <2>4. \A o \in Carry(jobs, "deliver") : o.kind \in {"decline", "start"}
    BY <1>3, <2>1, <2>2, <2>3
  <2> QED
    BY <1>3, <2>4, QuietRoute
<1>4. CASE RouteRequest(p)
  <2>1. /\ UNCHANGED <<links, requests>>
        /\ \/ Routes(p, "request", <<Job("record", m, {})>>)
           \/ Routes(p, "request", <<Deliver(Answer(m, "decline"))>>)
    BY <1>1, <1>4, RouteRequestDoes DEF m
  <2> QED
    BY <1>3, <2>1
<1>5. CASE RouteAccept(p)
  <2> DEFINE ask == <<m.to, m.from, m.nonce>>
  <2>1. \/ /\ ask \notin requests /\ requests' = requests /\ links' = links
           /\ Routes(p, "accept", <<>>)
        \/ /\ ask \in requests /\ requests' = requests \ {ask} /\ links' = links
           /\ Routes(p, "accept", <<Deliver(Answer(m, "unlink"))>>)
        \/ /\ ask \in requests /\ requests' = requests \ {ask}
           /\ ~ IsLinked(m.from)
           /\ links' = links \union {<<m.to, m.from>>}
           /\ Routes(p, "accept", <<Deliver(m)>>)
    BY <1>1, <1>5, RouteAcceptDoes DEF m
  <2>2. CASE Routes(p, "accept", <<>>) /\ requests' = requests /\ links' = links
    BY <1>3, <2>2
  <2>3. CASE /\ ask \in requests /\ requests' = requests \ {ask} /\ links' = links
             /\ Routes(p, "accept", <<Deliver(Answer(m, "unlink"))>>)
    <3>1. m.from = p
      BY <1>2, <2>3
    <3> QED
      BY <2>3, <3>1, BusyViews DEF m
  <2>4. CASE /\ ask \in requests /\ requests' = requests \ {ask}
             /\ ~ IsLinked(m.from)
             /\ links' = links \union {<<m.to, m.from>>}
             /\ Routes(p, "accept", <<Deliver(m)>>)
    <3>1. m.from = p
      BY <1>2, <2>4
    <3> QED
      BY <2>4, <3>1, GrantedViews DEF m
  <2> QED
    BY <2>1, <2>2, <2>3, <2>4
<1>6. CASE RouteDecline(p)
  <2>1. /\ links' = links /\ requests' \subseteq requests
        /\ Routes(p, "decline", <<>>) \/ Routes(p, "decline", <<Deliver(m)>>)
    BY <1>1, <1>6, RouteDeclineDoes DEF m
  <2> QED
    BY <1>3, <2>1
<1>7. CASE RouteStart(p)
  <2>1. /\ UNCHANGED <<links, requests>>
        /\ Routes(p, "start", <<>>) \/ Routes(p, "start", <<Deliver(m)>>)
    BY <1>1, <1>7, RouteStartDoes DEF m
  <2> QED
    BY <1>3, <2>1
<1>8. CASE RouteUnlink(p)
  <2>1. /\ requests' = {s \in requests : {s[1], s[2]} # {m.from, m.to}}
        /\ links' = links \ {<<m.from, m.to>>, <<m.to, m.from>>}
        /\ \/ Routes(p, "unlink", <<>>)
           \/ AreLinked(m.from, m.to) /\ Routes(p, "unlink", <<Deliver(m)>>)
    BY <1>1, <1>8, RouteUnlinkDoes DEF m
  <2> QED
    BY <2>1, UnlinkViews DEF m
<1>9. CASE RecordRequest(p)
  BY <1>9, RecordViews
<1> QED
  BY <1>4, <1>5, <1>6, <1>7, <1>8, <1>9 DEF Route
\* A reader carries one letter at most.
LEMMA OneCarried ==
    ASSUME Types, NEW p \in Player
    PROVE  \A o, m \in Carried(p) : o = m
<1>1. CASE work[Reader(p)] = <<>>
  BY <1>1, JobCarries DEF Carried
<1>2. CASE \E j \in Task(p) : work[Reader(p)] = <<j>>
  <2>1. PICK j \in Task(p) : work[Reader(p)] = <<j>>
    BY <1>2
  <2>2. Carried(p) \subseteq {j.message}
    BY <2>1, CarryIs DEF Carried
  <2> QED
    BY <2>2
<1> QED
  BY <1>1, <1>2 DEF Types, Wired, ReadTyped

\* A delivery moves a message behind all that its receiver has to hear first.
LEMMA DeliversViews ==
    ASSUME Types, Views, NEW t \in Thread, NEW m, Delivers(t, m)
    PROVE  Views'
<1> DEFINE x == m.to
<1>1. /\ closing' = closing /\ requests' = requests /\ links' = links /\ link' = link /\ outbox' = outbox
      /\ x \in Player /\ \A y \in Player : y # x => inbox'[y] = inbox[y]
      /\ \/ x \notin Staying
         \/ /\ inbox'[x] \in Seq(News(x) \union {Left(c) : c \in closing})
            /\ Grows(inbox[x], inbox'[x], m)
  BY DEF Delivers, rosterVars, frontVars
<1>2. \/ \E p \in Player :
            /\ Carried(p) = {m} /\ Carried(p)' = {}
            /\ \A y \in Player : y # p => Carried(y)' = Carried(y)
            /\ (m \in Mail(p) \/ (m \in News(p) /\ m.kind \in {"decline", "unlink"}))
      \/ /\ \A y \in Player : Carried(y)' = Carried(y)
         /\ \E c \in Player \cap closing : \E q \in Player \ {c} : m = Say("unlink", c, q, 0)
  BY DeliversCarries
<1> HIDE DEF x
<1>3. ASSUME NEW a \in Staying, NEW b \in Staying, a # b, Sees(a, b) PROVE Sees(a, b)'
  <2> DEFINE L == link[a]
             O == ToSet(outbox[a])
             B == inbox[a]
             B2 == inbox'[a]
             W == Carried(a)
             W2 == Carried(a)'
             H == Carried(b)
             H2 == Carried(b)'
  <2>1. a \in Player /\ b \in Player /\ Fine(a, b, L, O, B, W, H, requests, links)
    BY <1>3 DEF Sees, Staying
  <2>2. W2 \subseteq W /\ H2 \subseteq H
    BY <1>2, <2>1
  <2>3. B \in Seq(News(a) \union {Left(c) : c \in closing})
    BY <2>1 DEF Types, Wired, InTyped
  <2>4. \A o, u \in H : o = u
    BY <2>1, OneCarried
  <2>5. Fine(a, b, L, O, B2, W2, H2, requests, links)
    <3>1. CASE a # x
      <4>1. B2 = B
        BY <1>1, <2>1, <3>1
      <4>2. \A o \in H : IsAccept(o, b, a) => o \in H2
        BY <1>2, <2>1, <3>1 DEF IsAccept, x
      <4>3. Comes(W2, a, b) => Comes(W, a, b)
        BY <2>2 DEF Comes
      <4>4. Comes(H2, a, b) => Comes(H, a, b)
        BY <2>2 DEF Comes
      <4> DEFINE O2 == ToSet(outbox'[a])
                 R2 == requests'
                 K2 == links'
      <4>5. /\ \A o \in O2 : o.kind = "accept" => o \in O
            /\ \A n : <<b, a, n>> \in R2 => <<b, a, n>> \in requests
            /\ \A n : <<b, a, n>> \in R2 /\ Say("request", b, a, n) \in H2 => Say("request", b, a, n) \in H
            /\ <<a, b>> \in K2 => <<a, b>> \in links
            /\ <<b, a>> \in K2 => <<b, a>> \in links
        BY <1>1, <2>2
      <4>6. O2 = O /\ R2 = requests /\ K2 = links
        BY <1>1
      <4> HIDE DEF L, O, B, W, H, B2, W2, H2, O2, R2, K2
      <4>7. Fine(a, b, L, O2, B, W2, H2, R2, K2)
        BY <2>1, <4>2, <4>3, <4>4, <4>5, FineKept
      <4> QED
        BY <4>1, <4>6, <4>7
    <3>2. CASE a = x
      <4>1. B2 \in Seq(News(a) \union {Left(c) : c \in closing}) /\ Grows(B, B2, m) /\ m.to = a
        BY <1>1, <3>2 DEF x
      <4>2. CASE \E p \in Player :
                    /\ Carried(p) = {m} /\ Carried(p)' = {}
                    /\ \A y \in Player : y # p => Carried(y)' = Carried(y)
                    /\ (m \in Mail(p) \/ (m \in News(p) /\ m.kind \in {"decline", "unlink"}))
        <5>1. PICK p \in Player :
                    /\ Carried(p) = {m} /\ Carried(p)' = {}
                    /\ \A y \in Player : y # p => Carried(y)' = Carried(y)
                    /\ (m \in Mail(p) \/ (m \in News(p) /\ m.kind \in {"decline", "unlink"}))
          BY <4>2
        <5>2. CASE b = p
          <6>1. H = {m} /\ H2 = {} /\ W2 = W
            BY <1>3, <2>1, <5>1, <5>2
          <6> HIDE DEF L, O, B, W, H, B2, W2, H2
          <6>2. Fine(a, b, L, O, B, W, {m}, requests, links)
            BY <2>1, <6>1
          <6>3. Fine(a, b, L, O, B2, W, {}, requests, links)
            BY <2>3, <4>1, <6>2, FineFromHis
          <6> QED
            BY <6>1, <6>3
        <5>3. CASE b # p
          <6>1. H2 = H
            BY <2>1, <5>1, <5>3
          <6>2. \/ a = p /\ W = {m} /\ W2 = {} /\ m.kind \in {"decline", "unlink"}
                \/ W2 = W /\ m.from = p
            BY <2>1, <4>1, <5>1 DEF Mail, News
          <6>3. /\ Comes(W2, a, b) => Comes(W, a, b) /\ ~ IsUnlink(m, b, a)
                /\ IsUnlink(m, b, a) => Comes(W, a, b)
            BY <5>3, <6>2 DEF Comes, IsUnlink
          <6>4. \A n : m # Say("request", b, a, n)
            BY <5>3, <6>2 DEF Say
          <6> HIDE DEF L, O, B, W, H, B2, W2, H2
          <6>5. Fine(a, b, L, O, B2, W2, H, requests, links)
            BY <2>1, <2>3, <2>4, <4>1, <6>3, <6>4, FineGrown
          <6> QED
            BY <6>1, <6>5
        <5> QED
          BY <5>2, <5>3
      <4>3. CASE /\ \A y \in Player : Carried(y)' = Carried(y)
                 /\ \E c \in Player \cap closing : \E q \in Player \ {c} : m = Say("unlink", c, q, 0)
        <5>1. PICK c \in Player \cap closing : \E q \in Player \ {c} : m = Say("unlink", c, q, 0)
          BY <4>3
        <5>2. m.from = c /\ m.kind = "unlink" /\ b # c
          BY <1>3, <5>1 DEF Say, Staying
        <5>3. W2 = W /\ H2 = H
          BY <2>1, <4>3
        <5>4. ~ IsUnlink(m, b, a) /\ \A n : m # Say("request", b, a, n)
          BY <5>2 DEF IsUnlink, Say
        <5> HIDE DEF L, O, B, W, H, B2, W2, H2
        <5>5. Fine(a, b, L, O, B2, W, H, requests, links)
          BY <2>1, <2>3, <2>4, <4>1, <5>4, FineGrown
        <5> QED
          BY <5>3, <5>5
      <4> QED
        BY <1>2, <4>2, <4>3
    <3> QED
      BY <3>1, <3>2
  <2> QED
    BY <1>1, <2>5 DEF Sees
<1>4. ASSUME NEW a \in Staying, NEW b \in Staying, a # b PROVE View(a, b)'
  <2>1. View(a, b)
    BY <1>4 DEF Views
  <2> QED
    BY <1>1, <1>3, <1>4, <2>1 DEF View
<1> QED
  BY <1>1, <1>4 DEF Views, Staying

\* A close only takes players away from those that stay.
LEMMA CloseViews ==
    ASSUME Types, Views, CloseStep
    PROVE  Views'
<1>1. /\ closing \subseteq closing' /\ link' = link
      /\ requests' \subseteq requests /\ links' \subseteq links
      /\ \A y \in Player : Carried(y)' = Carried(y)
  BY DEF CloseStep, Carried
<1>2. Staying' \subseteq Staying /\ Staying' \subseteq Player /\ \A y \in Staying' : y \notin closing'
  BY <1>1 DEF Staying
<1>3. ASSUME NEW a \in Staying', NEW b \in Staying', a # b PROVE View(a, b)'
  <2> DEFINE L == link[a]
             O == ToSet(outbox[a])
             B == inbox[a]
             B2 == inbox'[a]
             W == Carried(a)
             H == Carried(b)
  <2>1. a \in Player /\ b \in Player /\ View(a, b) /\ a \notin closing'
    BY <1>2, <1>3 DEF Views
  <2>2. /\ outbox'[a] = outbox[a]
        /\ B2 = B \/ \E c \in closing : B2 = Append(B, Left(c))
    BY <2>1 DEF CloseStep
  <2>3. CASE Pulled(ToSet(outbox[a]), a, b)
    BY <2>2, <2>3 DEF View
  <2>4. CASE Sees(a, b)
    <3>1. Fine(a, b, L, O, B, W, H, requests, links)
      BY <2>4 DEF Sees
    <3>2. B \in Seq(News(a) \union {Left(c) : c \in closing})
      BY <2>1 DEF Types, Wired, InTyped
    <3>3. \A o, u \in H : o = u
      BY <2>1, OneCarried
    <3>4. Fine(a, b, L, O, B2, W, H, requests, links)
      <4>1. CASE B2 = B
        BY <3>1, <4>1
      <4>2. ASSUME NEW c \in closing, B2 = Append(B, Left(c))
            PROVE  Fine(a, b, L, O, B2, W, H, requests, links)
        <5>1. Left(c) \in News(a) \union {Left(d) : d \in closing}
          OBVIOUS
        <5>2. Left(c).kind = "left"
          BY DEF Left, Say
        <5>3. ~ IsUnlink(Left(c), b, a) /\ \A n : Left(c) # Say("request", b, a, n)
          BY <5>2 DEF IsUnlink, Say
        <5> HIDE DEF L, O, B, W, H, B2
        <5>4. B2 \in Seq(News(a) \union {Left(d) : d \in closing}) /\ Grows(B, B2, Left(c))
          BY <3>2, <4>2, <5>1, AppendPlaces
        <5> QED
          BY <3>1, <3>2, <3>3, <5>3, <5>4, FineGrown
      <4> QED
        BY <2>2, <4>1, <4>2
    <3> DEFINE R2 == requests'
               K2 == links'
    <3>5. /\ \A n : <<b, a, n>> \in R2 => <<b, a, n>> \in requests
          /\ <<a, b>> \in K2 => <<a, b>> \in links
          /\ <<b, a>> \in K2 => <<b, a>> \in links
      BY <1>1
    <3> HIDE DEF L, O, B, W, H, B2, R2, K2
    <3>6. Fine(a, b, L, O, B2, W, H, R2, K2)
      BY <3>4, <3>5, FineKept
    <3> QED
      BY <1>1, <2>1, <2>2, <3>6 DEF View, Sees, L, O, W, H, B2, R2, K2
  <2> QED
    BY <2>1, <2>3, <2>4 DEF View
<1> QED
  BY <1>3 DEF Views

LEMMA ViewsInit == Init => Views
<1> SUFFICES ASSUME Init, NEW p \in Player, NEW q \in Player PROVE View(p, q)
  BY DEF Views, Staying
<1>1. requests = {} /\ links = {} /\ work = [t \in Thread |-> <<>>]
  BY DEF Init
<1>2. Carried(p) = {}
  BY <1>1, Threads, JobCarries DEF Carried
<1>3. ~ Comes(Carried(p), p, q)
  BY <1>2 DEF Comes
<1>4. Fine(p, q, link[p], ToSet(outbox[p]), inbox[p], Carried(p), Carried(q), requests, links)
  BY <1>1, <1>3, FineApart
<1> QED
  BY <1>4 DEF View, Sees

LEMMA ViewsKept == Types /\ Numbers /\ Views /\ [Next]_vars => Views'
<1> SUFFICES ASSUME Types, Numbers, Views, [Next]_vars PROVE Views'
  OBVIOUS
<1>1. CASE UNCHANGED vars
  BY <1>1 DEF vars, rosterVars, frontVars, Views, View, Sees, Staying, Carried
<1>2. ASSUME NEW p \in Player, Route(p) PROVE Views'
  BY <1>2, RouteViews
<1>3. ASSUME NEW p \in Player, Frontend(p) PROVE Views'
  BY <1>3, FrontViews
<1>4. ASSUME NEW t \in Thread, Work(t) PROVE Views'
  BY <1>4, DeliveringDoes, DeliversViews, AnnounceTypes, CloseViews DEF Work
<1>5. ASSUME NEW c \in Client, Close(c) PROVE Views'
  BY <1>5, CloseTypes, CloseViews
<1> QED
  BY <1>1, <1>2, <1>3, <1>4, <1>5 DEF Next

-----------------------------------------------------------------------------
\* Whatever happens, the types, the numbers and the views are kept.
THEOREM HandshakeKept == Spec => [](Types /\ Numbers /\ Views)
<1>1. Init => Types /\ Numbers /\ Views
  BY TypesInit, NumbersInit, ViewsInit
<1>2. (Types /\ Numbers /\ Views) /\ [Next]_vars => (Types /\ Numbers /\ Views)'
  BY TypesKept, NumbersKeep, ViewsKept
<1> QED
  BY <1>1, <1>2, PTL DEF Spec

\* Every part keeps its type, and a frontend's link is with a player it lists, for
\* any number of clients (play_together.rs:1584-1595, link.rs:298).
THEOREM TypesHold == Spec => []TypeOK
<1>1. Types /\ Numbers => TypeOK
  <2> SUFFICES ASSUME Types, Numbers PROVE TypeOK
    OBVIOUS
  <2>1. /\ conns \subseteq Client /\ closing \subseteq Client
        /\ links \subseteq Player \X Player
        /\ requests \subseteq Player \X Player \X (0..MaxTurns)
    BY DEF Types, Typed
  <2>2. requests \subseteq Player \X Player \X (1..MaxTurns)
    <3> SUFFICES ASSUME NEW r \in requests PROVE r \in Player \X Player \X (1..MaxTurns)
      OBVIOUS
    <3>1. PICK q \in Player, p \in Player, n \in 0..MaxTurns : r = <<q, p, n>>
      BY <2>1
    <3>2. n \in 1..MaxTurns
      BY <3>1, RequestNumbered
    <3> QED
      BY <3>1, <3>2
  <2>3. ASSUME NEW p \in Player
        PROVE  /\ link[p].phase \in Phases
               /\ link[p].phase = "none" <=> link[p] = NoLink
               /\ link[p].peer \in peers[p] \union {Nobody}
               /\ peers[p] \subseteq Player \ {p}
    <3>1. FrontTyped(p)
      BY DEF Types, Wired
    <3> QED
      BY <3>1 DEF FrontTyped, Linking, NoLink, Phases
  <2> QED
    BY <2>1, <2>2, <2>3 DEF TypeOK
<1> QED
  BY <1>1, HandshakeKept, PTL

\* When nothing is on its way, the players on record as linked are plugged into each
\* other, for any number of clients: the record never outlives the cable of two players
\* that stay (host.rs:440-449, link.rs:562-572).
THEOREM RecordsKept == Spec => []RecordsHold
<1>1. Types /\ Views => RecordsHold
  <2> SUFFICES ASSUME Types, Views, AtRest, NEW p \in Staying, NEW q \in Staying, AreLinked(p, q)
               PROVE  PluggedInto(p, q)
    BY DEF RecordsHold
  <2>1. p \in Player /\ q \in Player /\ \A x \in Player : work[Reader(x)] = <<>>
    BY Threads DEF Staying, AtRest
  <2>2. p # q
    <3>1. <<p, p>>[1] = <<p, p>>[2]
      OBVIOUS
    <3>2. <<p, p>> \notin links
      BY <3>1 DEF Types, Typed
    <3> QED
      BY <3>2 DEF AreLinked
  <2>3. Carried(p) = {} /\ Carried(q) = {} /\ outbox[p] = <<>> /\ inbox[p] = <<>>
    BY <2>1, JobCarries DEF Carried, AtRest
  <2>4. ToSet(outbox[p]) = {} /\ DOMAIN (inbox[p]) = {}
    BY <2>3 DEF ToSet
  <2>5. Sees(p, q)
    BY <2>2, <2>4 DEF Views, View, Pulled
  <2>6. ~ Gets(p, q, link[p], inbox[p], Carried(p), Carried(q))
    BY <2>3, <2>4 DEF Gets
  <2>7. Has(p, q, link[p], inbox[p], Carried(p), Carried(q), requests)
    BY <2>5, <2>6 DEF AreLinked, Sees, Fine, AskerFine, AskedFine
  <2>8. Tied(link[p], q) /\ link[p].phase \in {"none", "plugged"}
    BY <2>7 DEF Has, AtRest
  <2> QED
    BY <2>8 DEF Tied, PluggedInto
<1> QED
  BY <1>1, HandshakeKept, PTL

-----------------------------------------------------------------------------
(* Attempts.                                                               *)

\* What a frontend says, if its target is not gone, is said or not.
LEMMA EndSaid ==
    ASSUME NEW p \in Player, NEW q \in Player \ {p}, NEW n \in 0..MaxTurns,
           NEW kind \in {"decline", "unlink"}, kind = "unlink" => n = 0,
           SaysIfHeard(p, kind, q, n)
    PROVE  \/ outbox'[p] = outbox[p]
           \/ \E k \in {"decline", "unlink"}, a \in Player \ {p}, i \in 0..MaxTurns :
                Says(p, Say(k, p, a, i)) /\ (k = "unlink" => i = 0)
BY DEF SaysIfHeard

\* Every handler of a frontend is one of these, and a dropped message is one of the first.
LEMMA EndSteps ==
    ASSUME Types, NEW p \in Player, Frontend(p)
    PROVE  EndMoves(p)
<1>1. Wired /\ 0 \in 0..MaxTurns /\ Nobody \notin Player
  BY TurnIn, NoLinkIs DEF Types
<1> DEFINE h == Head(inbox[p])
           L == link[p]
<1>2. inbox[p] # <<>> /\ h.kind \in UrgentKinds =>
        /\ h = Say(h.kind, h.from, p, h.nonce) /\ h.from \in Player \ {p} /\ h.nonce \in 0..MaxTurns
  BY HeadNews
<1>3. L # NoLink => L.peer \in Player \ {p} /\ L.nonce \in 0..MaxTurns
                    /\ L = Phase(L.phase, L.peer, L.nonce)
  BY EndIs
<1>4. NoLink.phase = "none" /\ NoLink.peer = Nobody
  BY NoLinkIs
<1>5. \A q \in Player \ {p}, n \in 0..MaxTurns, kind \in {"decline", "unlink"} :
        SaysIfHeard(p, kind, q, n) /\ (kind = "unlink" => n = 0) =>
           \/ outbox'[p] = outbox[p]
           \/ \E k \in {"decline", "unlink"}, a \in Player \ {p}, i \in 0..MaxTurns :
                Says(p, Say(k, p, a, i)) /\ (k = "unlink" => i = 0)
  BY EndSaid
<1> HIDE DEF h, L
<1>6. ASSUME NEW q \in Player, Request(p, q) PROVE EndMoves(p)
  <2>1. /\ inbox'[p] = inbox[p] /\ turn < MaxTurns /\ turn' = turn + 1
        /\ link[p] = NoLink /\ q \in peers[p]
        /\ \/ Says(p, Say("request", p, q, turn + 1)) /\ link'[p] = Phase("requesting", q, turn + 1)
           \/ outbox'[p] = outbox[p] /\ link'[p] = NoLink
    BY <1>1, <1>6, RequestDoes
  <2>2. q \in Player \ {p}
    BY <1>1, <2>1 DEF Wired, FrontTyped
  <2> QED
    BY <2>1, <2>2 DEF EndMoves, Ends, Asks
<1>7. CASE HearRequest(p)
  <2>1. /\ inbox[p] # <<>> /\ h.kind = "request" /\ inbox'[p] = Tail(inbox[p])
        /\ \/ /\ outbox'[p] = outbox[p] /\ link[p] = NoLink
              /\ link'[p] = Phase("incoming", h.from, h.nonce)
           \/ link'[p] = L /\ SaysIfHeard(p, "decline", h.from, h.nonce)
    BY <1>1, <1>7, HearRequestDoes DEF Listens, h, L
  <2>2. h = Say("request", h.from, p, h.nonce) /\ h.from \in Player \ {p} /\ h.nonce \in 0..MaxTurns
    BY <1>2, <2>1 DEF UrgentKinds
  <2>3. CASE link'[p] = L /\ SaysIfHeard(p, "decline", h.from, h.nonce)
    <3>1. Ends(p)
      BY <1>5, <2>1, <2>2, <2>3 DEF Ends, h, L
    <3> QED
      BY <3>1 DEF EndMoves
  <2>4. CASE /\ outbox'[p] = outbox[p] /\ link[p] = NoLink
             /\ link'[p] = Phase("incoming", h.from, h.nonce)
    <3>1. Shows(p, h.from, h.nonce)
      BY <2>1, <2>2, <2>4 DEF Shows, HearsOf, h
    <3> QED
      BY <2>2, <3>1 DEF EndMoves
  <2> QED
    BY <2>1, <2>3, <2>4
<1>8. CASE Accept(p)
  <2>1. /\ inbox'[p] = inbox[p] /\ L.phase = "incoming"
        /\ \/ Says(p, Say("accept", p, L.peer, L.nonce)) /\ link'[p] = Phase("holding", L.peer, L.nonce)
           \/ outbox'[p] = outbox[p] /\ link'[p] = L
           \/ SaysIfHeard(p, "decline", L.peer, L.nonce) /\ link'[p] = NoLink
    BY <1>1, <1>8, AcceptDoes DEF L
  <2>2. L.peer \in Player \ {p} /\ L.nonce \in 0..MaxTurns /\ L = Phase("incoming", L.peer, L.nonce)
    BY <1>3, <1>4, <2>1
  <2>3. CASE Says(p, Say("accept", p, L.peer, L.nonce)) /\ link'[p] = Phase("holding", L.peer, L.nonce)
    <3>1. Accepts(p, L.peer, L.nonce)
      BY <2>1, <2>2, <2>3 DEF Accepts, Speaks, Moves, L
    <3> QED
      BY <2>2, <3>1 DEF EndMoves
  <2>4. CASE outbox'[p] = outbox[p] /\ link'[p] = L
    BY <2>1, <2>4 DEF EndMoves, Ends, L
  <2>5. CASE SaysIfHeard(p, "decline", L.peer, L.nonce) /\ link'[p] = NoLink
    <3>1. Ends(p)
      BY <1>5, <2>1, <2>2, <2>5 DEF Ends
    <3> QED
      BY <3>1 DEF EndMoves
  <2> QED
    BY <2>1, <2>3, <2>4, <2>5
<1>9. CASE Hold(p)
  <2>1. /\ inbox'[p] = inbox[p] /\ L.phase = "holding"
        /\ \/ Says(p, Say("start", p, L.peer, L.nonce)) /\ link'[p] = Phase("starting", L.peer, L.nonce)
           \/ outbox'[p] = outbox[p] /\ link'[p] = NoLink
           \/ SaysIfHeard(p, "unlink", L.peer, 0) /\ link'[p] = NoLink
    BY <1>1, <1>9, HoldDoes DEF L
  <2>2. L.peer \in Player \ {p} /\ L.nonce \in 0..MaxTurns /\ L = Phase("holding", L.peer, L.nonce)
    BY <1>3, <1>4, <2>1
  <2>3. CASE Says(p, Say("start", p, L.peer, L.nonce)) /\ link'[p] = Phase("starting", L.peer, L.nonce)
    <3>1. Stops(p, L.peer, L.nonce)
      BY <2>1, <2>2, <2>3 DEF Stops, Speaks, Moves, L
    <3> QED
      BY <2>2, <3>1 DEF EndMoves
  <2>4. CASE outbox'[p] = outbox[p] /\ link'[p] = NoLink
    BY <2>1, <2>4 DEF EndMoves, Ends
  <2>5. CASE SaysIfHeard(p, "unlink", L.peer, 0) /\ link'[p] = NoLink
    <3>1. Ends(p)
      BY <1>1, <1>5, <2>1, <2>2, <2>5 DEF Ends
    <3> QED
      BY <3>1 DEF EndMoves
  <2> QED
    BY <2>1, <2>3, <2>4, <2>5
<1>10. CASE HearAccept(p)
  <2>1. /\ inbox[p] # <<>> /\ h.kind = "accept" /\ inbox'[p] = Tail(inbox[p])
        /\ \/ /\ L = Phase("requesting", h.from, h.nonce)
              /\ link'[p] = Phase("holding", h.from, h.nonce) /\ outbox'[p] = outbox[p]
           \/ link'[p] = L /\ SaysIfHeard(p, "unlink", h.from, 0)
    BY <1>1, <1>10, HearAcceptDoes DEF Listens, h, L
  <2>2. h = Say("accept", h.from, p, h.nonce) /\ h.from \in Player \ {p} /\ h.nonce \in 0..MaxTurns
    BY <1>2, <2>1 DEF UrgentKinds
  <2>3. CASE link'[p] = L /\ SaysIfHeard(p, "unlink", h.from, 0)
    <3>1. Ends(p)
      BY <1>1, <1>5, <2>1, <2>2, <2>3 DEF Ends, h, L
    <3> QED
      BY <3>1 DEF EndMoves
  <2>4. CASE L = Phase("requesting", h.from, h.nonce)
             /\ link'[p] = Phase("holding", h.from, h.nonce) /\ outbox'[p] = outbox[p]
    <3>1. Agrees(p, h.from, h.nonce)
      BY <2>1, <2>2, <2>4 DEF Agrees, HearsOf, Moves, h, L
    <3> QED
      BY <2>2, <3>1 DEF EndMoves
  <2> QED
    BY <2>1, <2>3, <2>4
<1>11. CASE HearDecline(p)
  BY <1>1, <1>11, HearDeclineDoes DEF EndMoves, Ends, Listens
<1>12. CASE HearStart(p)
  <2>1. /\ inbox[p] # <<>> /\ h.kind = "start" /\ inbox'[p] = Tail(inbox[p])
        /\ \/ link'[p] = L /\ outbox'[p] = outbox[p]
           \/ /\ L = Phase("starting", h.from, h.nonce)
              /\ link'[p] = Phase("plugged", h.from, h.nonce) /\ outbox'[p] = outbox[p]
           \/ link'[p] = NoLink /\ SaysIfHeard(p, "unlink", h.from, 0)
    BY <1>1, <1>12, HearStartDoes DEF Listens, h, L
  <2>2. h = Say("start", h.from, p, h.nonce) /\ h.from \in Player \ {p} /\ h.nonce \in 0..MaxTurns
    BY <1>2, <2>1 DEF UrgentKinds
  <2>3. CASE link'[p] = L /\ outbox'[p] = outbox[p]
    BY <2>1, <2>3 DEF EndMoves, Ends, h, L
  <2>4. CASE link'[p] = NoLink /\ SaysIfHeard(p, "unlink", h.from, 0)
    <3>1. Ends(p)
      BY <1>1, <1>5, <2>1, <2>2, <2>4 DEF Ends, h
    <3> QED
      BY <3>1 DEF EndMoves
  <2>5. CASE L = Phase("starting", h.from, h.nonce)
             /\ link'[p] = Phase("plugged", h.from, h.nonce) /\ outbox'[p] = outbox[p]
    <3>1. PlugsIn(p, h.from, h.nonce)
      BY <2>1, <2>2, <2>5 DEF PlugsIn, HearsOf, Moves, h, L
    <3> QED
      BY <2>2, <3>1 DEF EndMoves
  <2> QED
    BY <2>1, <2>3, <2>4, <2>5
<1>13. CASE HearUnlink(p)
  <2>1. /\ inbox[p] # <<>> /\ h.kind = "unlink" /\ inbox'[p] = Tail(inbox[p])
        /\ outbox'[p] = outbox[p]
        /\ link'[p] = IF L.peer = h.from THEN NoLink ELSE L
    BY <1>1, <1>13, HearUnlinkDoes DEF Listens, h, L
  <2>2. h.from \in Player
    BY <1>2, <2>1 DEF UrgentKinds
  <2>3. link'[p].peer # h.from /\ (link'[p] = NoLink \/ link'[p] = link[p])
    BY <1>1, <1>4, <2>1, <2>2 DEF L
  <2> QED
    BY <2>1, <2>3 DEF EndMoves, Ends, h
<1>14. CASE HearLeft(p)
  <2>1. /\ inbox[p] # <<>> /\ h.kind = "left" /\ inbox'[p] = Tail(inbox[p])
        /\ outbox'[p] = outbox[p]
        /\ link'[p] = NoLink \/ link'[p] = link[p]
    BY <1>1, <1>14, HearLeftDoes DEF Listens, h
  <2> QED
    BY <2>1 DEF EndMoves, Ends, h
<1>15. CASE Pull(p)
  <2>1. /\ inbox'[p] = inbox[p] /\ L # NoLink /\ link'[p] = NoLink
        /\ SaysIfHeard(p, "decline", L.peer, L.nonce) \/ SaysIfHeard(p, "unlink", L.peer, 0)
    BY <1>1, <1>15, PullDoes DEF L
  <2>2. L.peer \in Player \ {p} /\ L.nonce \in 0..MaxTurns
    BY <1>3, <2>1
  <2>3. Ends(p)
    BY <1>1, <1>5, <2>1, <2>2 DEF Ends
  <2> QED
    BY <2>3 DEF EndMoves
<1> QED
  BY <1>6, <1>7, <1>8, <1>9, <1>10, <1>11, <1>12, <1>13, <1>14, <1>15 DEF Frontend

\* Said is said once and for all, and what a frontend hears is gone from its inbox.
LEMMA EndBoxes ==
    ASSUME Types, NEW p \in Player, FrontMoves(p), EndMoves(p)
    PROVE  /\ \A x \in Player : Carried(x)' = Carried(x) /\ Recording(x)' = Recording(x)
           /\ ToSet(inbox'[p]) \subseteq ToSet(inbox[p])
           /\ inbox'[p] = inbox[p] \/ (inbox[p] # <<>> /\ inbox'[p] = Tail(inbox[p]))
           /\ inbox[p] # <<>> => Head(inbox[p]) \in ToSet(inbox[p])
           /\ \A m \in Mail(p) : Says(p, m) => ToSet(outbox'[p]) = ToSet(outbox[p]) \union {m}
<1>1. \A x \in Player : Carried(x)' = Carried(x) /\ Recording(x)' = Recording(x)
  BY DEF FrontMoves, Carried, Recording
<1>2. inbox'[p] = inbox[p] \/ (inbox[p] # <<>> /\ inbox'[p] = Tail(inbox[p]))
  BY DEF EndMoves, Ends, Asks, HearsOf, Speaks, Shows, Accepts, Agrees, Stops, PlugsIn
<1>3. inbox[p] # <<>> =>
        ToSet(Tail(inbox[p])) \subseteq ToSet(inbox[p]) /\ Head(inbox[p]) \in ToSet(inbox[p])
  BY TailElements DEF Types, Wired, InTyped
<1> QED
  BY <1>1, <1>2, <1>3, SaidThere

\* What is in an outbox of a step of a frontend: what was there, and what the step says.
LEMMA EndSays ==
    ASSUME Types, NEW p \in Player, FrontMoves(p), EndMoves(p), NEW m, m \in ToSet(outbox'[p])
    PROVE  \/ m \in ToSet(outbox[p])
           \/ Ends(p) /\ m.kind \in {"decline", "unlink"} /\ (m.kind = "unlink" => m.nonce = 0)
           \/ \E q \in Player \ {p} : Asks(p, q) /\ m = Say("request", p, q, turn + 1)
           \/ \E q \in Player \ {p}, n \in 0..MaxTurns : Accepts(p, q, n) /\ m = Say("accept", p, q, n)
           \/ \E q \in Player \ {p}, n \in 0..MaxTurns : Stops(p, q, n) /\ m = Say("start", p, q, n)
<1>1. \A o \in Mail(p) : Says(p, o) => ToSet(outbox'[p]) = ToSet(outbox[p]) \union {o}
  BY EndBoxes
<1>2. \A kind \in UrgentKinds, q \in Player \ {p}, n \in 0..MaxTurns :
        /\ Say(kind, p, q, n) \in Mail(p)
        /\ Say(kind, p, q, n).kind = kind /\ Say(kind, p, q, n).nonce = n
  BY MailSaid
<1>3. CASE Ends(p)
  <2>1. CASE outbox'[p] = outbox[p]
    BY <2>1
  <2>2. ASSUME NEW kind \in {"decline", "unlink"}, NEW q \in Player \ {p}, NEW n \in 0..MaxTurns,
               Says(p, Say(kind, p, q, n)), kind = "unlink" => n = 0
        PROVE  m \in ToSet(outbox[p]) \/ m = Say(kind, p, q, n)
    BY <1>1, <1>2, <2>2 DEF UrgentKinds
  <2> QED
    BY <1>2, <1>3, <2>1, <2>2 DEF Ends, UrgentKinds
<1>4. ASSUME NEW q \in Player \ {p}, Asks(p, q)
      PROVE  m \in ToSet(outbox[p]) \/ m = Say("request", p, q, turn + 1)
  <2>1. turn + 1 \in 0..MaxTurns
    BY <1>4, TurnIn DEF Asks
  <2> QED
    BY <1>1, <1>2, <1>4, <2>1 DEF Asks, UrgentKinds
<1>5. ASSUME NEW q \in Player \ {p}, NEW n \in 0..MaxTurns, Accepts(p, q, n)
      PROVE  m \in ToSet(outbox[p]) \/ m = Say("accept", p, q, n)
  BY <1>1, <1>2, <1>5 DEF Accepts, Speaks, UrgentKinds
<1>6. ASSUME NEW q \in Player \ {p}, NEW n \in 0..MaxTurns, Stops(p, q, n)
      PROVE  m \in ToSet(outbox[p]) \/ m = Say("start", p, q, n)
  BY <1>1, <1>2, <1>6 DEF Stops, Speaks, UrgentKinds
<1>7. (\E q \in Player \ {p}, n \in 0..MaxTurns : Shows(p, q, n) \/ Agrees(p, q, n) \/ PlugsIn(p, q, n))
        => outbox'[p] = outbox[p]
  BY DEF Shows, Agrees, PlugsIn, HearsOf
<1> QED
  BY <1>3, <1>4, <1>5, <1>6, <1>7 DEF EndMoves

\* A player is in for an attempt from when it accepts it, or is told it was accepted.
LEMMA EndBound ==
    ASSUME Types, NEW p \in Player, FrontMoves(p), EndMoves(p),
           NEW a \in Player, NEW b \in Player, NEW n \in 0..MaxTurns, Bound(a, b, n)'
    PROVE  \/ Bound(a, b, n)
           \/ a = p /\ a # b /\ Agrees(p, b, n) /\ Say("accept", b, p, n) \in ToSet(inbox[p])
           \/ a = p /\ a # b /\ Accepts(p, b, n)
<1>1. /\ \A x \in Player : Carried(x)' = Carried(x)
      /\ ToSet(inbox'[p]) \subseteq ToSet(inbox[p])
      /\ inbox[p] # <<>> => Head(inbox[p]) \in ToSet(inbox[p])
  BY EndBoxes
<1>2. \A x \in Player : x # p =>
        outbox'[x] = outbox[x] /\ inbox'[x] = inbox[x] /\ link'[x] = link[x]
  BY DEF FrontMoves
<1>3. \A x \in Phases : \A q, k :
        /\ Phase(x, q, k).phase = x /\ Phase(x, q, k).peer = q
        /\ Phase(x, q, k).nonce = k
  BY PhaseIs
<1>4. CASE Say("start", a, b, n) \in Carried(a)' \/ Say("start", a, b, n) \in ToSet(inbox'[b])
  BY <1>1, <1>2, <1>4 DEF Bound, Flies
<1>5. CASE Say("start", a, b, n) \in ToSet(outbox'[a])
  <2>1. CASE a # p
    BY <1>2, <1>5, <2>1 DEF Bound, Flies
  <2>2. CASE a = p
    <3> DEFINE m == Say("start", p, b, n)
    <3>1. m.kind = "start" /\ \A k, x, y, z, i : m = Say(k, x, y, i) => k = "start" /\ y = b /\ i = n
      BY DEF Say
    <3> HIDE DEF m
    <3>2. m \in ToSet(outbox'[p])
      BY <1>5, <2>2 DEF m
    <3>3. \/ m \in ToSet(outbox[p])
          \/ \E q \in Player \ {p}, i \in 0..MaxTurns : Stops(p, q, i) /\ m = Say("start", p, q, i)
      BY <3>1, <3>2, EndSays
    <3>4. m \in ToSet(outbox[p]) \/ Stops(p, b, n)
      BY <3>1, <3>3
    <3>5. Stops(p, b, n) => Tied(link[p], b) /\ link[p].nonce = n
      BY <1>3 DEF Stops, Moves, Tied, Phases
    <3> QED
      BY <2>2, <3>4, <3>5 DEF m, Bound, Flies
  <2> QED
    BY <2>1, <2>2
<1>6. CASE Tied(link'[a], b) /\ link'[a].nonce = n
  <2>1. CASE a # p
    BY <1>2, <1>6, <2>1 DEF Bound
  <2>2. CASE a = p
    <3>1. CASE link'[p] = link[p]
      BY <1>6, <2>2, <3>1 DEF Bound
    <3>2. link'[p] # NoLink
      BY <1>6, <2>2, NoLinkIs DEF Tied
    <3>3. ASSUME NEW x \in Phases, NEW q \in Player \ {p}, NEW i, link'[p] = Phase(x, q, i)
          PROVE  x \in {"holding", "starting", "plugged"} /\ q = b /\ i = n /\ p # b
      BY <1>3, <1>6, <2>2, <3>3 DEF Tied
    <3>4. ~ \E q \in Player \ {p} : Asks(p, q)
      BY <3>3 DEF Asks, Phases
    <3>5. ~ \E q \in Player \ {p}, i \in 0..MaxTurns : Shows(p, q, i)
      BY <3>3 DEF Shows, Phases
    <3>6. ASSUME NEW q \in Player \ {p}, NEW i \in 0..MaxTurns, Accepts(p, q, i)
          PROVE  p # b /\ Accepts(p, b, n)
      BY <3>3, <3>6 DEF Accepts, Moves, Phases
    <3>7. ASSUME NEW q \in Player \ {p}, NEW i \in 0..MaxTurns, Agrees(p, q, i)
          PROVE  p # b /\ Agrees(p, b, n) /\ Say("accept", b, p, n) \in ToSet(inbox[p])
      <4>1. q = b /\ i = n /\ p # b
        BY <3>3, <3>7 DEF Agrees, Moves, Phases
      <4> QED
        BY <1>1, <3>7, <4>1 DEF Agrees, HearsOf
    <3>8. ASSUME NEW q \in Player \ {p}, NEW i \in 0..MaxTurns, Stops(p, q, i) \/ PlugsIn(p, q, i)
          PROVE  Tied(link[p], b) /\ link[p].nonce = n
      <4>1. q = b /\ i = n
        BY <3>3, <3>8 DEF Stops, PlugsIn, Moves, Phases
      <4> QED
        BY <1>3, <3>8, <4>1 DEF Stops, PlugsIn, Moves, Phases, Tied
    <3> QED
      BY <2>2, <3>1, <3>2, <3>4, <3>5, <3>6, <3>7, <3>8 DEF EndMoves, Ends, Bound
  <2> QED
    BY <2>1, <2>2
<1> QED
  BY <1>4, <1>5, <1>6 DEF Bound, Flies

\* What is once in a queue is once in its rest, and not at all when it was the head.
LEMMA TailOnce ==
    ASSUME NEW S, NEW B \in Seq(S), B # <<>>, NEW m,
           \A i, j \in DOMAIN B : B[i] = m /\ B[j] = m => i = j
    PROVE  /\ \A i, j \in DOMAIN Tail(B) : Tail(B)[i] = m /\ Tail(B)[j] = m => i = j
           /\ Head(B) = m => m \notin ToSet(Tail(B))
<1> DEFINE t == Tail(B)
<1>1. /\ Head(B) = B[1] /\ 1 \in DOMAIN B
      /\ \A j \in DOMAIN t : j \in Nat /\ j + 1 \in DOMAIN B /\ t[j] = B[j + 1]
  BY TailPlaces
<1>2. 0 \notin DOMAIN t
  OBVIOUS
<1> HIDE DEF t
<1>3. ASSUME NEW i \in DOMAIN t, NEW j \in DOMAIN t, t[i] = m, t[j] = m PROVE i = j
  <2>1. i + 1 = j + 1
    BY <1>1, <1>3
  <2> QED
    BY <1>1, <2>1
<1>4. ASSUME NEW j \in DOMAIN t, t[j] = m, Head(B) = m PROVE FALSE
  <2>1. j + 1 = 1 /\ j \in Nat
    BY <1>1, <1>4
  <2> QED
    BY <1>2, <2>1
<1>5. Head(B) = m => m \notin ToSet(t)
  BY <1>4 DEF ToSet
<1> QED
  BY <1>3, <1>5 DEF t

\* Nobody starts early, if what is asked was asked before and what is told was told.
LEMMA UntoldKept ==
    ASSUME Types, Numbers, Untold, Dated,
           \A o \in Ask : Asked(o)' => Asked(o) \/ o.nonce = turn + 1,
           \A o \in Ask : Told(o)' => Told(o) \/ ~ Asked(o)'
    PROVE  Untold'
<1> SUFFICES ASSUME NEW o \in Ask, Asked(o)', Told(o)' PROVE FALSE
  BY DEF Untold
<1>1. Told(o)
  OBVIOUS
<1>2. o.nonce = turn + 1
  BY <1>1 DEF Untold
<1>3. turn \in Nat
  BY TurnIn
<1>4. ~ Bound(o.from, o.to, o.nonce)
  BY <1>2, <1>3, AskIs DEF Dated
<1>5. ~ Mentioned(o)
  BY <1>2, <1>3 DEF Numbers, Numbered
<1> QED
  BY <1>1, <1>4, <1>5 DEF Told, Mentioned, Arrived, Answered

\* The end of a request's way is at a frontend that shows it, or a timely one.
LEMMA FrontAsked ==
    ASSUME Types, NEW p \in Player, FrontMoves(p), EndMoves(p), NEW o \in Ask, Asked(o)'
    PROVE  Asked(o) \/ (o.nonce = turn + 1 /\ o.from = p)
<1>1. /\ \A x \in Player : Carried(x)' = Carried(x) /\ Recording(x)' = Recording(x)
      /\ ToSet(inbox'[p]) \subseteq ToSet(inbox[p])
      /\ inbox[p] # <<>> => Head(inbox[p]) \in ToSet(inbox[p])
  BY EndBoxes
<1>2. \A x \in Player : x # p =>
        outbox'[x] = outbox[x] /\ inbox'[x] = inbox[x] /\ link'[x] = link[x]
  BY DEF FrontMoves
<1>3. CASE o \in Recording(o.from)' \/ o \in Carried(o.from)' \/ o \in ToSet(inbox'[o.to])
  BY <1>1, <1>2, <1>3, AskIs DEF Asked, Waiting, Going
<1>4. CASE o \in ToSet(outbox'[o.from])
  <2>1. CASE o.from # p
    BY <1>2, <1>4, <2>1, AskIs DEF Asked, Waiting
  <2>2. CASE o.from = p
    <3>1. o \in ToSet(outbox[p]) \/ \E q \in Player \ {p} : o = Say("request", p, q, turn + 1)
      <4>1. \A q, n : Say("accept", p, q, n).kind # "request" /\ Say("start", p, q, n).kind # "request"
        BY DEF Say
      <4> QED
        BY <1>4, <2>2, <4>1, AskIs, EndSays
    <3>2. \A q : Say("request", p, q, turn + 1).nonce = turn + 1
      BY DEF Say
    <3> QED
      BY <2>2, <3>1, <3>2 DEF Asked, Waiting
  <2> QED
    BY <2>1, <2>2
<1>5. CASE link'[o.to] = Phase("incoming", o.from, o.nonce)
  <2>1. CASE o.to # p
    BY <1>2, <1>5, <2>1, AskIs DEF Asked, Going
  <2>2. CASE o.to = p
    <3>1. \A x \in Phases : \A q, k :
            /\ Phase(x, q, k).phase = x /\ Phase(x, q, k).peer = q
            /\ Phase(x, q, k).nonce = k
      BY PhaseIs
    <3>2. link'[p].phase = "incoming" /\ link'[p].peer = o.from /\ link'[p].nonce = o.nonce
      BY <1>5, <2>2, <3>1 DEF Phases
    <3>3. CASE link'[p] = link[p]
      BY <1>5, <2>2, <3>3 DEF Asked, Going
    <3>4. ASSUME NEW q, NEW n, Shows(p, q, n)
          PROVE  o \in ToSet(inbox[p])
      <4>1. q = o.from /\ n = o.nonce
        BY <3>1, <3>2, <3>4 DEF Shows, Phases
      <4>2. o = Say("request", o.from, p, o.nonce)
        BY <2>2, AskIs
      <4> QED
        BY <1>1, <3>4, <4>1, <4>2 DEF Shows, HearsOf
    <3>5. \A q, n : ~ (\/ Asks(p, q) \/ Accepts(p, q, n) \/ Agrees(p, q, n)
                       \/ Stops(p, q, n) \/ PlugsIn(p, q, n))
      BY <3>1, <3>2 DEF Asks, Accepts, Agrees, Stops, PlugsIn, Moves, Phases
    <3>6. link'[p] # NoLink
      BY <3>2, NoLinkIs
    <3> QED
      BY <2>2, <3>3, <3>4, <3>5, <3>6 DEF EndMoves, Ends, Asked, Going
  <2> QED
    BY <2>1, <2>2
<1> QED
  BY <1>3, <1>4, <1>5 DEF Asked, Waiting, Going

\* A frontend accepts what it was asked, and from then on it is asked no more.
LEMMA Accepting ==
    ASSUME Types, Numbers, Single, NEW p \in Player, FrontMoves(p),
           NEW q \in Player \ {p}, NEW n \in 0..MaxTurns, Accepts(p, q, n)
    PROVE  LET m == Say("request", q, p, n)
           IN /\ m \in Ask /\ Asked(m) /\ ~ Asked(m)'
              /\ Say("request", p, q, n) \in Ask => ~ Asked(Say("request", p, q, n))
              /\ n \in 1..turn
<1> DEFINE m == Say("request", q, p, n)
           o == Say("request", p, q, n)
<1>1. /\ m \in Ask /\ m.from = q /\ m.to = p /\ m.nonce = n
      /\ o.from = p /\ o.nonce = n
  BY MailSaid DEF Ask, UrgentKinds
<1> HIDE DEF m, o
<1>2. link[p] = Phase("incoming", q, n) /\ link'[p] = Phase("holding", q, n) /\ inbox'[p] = inbox[p]
      /\ Says(p, Say("accept", p, q, n))
  BY DEF Accepts, Speaks, Moves
<1>3. Arrived(m) /\ Going(m)
  BY <1>1, <1>2 DEF Arrived, Going
<1>4. ~ Waiting(m)
  BY <1>1, <1>3 DEF Numbers, Fresh
<1>5. m \notin Carried(q) /\ m \notin ToSet(inbox[p])
  BY <1>1, <1>2 DEF Single, SingleAt
<1>6. /\ \A x \in Player : Carried(x)' = Carried(x) /\ Recording(x)' = Recording(x)
      /\ outbox'[q] = outbox[q]
  BY DEF FrontMoves, Carried, Recording
<1>7. link'[p] # Phase("incoming", q, n)
  BY <1>2, PhaseIs DEF Phases
<1>8. ~ Asked(m)'
  BY <1>1, <1>2, <1>4, <1>5, <1>6, <1>7 DEF Asked, Waiting, Going
<1>9. ASSUME o \in Ask, Asked(o) PROVE FALSE
  <2>1. Mentioned(o) /\ Mentioned(m)
    BY <1>3, <1>9 DEF Mentioned, Asked, Going, Arrived
  <2>2. o = m
    BY <1>1, <1>9, <2>1 DEF Numbers, OneAsker
  <2> QED
    BY <1>1, <2>2
<1>10. n \in 1..turn
  BY <1>1, <1>3 DEF Numbers, Numbered, Mentioned
<1> QED
  BY <1>1, <1>3, <1>8, <1>9, <1>10 DEF Asked, m, o

\* A frontend tells of a request it was shown, and it is then no longer asked (link.rs).
LEMMA FrontUntold ==
    ASSUME Types, Numbers, Single, Untold, Dated,
           NEW p \in Player, FrontMoves(p), EndMoves(p), turn' \in turn..MaxTurns
    PROVE  Untold' /\ Dated'
<1>1. /\ \A x \in Player : Carried(x)' = Carried(x)
      /\ ToSet(inbox'[p]) \subseteq ToSet(inbox[p])
  BY EndBoxes
<1>2. \A x \in Player : x # p => outbox'[x] = outbox[x] /\ inbox'[x] = inbox[x]
  BY DEF FrontMoves
<1>3. ASSUME NEW o \in Ask, Told(o)'
      PROVE  Told(o) \/ ~ Asked(o)'
  <2>1. CASE Answer(o, "accept") \in Carried(o.to)' \/ Answer(o, "accept") \in ToSet(inbox'[o.from])
    BY <1>1, <1>2, <2>1, AskIs DEF Told
  <2>2. CASE Answer(o, "accept") \in ToSet(outbox'[o.to])
    <3>1. CASE o.to # p
      BY <1>2, <2>2, <3>1, AskIs DEF Told
    <3>2. CASE o.to = p
      <4> DEFINE a == Answer(o, "accept")
      <4>1. /\ a.kind = "accept" /\ a.from = p /\ a.to = o.from /\ a.nonce = o.nonce
            /\ o.from \in Player /\ o = Say("request", o.from, p, o.nonce)
        BY <3>2, AskIs
      <4>2. \A k, x, y, i : a = Say(k, x, y, i) => k = "accept" /\ y = o.from /\ i = o.nonce
        BY <4>1 DEF Say
      <4> HIDE DEF a
      <4>3. \/ a \in ToSet(outbox[p])
            \/ \E q \in Player \ {p}, n \in 0..MaxTurns : Accepts(p, q, n) /\ a = Say("accept", p, q, n)
        BY <2>2, <3>2, <4>1, <4>2, EndSays DEF a
      <4>4. CASE a \in ToSet(outbox[p])
        BY <3>2, <4>4 DEF Told, a
      <4>5. ASSUME NEW q \in Player \ {p}, NEW n \in 0..MaxTurns, Accepts(p, q, n),
                   a = Say("accept", p, q, n)
            PROVE  ~ Asked(o)'
        <5>1. o = Say("request", q, p, n)
          BY <4>1, <4>2, <4>5
        <5> QED
          BY <4>5, <5>1, Accepting
      <4> QED
        BY <4>3, <4>4, <4>5
    <3> QED
      BY <3>1, <3>2
  <2>3. CASE Bound(o.from, o.to, o.nonce)'
    <3>1. /\ o.from \in Player /\ o.to \in Player /\ o.nonce \in 0..MaxTurns
          /\ o = Say("request", o.from, o.to, o.nonce)
      BY AskIs
    <3>2. CASE Bound(o.from, o.to, o.nonce)
      BY <3>2 DEF Told
    <3>3. CASE o.from = p /\ Say("accept", o.to, p, o.nonce) \in ToSet(inbox[p])
      BY <3>3 DEF Told, Answer
    <3>4. CASE o.from = p /\ o.to # p /\ Accepts(p, o.to, o.nonce)
      <4>1. ~ Asked(o) /\ o.nonce \in 1..turn
        BY <3>1, <3>4, Accepting
      <4>2. o.nonce # turn + 1
        BY <4>1, TurnIn
      <4> QED
        BY <4>1, <4>2, FrontAsked
    <3> QED
      BY <2>3, <3>1, <3>2, <3>3, <3>4, EndBound
  <2> QED
    BY <1>3, <2>1, <2>2, <2>3 DEF Told
<1>4. ASSUME NEW a \in Player, NEW b \in Player, NEW n \in 0..MaxTurns, Bound(a, b, n)'
      PROVE  n <= turn'
  <2>1. turn \in Nat /\ turn' \in Nat /\ turn <= turn' /\ n \in Nat
    BY TurnIn
  <2>2. n <= turn => n <= turn'
    BY <2>1
  <2>3. CASE Bound(a, b, n)
    BY <2>2, <2>3 DEF Dated
  <2>4. CASE a = p /\ Say("accept", b, p, n) \in ToSet(inbox[p])
    <3>1. IsAccept(Say("accept", b, p, n), b, p) /\ Say("accept", b, p, n).nonce = n
      BY DEF IsAccept, Say
    <3>2. n \in 1..turn
      BY <2>4, <3>1, AcceptNumbered
    <3> QED
      BY <2>1, <2>2, <3>2
  <2>5. CASE a = p /\ a # b /\ Accepts(p, b, n)
    <3>1. n \in 1..turn
      BY <2>5, Accepting
    <3> QED
      BY <2>1, <2>2, <3>1
  <2> QED
    BY <1>4, <2>3, <2>4, <2>5, EndBound
<1>5. Dated'
  BY <1>4 DEF Dated
<1>6. Untold'
  BY <1>3, FrontAsked, UntoldKept
<1> QED
  BY <1>5, <1>6

\* A frontend that is shown a request has it out of its inbox, and asks with a new number.
LEMMA FrontSingle ==
    ASSUME Types, Single, NEW p \in Player, FrontMoves(p), EndMoves(p)
    PROVE  Single'
<1> SUFFICES ASSUME NEW o \in Ask PROVE SingleAt(o)'
  BY DEF Single
<1>1. /\ \A x \in Player : Carried(x)' = Carried(x)
      /\ ToSet(inbox'[p]) \subseteq ToSet(inbox[p])
      /\ inbox'[p] = inbox[p] \/ (inbox[p] # <<>> /\ inbox'[p] = Tail(inbox[p]))
  BY EndBoxes
<1>2. SingleAt(o) /\ o.from \in Player /\ o.to \in Player
  BY AskIs DEF Single
<1>3. CASE o.to # p
  <2>1. inbox'[o.to] = inbox[o.to] /\ link'[o.to] = link[o.to]
    BY <1>2, <1>3 DEF FrontMoves
  <2> QED
    BY <1>1, <1>2, <2>1 DEF SingleAt
<1>4. CASE o.to = p
  <2>1. inbox[p] \in Seq(News(p) \union {Left(c) : c \in closing})
    BY DEF Types, Wired, InTyped
  <2>2. \A i, j \in DOMAIN inbox[p] : inbox[p][i] = o /\ inbox[p][j] = o => i = j
    BY <1>2, <1>4 DEF SingleAt
  <2>3. inbox[p] # <<>> =>
          /\ \A i, j \in DOMAIN Tail(inbox[p]) : Tail(inbox[p])[i] = o /\ Tail(inbox[p])[j] = o => i = j
          /\ Head(inbox[p]) = o => o \notin ToSet(Tail(inbox[p]))
          /\ Head(inbox[p]) \in ToSet(inbox[p])
    BY <2>1, <2>2, TailOnce, TailElements
  <2>4. \A i, j \in DOMAIN inbox'[p] : inbox'[p][i] = o /\ inbox'[p][j] = o => i = j
    BY <1>1, <2>2, <2>3
  <2>5. ASSUME link'[p] = Phase("incoming", o.from, o.nonce)
        PROVE  o \notin Carried(o.from)' /\ o \notin ToSet(inbox'[p])
    <3>1. CASE link'[p] = link[p]
      BY <1>1, <1>2, <1>4, <2>5, <3>1 DEF SingleAt
    <3>2. \A x \in Phases : \A q, k :
            /\ Phase(x, q, k).phase = x /\ Phase(x, q, k).peer = q
            /\ Phase(x, q, k).nonce = k
      BY PhaseIs
    <3>3. link'[p].phase = "incoming" /\ link'[p].peer = o.from /\ link'[p].nonce = o.nonce
      BY <2>5, <3>2 DEF Phases
    <3>4. ASSUME NEW q, NEW n, Shows(p, q, n)
          PROVE  o \notin Carried(o.from)' /\ o \notin ToSet(inbox'[p])
      <4>1. q = o.from /\ n = o.nonce
        BY <3>2, <3>3, <3>4 DEF Shows, Phases
      <4>2. o = Say("request", o.from, p, o.nonce)
        BY <1>4, AskIs
      <4>3. inbox[p] # <<>> /\ Head(inbox[p]) = o /\ inbox'[p] = Tail(inbox[p])
        BY <3>4, <4>1, <4>2 DEF Shows, HearsOf
      <4> QED
        BY <1>1, <1>2, <1>4, <2>3, <4>3 DEF SingleAt
    <3>5. \A q, n : ~ (\/ Asks(p, q) \/ Accepts(p, q, n) \/ Agrees(p, q, n)
                       \/ Stops(p, q, n) \/ PlugsIn(p, q, n))
      BY <3>2, <3>3 DEF Asks, Accepts, Agrees, Stops, PlugsIn, Moves, Phases
    <3>6. link'[p] # NoLink
      BY <3>3, NoLinkIs
    <3> QED
      BY <3>1, <3>4, <3>5, <3>6 DEF EndMoves, Ends
  <2> QED
    BY <1>1, <1>2, <1>4, <2>4, <2>5 DEF SingleAt
<1> QED
  BY <1>3, <1>4

\* So a frontend keeps every part, and it says Unlink without a number.
LEMMA FrontAttempts ==
    ASSUME Types, Numbers, Attempts, NEW p \in Player, FrontMoves(p), EndMoves(p),
           turn' \in turn..MaxTurns
    PROVE  Attempts'
<1>1. ZeroUnlinks'
  <2> SUFFICES ASSUME NEW x \in Player, NEW m \in ToSet(outbox'[x]), m.kind = "unlink"
               PROVE  m.nonce = 0
    BY DEF ZeroUnlinks
  <2>1. \A k, q, n : Say(k, p, q, n).kind = k
    BY DEF Say
  <2>2. CASE m \in ToSet(outbox[x])
    BY <2>2 DEF Attempts, ZeroUnlinks
  <2>3. CASE x = p /\ m \notin ToSet(outbox[x])
    BY <2>1, <2>3, EndSays
  <2> QED
    BY <2>2, <2>3 DEF FrontMoves
<1> QED
  BY <1>1, FrontUntold, FrontSingle DEF Attempts

\* What a queue grows by comes in once.
LEMMA GrownOnce ==
    ASSUME NEW B, NEW B2, NEW m, Grows(B, B2, m), NEW o, IsUrgent(o),
           \A i, j \in DOMAIN B : B[i] = o /\ B[j] = o => i = j,
           o = m => o \notin ToSet(B)
    PROVE  \A i, j \in DOMAIN B2 : B2[i] = o /\ B2[j] = o => i = j
<1>1. PICK k \in DOMAIN B2 :
        /\ B2[k] = m
        /\ \A j \in DOMAIN B2 : IsUrgent(B2[j]) /\ j # k => j \in DOMAIN B /\ B2[j] = B[j]
  BY DEF Grows
<1>2. ASSUME NEW i \in DOMAIN B2, NEW j \in DOMAIN B2, B2[i] = o, B2[j] = o PROVE i = j
  <2>1. CASE o = m
    <3>1. \A x \in DOMAIN B2 : B2[x] = o /\ x # k => x \in DOMAIN B /\ B[x] = o
      BY <1>1
    <3>2. \A x \in DOMAIN B : B[x] # o
      BY <2>1 DEF ToSet
    <3> QED
      BY <1>2, <3>1, <3>2
  <2>2. CASE o # m
    BY <1>1, <1>2, <2>2
  <2> QED
    BY <2>1, <2>2
<1> QED
  BY <1>2

\* Letters that move on, from an outbox to a reader to an inbox, start nothing early.
LEMMA PassedUntold ==
    ASSUME Types, Numbers, Untold, Dated, ZeroUnlinks, link' = link, turn' \in turn..MaxTurns,
           \A o \in Ask : Asked(o)' => Asked(o),
           \A x \in Player : ToSet(outbox'[x]) \subseteq ToSet(outbox[x]),
           \A x \in Player : \A m \in Carried(x)' : m.kind \in {"accept", "start"} =>
                m \in Carried(x) \/ m \in ToSet(outbox[x]),
           \A x \in Player : \A m \in ToSet(inbox'[x]) : m.kind \in {"accept", "start"} =>
                m \in ToSet(inbox[x]) \/ m \in Carried(m.from)
    PROVE  Untold' /\ Dated' /\ ZeroUnlinks'
<1>1. \A p, q, n : Say("start", p, q, n).kind = "start" /\ Say("start", p, q, n).from = p
  BY DEF Say
<1>2. \A p, q \in Player : \A n : Bound(p, q, n)' => Bound(p, q, n)
  BY <1>1 DEF Bound, Flies
<1>3. ASSUME NEW o \in Ask, Told(o)' PROVE Told(o)
  BY <1>2, <1>3, AskIs DEF Told
<1>4. Untold'
  BY <1>3, UntoldKept
<1>5. turn \in Nat /\ turn' \in Nat /\ turn <= turn'
  BY TurnIn
<1>6. Dated'
  BY <1>2, <1>5 DEF Dated
<1>7. ZeroUnlinks'
  BY DEF ZeroUnlinks
<1> QED
  BY <1>4, <1>6, <1>7

\* What a reader does: a letter is taken from its outbox, recorded, handed on or answered.
LEMMA RoutePasses ==
    ASSUME Types, NEW p \in Player, Route(p)
    PROVE  /\ RouteMoves(p)
           /\ ToSet(outbox'[p]) \subseteq ToSet(outbox[p])
           /\ \A x \in Player : x # p => Carried(x)' = Carried(x) /\ Recording(x)' = Recording(x)
           /\ \A m \in Recording(p)' : m \in ToSet(outbox[p])
           /\ \A m \in Carried(p)' : \/ m \in ToSet(outbox[p]) /\ m.kind # "request"
                                     \/ m.kind \in {"decline", "unlink"}
                                     \/ m \in Ask /\ m.from = p /\ m \in Recording(p)
<1> DEFINE m == Head(outbox[p])
<1>1. ASSUME NEW o
      PROVE  /\ Carry(<<>>, "deliver") = {} /\ Carry(<<>>, "record") = {}
             /\ Carry(<<Deliver(o)>>, "deliver") = {o} /\ Carry(<<Deliver(o)>>, "record") = {}
             /\ Carry(<<Job("record", o, {})>>, "record") = {o}
             /\ Carry(<<Job("record", o, {})>>, "deliver") = {}
  BY JobCarries
<1>2. \A o, what : Answer(o, what).kind = what
  BY DEF Answer, Say
<1>3. RouteMoves(p) =>
        \A x \in Player : x # p => Carried(x)' = Carried(x) /\ Recording(x)' = Recording(x)
  BY Threads DEF RouteMoves, Carried, Recording
<1>4. ASSUME NEW kind, NEW jobs, Routes(p, kind, jobs)
      PROVE  /\ RouteMoves(p) /\ m \in ToSet(outbox[p]) /\ m.kind = kind
             /\ ToSet(outbox'[p]) \subseteq ToSet(outbox[p])
             /\ Carried(p)' = Carry(jobs, "deliver") /\ Recording(p)' = Carry(jobs, "record")
  <2>1. /\ RouteMoves(p) /\ outbox[p] # <<>> /\ m.kind = kind
        /\ outbox'[p] = Tail(outbox[p]) /\ work'[Reader(p)] = jobs
    BY <1>4 DEF Routes
  <2>2. m \in ToSet(outbox[p]) /\ ToSet(Tail(outbox[p])) \subseteq ToSet(outbox[p])
    BY <2>1, TailElements DEF Types, Wired, OutTyped
  <2>3. Carried(p)' = Carry(jobs, "deliver") /\ Recording(p)' = Carry(jobs, "record")
    BY <2>1 DEF Carried, Recording
  <2> QED
    BY <2>1, <2>2, <2>3
<1> HIDE DEF m
<1>5. ASSUME NEW kind, NEW jobs, Routes(p, kind, jobs),
             \/ jobs = <<>>
             \/ kind = "request" /\ jobs = <<Job("record", m, {})>>
             \/ kind # "request" /\ jobs = <<Deliver(m)>>
             \/ \E what \in {"decline", "unlink"} : jobs = <<Deliver(Answer(m, what))>>
      PROVE  /\ \A o \in Recording(p)' : o \in ToSet(outbox[p])
             /\ \A o \in Carried(p)' : \/ o \in ToSet(outbox[p]) /\ o.kind # "request"
                                       \/ o.kind \in {"decline", "unlink"}
  <2>1. /\ m \in ToSet(outbox[p]) /\ m.kind = kind
        /\ Carried(p)' = Carry(jobs, "deliver") /\ Recording(p)' = Carry(jobs, "record")
    BY <1>4, <1>5
  <2>2. CASE jobs = <<>>
    BY <1>1, <2>1, <2>2
  <2>3. CASE kind = "request" /\ jobs = <<Job("record", m, {})>>
    <3>1. Recording(p)' = {m} /\ Carried(p)' = {}
      BY <1>1, <2>1, <2>3
    <3> QED
      BY <2>1, <3>1
  <2>4. CASE kind # "request" /\ jobs = <<Deliver(m)>>
    <3>1. Recording(p)' = {} /\ Carried(p)' = {m}
      BY <1>1, <2>1, <2>4
    <3> QED
      BY <2>1, <2>4, <3>1
  <2>5. ASSUME NEW what \in {"decline", "unlink"}, jobs = <<Deliver(Answer(m, what))>>
        PROVE  Recording(p)' = {} /\ Carried(p)' = {Answer(m, what)}
    BY <1>1, <2>1, <2>5
  <2> QED
    BY <1>2, <1>5, <2>2, <2>3, <2>4, <2>5
<1>6. Wired
  BY DEF Types
<1>7. CASE RouteRequest(p)
  BY <1>3, <1>4, <1>5, <1>6, <1>7, RouteRequestDoes DEF m
<1>8. CASE RouteAccept(p)
  BY <1>3, <1>4, <1>5, <1>6, <1>8, RouteAcceptDoes DEF m
<1>9. CASE RouteDecline(p)
  BY <1>3, <1>4, <1>5, <1>6, <1>9, RouteDeclineDoes DEF m
<1>10. CASE RouteStart(p)
  BY <1>3, <1>4, <1>5, <1>6, <1>10, RouteStartDoes DEF m
<1>11. CASE RouteUnlink(p)
  BY <1>3, <1>4, <1>5, <1>6, <1>11, RouteUnlinkDoes DEF m
<1>12. CASE RecordRequest(p)
  <2>1. PICK o \in Mail(p) \cap Ask :
            /\ work[Reader(p)] = <<Job("record", o, {})>>
            /\ RouteMoves(p) /\ outbox'[p] = outbox[p]
            /\ \/ work'[Reader(p)] = <<Deliver(Answer(o, "decline"))>>
               \/ work'[Reader(p)] = <<Deliver(o)>>
    BY <1>12, RecordRequestDoes
  <2>2. Recording(p) = {o} /\ Recording(p)' = {}
    BY <1>1, <2>1 DEF Recording
  <2>3. Carried(p)' = {o} \/ Carried(p)' = {Answer(o, "decline")}
    BY <1>1, <2>1 DEF Carried
  <2>4. o \in Ask /\ o.from = p
    BY DEF Mail
  <2> QED
    BY <1>2, <1>3, <2>1, <2>2, <2>3, <2>4
<1> QED
  BY <1>7, <1>8, <1>9, <1>10, <1>11, <1>12 DEF Route

\* A reader takes what it hands on out of the outbox, so nothing is in two places.
LEMMA RouteAttempts ==
    ASSUME Types, Numbers, Attempts, NEW p \in Player, Route(p)
    PROVE  Attempts'
<1>1. /\ RouteMoves(p)
      /\ ToSet(outbox'[p]) \subseteq ToSet(outbox[p])
      /\ \A x \in Player : x # p => Carried(x)' = Carried(x) /\ Recording(x)' = Recording(x)
      /\ \A m \in Recording(p)' : m \in ToSet(outbox[p])
      /\ \A m \in Carried(p)' : \/ m \in ToSet(outbox[p]) /\ m.kind # "request"
                                \/ m.kind \in {"decline", "unlink"}
                                \/ m \in Ask /\ m.from = p /\ m \in Recording(p)
  BY RoutePasses
<1>2. /\ inbox' = inbox /\ link' = link /\ turn' = turn
      /\ \A x \in Player : x # p => outbox'[x] = outbox[x]
  BY <1>1 DEF RouteMoves
<1>3. \A o \in Ask : o.kind = "request" /\ o.from \in Player /\ o.to \in Player
  BY AskIs
<1>4. \A o \in Ask : o \in Carried(o.from)' => o \in Carried(o.from) \/ Waiting(o)
  BY <1>1, <1>3 DEF Waiting
<1>5. \A o \in Ask : Waiting(o)' => Waiting(o)
  BY <1>1, <1>2, <1>3 DEF Waiting
<1>6. \A o \in Ask : Asked(o)' => Asked(o)
  BY <1>2, <1>4, <1>5 DEF Asked, Going
<1>7. ASSUME NEW o \in Ask PROVE SingleAt(o)'
  <2>1. SingleAt(o)
    BY DEF Attempts, Single
  <2>2. Waiting(o) => o \notin ToSet(inbox[o.to]) /\ link[o.to] # Phase("incoming", o.from, o.nonce)
    BY DEF Numbers, Fresh, Arrived
  <2> QED
    BY <1>2, <1>4, <2>1, <2>2 DEF SingleAt
<1>8. Single'
  BY <1>7 DEF Single
<1>9. turn' \in turn..MaxTurns
  BY <1>2, TurnIn
<1>10. /\ \A x \in Player : ToSet(outbox'[x]) \subseteq ToSet(outbox[x])
       /\ \A x \in Player : \A m \in Carried(x)' : m.kind \in {"accept", "start"} =>
            m \in Carried(x) \/ m \in ToSet(outbox[x])
  BY <1>1, <1>2, <1>3
<1> QED
  BY <1>2, <1>6, <1>8, <1>9, <1>10, PassedUntold DEF Attempts

\* A delivery takes what comes into an inbox from the thread that carried it.
LEMMA DeliversAttempts ==
    ASSUME Types, Numbers, Attempts, NEW t \in Thread, NEW m, Delivers(t, m)
    PROVE  Attempts'
<1>1. /\ turn' = turn /\ link' = link /\ outbox' = outbox
      /\ m.to \in Player /\ \A y \in Player : y # m.to => inbox'[y] = inbox[y]
      /\ \/ inbox'[m.to] = inbox[m.to]
         \/ /\ ToSet(inbox'[m.to]) = ToSet(inbox[m.to]) \union {m}
            /\ Grows(inbox[m.to], inbox'[m.to], m)
  BY DEF Delivers, rosterVars, frontVars
<1>2. /\ \A x \in Player : Recording(x)' = Recording(x) /\ Carried(x)' \subseteq Carried(x)
      /\ m.kind \in {"request", "accept", "start"} => m \in Carried(m.from) /\ Carried(m.from)' = {}
  <2>1. \A c, q : Say("unlink", c, q, 0).kind = "unlink"
    BY DEF Say
  <2> QED
    BY <2>1, DeliversCarries DEF Mail
<1>3. \A o \in Ask : o.kind = "request" /\ o.from \in Player /\ o.to \in Player
  BY AskIs
<1>4. \A o \in Ask : Asked(o)' => Asked(o)
  BY <1>1, <1>2, <1>3 DEF Asked, Waiting, Going
<1>5. ASSUME NEW o \in Ask PROVE SingleAt(o)'
  <2>1. SingleAt(o) /\ IsUrgent(o)
    BY <1>3 DEF Attempts, Single, IsUrgent, UrgentKinds
  <2>2. o = m => o \notin ToSet(inbox[o.to]) /\ link[o.to] # Phase("incoming", o.from, o.nonce)
    BY <1>2, <1>3, <2>1 DEF SingleAt
  <2>3. \A i, j \in DOMAIN inbox'[o.to] : inbox'[o.to][i] = o /\ inbox'[o.to][j] = o => i = j
    <3>1. \A i, j \in DOMAIN inbox[o.to] : inbox[o.to][i] = o /\ inbox[o.to][j] = o => i = j
      BY <2>1 DEF SingleAt
    <3>2. CASE inbox'[o.to] = inbox[o.to]
      BY <3>1, <3>2
    <3>3. CASE o.to = m.to /\ Grows(inbox[m.to], inbox'[m.to], m)
      BY <2>1, <2>2, <3>1, <3>3, GrownOnce
    <3> QED
      BY <1>1, <1>3, <3>2, <3>3
  <2>4. o \in ToSet(inbox'[o.to]) => o \in ToSet(inbox[o.to]) \/ o = m
    BY <1>1, <1>3
  <2>5. o = m => o \notin Carried(o.from)'
    BY <1>2, <1>3
  <2>6. o \in Carried(o.from)' => o \in Carried(o.from)
    BY <1>2, <1>3
  <2> QED
    BY <1>1, <2>1, <2>2, <2>3, <2>4, <2>5, <2>6 DEF SingleAt
<1>6. Single'
  BY <1>5 DEF Single
<1>7. turn' \in turn..MaxTurns
  BY <1>1, TurnIn
<1>8. \A x \in Player : \A o \in ToSet(inbox'[x]) : o.kind \in {"accept", "start"} =>
         o \in ToSet(inbox[x]) \/ o \in Carried(o.from)
  BY <1>1, <1>2
<1> QED
  BY <1>1, <1>2, <1>4, <1>6, <1>7, <1>8, PassedUntold DEF Attempts

\* What a close does to an inbox: it is dropped, or a farewell comes in behind the rest.
LEMMA CloseBoxes ==
    ASSUME Types, CloseStep, NEW x \in Player
    PROVE  /\ Carried(x)' = Carried(x) /\ Recording(x)' = Recording(x)
           /\ ToSet(outbox'[x]) \subseteq ToSet(outbox[x])
           /\ \/ inbox'[x] = inbox[x] \/ (inbox'[x] = <<>> /\ x \in closing')
              \/ \E c \in closing : /\ Grows(inbox[x], inbox'[x], Left(c))
                                    /\ ToSet(inbox'[x]) = ToSet(inbox[x]) \union {Left(c)}
<1>1. Carried(x)' = Carried(x) /\ Recording(x)' = Recording(x)
  BY DEF CloseStep, Carried, Recording
<1>2. inbox[x] \in Seq(News(x) \union {Left(c) : c \in closing})
  BY DEF Types, Wired, InTyped
<1>3. ASSUME NEW c \in closing, inbox'[x] = Append(inbox[x], Left(c))
      PROVE  /\ Grows(inbox[x], inbox'[x], Left(c))
             /\ ToSet(inbox'[x]) = ToSet(inbox[x]) \union {Left(c)}
  BY <1>2, <1>3, AppendPlaces
<1>4. ToSet(<<>>) = {}
  BY DEF ToSet
<1> QED
  BY <1>1, <1>3, <1>4 DEF CloseStep

\* A close drops an inbox or puts a farewell into one, and neither is a request or an answer.
LEMMA CloseAttempts ==
    ASSUME Types, Numbers, Attempts, CloseStep
    PROVE  Attempts'
<1>1. \A x \in Player :
        /\ Carried(x)' = Carried(x) /\ Recording(x)' = Recording(x)
        /\ ToSet(outbox'[x]) \subseteq ToSet(outbox[x])
        /\ \/ inbox'[x] = inbox[x] \/ inbox'[x] = <<>>
           \/ \E c \in closing : /\ Grows(inbox[x], inbox'[x], Left(c))
                                 /\ ToSet(inbox'[x]) = ToSet(inbox[x]) \union {Left(c)}
  BY CloseBoxes
<1>2. link' = link /\ turn' \in turn..MaxTurns
  BY DEF CloseStep
<1>3. \A o \in Ask : o.kind = "request" /\ o.from \in Player /\ o.to \in Player
  BY AskIs
<1>4. ASSUME NEW x \in Player, NEW o \in ToSet(inbox'[x]), o.kind \in {"request", "accept", "start"}
      PROVE  o \in ToSet(inbox[x])
  <2>1. \A c : Left(c).kind = "left"
    BY DEF Left, Say
  <2>2. ToSet(<<>>) = {}
    BY DEF ToSet
  <2> QED
    BY <1>1, <1>4, <2>1, <2>2
<1>5. \A o \in Ask : Asked(o)' => Asked(o)
  BY <1>1, <1>2, <1>3, <1>4 DEF Asked, Waiting, Going
<1>6. ASSUME NEW o \in Ask PROVE SingleAt(o)'
  <2>1. SingleAt(o) /\ IsUrgent(o)
    BY <1>3 DEF Attempts, Single, IsUrgent, UrgentKinds
  <2>2. \A c : o # Left(c)
    BY <1>3 DEF Left, Say
  <2>3. \A i, j \in DOMAIN inbox'[o.to] : inbox'[o.to][i] = o /\ inbox'[o.to][j] = o => i = j
    <3>1. \A i, j \in DOMAIN inbox[o.to] : inbox[o.to][i] = o /\ inbox[o.to][j] = o => i = j
      BY <2>1 DEF SingleAt
    <3>2. CASE inbox'[o.to] = inbox[o.to] \/ inbox'[o.to] = <<>>
      BY <3>1, <3>2
    <3>3. ASSUME NEW c, Grows(inbox[o.to], inbox'[o.to], Left(c))
          PROVE  \A i, j \in DOMAIN inbox'[o.to] : inbox'[o.to][i] = o /\ inbox'[o.to][j] = o => i = j
      BY <2>1, <2>2, <3>1, <3>3, GrownOnce
    <3> QED
      BY <1>1, <1>3, <3>2, <3>3
  <2> QED
    BY <1>1, <1>2, <1>3, <1>4, <2>1, <2>3 DEF SingleAt
<1>7. Single'
  BY <1>6 DEF Single
<1> QED
  BY <1>1, <1>2, <1>4, <1>5, <1>7, PassedUntold DEF Attempts

\* Nobody has asked anything at first.
LEMMA AttemptsInit == Init => Attempts
<1> SUFFICES ASSUME Init PROVE Attempts
  OBVIOUS
<1>1. /\ work = [t \in Thread |-> <<>>]
      /\ outbox = [p \in Player |-> <<>>] /\ inbox = [p \in Player |-> <<>>]
      /\ link = [p \in Player |-> NoLink]
  BY DEF Init
<1>2. ToSet(<<>>) = {} /\ DOMAIN <<>> = {}
  BY DEF ToSet
<1>3. \A x \in Player : /\ Carried(x) = {} /\ Recording(x) = {}
                        /\ outbox[x] = <<>> /\ inbox[x] = <<>> /\ link[x] = NoLink
  BY <1>1, Threads, CarryIs DEF Carried, Recording
<1>4. ASSUME NEW o \in Ask PROVE SingleAt(o) /\ ~ Asked(o)
  <2>1. o.from \in Player /\ o.to \in Player
    BY AskIs
  <2>2. NoLink # Phase("incoming", o.from, o.nonce)
    BY DEF NoLink, Phase
  <2>3. ~ Asked(o)
    BY <1>2, <1>3, <2>1, <2>2 DEF Asked, Waiting, Going
  <2> QED
    BY <1>2, <1>3, <2>1, <2>2, <2>3 DEF SingleAt
<1>5. \A p, q \in Player, n \in 0..MaxTurns : ~ Bound(p, q, n)
  BY <1>2, <1>3, NoLinkIs DEF Bound, Flies, Tied
<1>6. ZeroUnlinks
  BY <1>2, <1>3 DEF ZeroUnlinks
<1> QED
  BY <1>4, <1>5, <1>6 DEF Attempts, Single, Untold, Dated

\* Every step keeps the attempts.
LEMMA AttemptsKept == Types /\ Numbers /\ Attempts /\ [Next]_vars => Attempts'
<1> SUFFICES ASSUME Types, Numbers, Attempts, [Next]_vars PROVE Attempts'
  OBVIOUS
<1>1. CASE UNCHANGED vars
  BY <1>1 DEF vars, rosterVars, frontVars, Attempts, Single, SingleAt, Untold, Dated, ZeroUnlinks,
              Asked, Waiting, Going, Told, Bound, Flies, Recording, Carried
<1>2. ASSUME NEW p \in Player, Route(p) PROVE Attempts'
  BY <1>2, RouteAttempts
<1>3. ASSUME NEW p \in Player, Frontend(p) PROVE Attempts'
  <2>1. FrontMoves(p) /\ turn' \in turn..MaxTurns /\ EndMoves(p)
    BY <1>3, FrontSteps, EndSteps DEF FrontStep
  <2> QED
    BY <2>1, FrontAttempts
<1>4. ASSUME NEW t \in Thread, Work(t) PROVE Attempts'
  BY <1>4, DeliveringDoes, DeliversAttempts, AnnounceTypes, CloseAttempts DEF Work
<1>5. ASSUME NEW c \in Client, Close(c) PROVE Attempts'
  BY <1>5, CloseTypes, CloseAttempts
<1> QED
  BY <1>1, <1>2, <1>3, <1>4, <1>5 DEF Next

-----------------------------------------------------------------------------
(* Closers.                                                                *)

\* A job that is none of delivering is the only one when it is next.
LEMMA LastAlone ==
    ASSUME NEW S, NEW B \in Seq(S), B # <<>>, DeliversFirst(B), Head(B).do # "deliver"
    PROVE  Tail(B) = <<>> /\ ToSet(B) = {Head(B)}
<1>1. 1 \in DOMAIN B /\ B[1] = Head(B)
  BY TailPlaces
<1>2. Len(B) = 1
  BY <1>1 DEF DeliversFirst
<1>3. Tail(B) = <<>>
  <2>1. Tail(B) \in Seq(S) /\ Len(Tail(B)) = 0
    BY <1>2
  <2> QED
    BY <2>1, EmptySeq
<1>4. ToSet(B) = {Head(B)} \union ToSet(Tail(B))
  BY TailElements
<1>5. ToSet(<<>>) = {}
  BY DEF ToSet
<1> QED
  BY <1>3, <1>4, <1>5

\* What is left of a line that delivers first delivers first.
LEMMA TailFirst ==
    ASSUME NEW S, NEW B \in Seq(S), B # <<>>, DeliversFirst(B)
    PROVE  DeliversFirst(Tail(B))
<1>1. \A j \in DOMAIN Tail(B) : j \in Nat /\ j + 1 \in DOMAIN B /\ Tail(B)[j] = B[j + 1]
  BY TailPlaces
<1> DEFINE t == Tail(B)
<1>2. Len(B) \in Nat /\ Len(t) = Len(B) - 1
  OBVIOUS
<1>3. \A j \in DOMAIN t : j \in Nat /\ j + 1 \in DOMAIN B /\ t[j] = B[j + 1]
  BY <1>1
<1> HIDE DEF t
<1>4. ASSUME NEW j \in DOMAIN t, t[j].do # "deliver" PROVE j = Len(t)
  <2>1. j + 1 = Len(B) /\ j \in Nat
    BY <1>3, <1>4 DEF DeliversFirst
  <2> QED
    BY <1>2, <2>1
<1>5. DeliversFirst(t)
  BY <1>4 DEF DeliversFirst
<1> QED
  BY <1>5 DEF t

\* One job, whatever it is, or deliveries and then one job.
LEMMA OneFirst ==
    ASSUME NEW j
    PROVE  /\ DeliversFirst(<<>>) /\ ToSet(<<>>) = {}
           /\ DeliversFirst(<<j>>) /\ ToSet(<<j>>) = {j}
           /\ \A S : \A B \in Seq(S) : (\A d \in S : d.do = "deliver") =>
                DeliversFirst(B \o <<j>>) /\ ToSet(B) \union {j} \subseteq ToSet(B \o <<j>>)
<1>1. DeliversFirst(<<>>) /\ ToSet(<<>>) = {}
  BY DEF DeliversFirst, ToSet
<1>2. DOMAIN <<j>> = {1} /\ Len(<<j>>) = 1 /\ <<j>>[1] = j
  OBVIOUS
<1>3. DeliversFirst(<<j>>) /\ ToSet(<<j>>) = {j}
  BY <1>2 DEF DeliversFirst, ToSet
<1>4. ASSUME NEW S, NEW B \in Seq(S), \A d \in S : d.do = "deliver"
      PROVE  DeliversFirst(B \o <<j>>) /\ ToSet(B) \union {j} \subseteq ToSet(B \o <<j>>)
  <2> DEFINE w == B \o <<j>>
  <2>1. Len(B) \in Nat /\ Len(w) = Len(B) + 1 /\ DOMAIN w = 1..(Len(B) + 1) /\ DOMAIN B = 1..Len(B)
    BY <1>2
  <2>2. w[Len(B) + 1] = j /\ \A i \in DOMAIN B : w[i] = B[i] /\ B[i] \in S
    OBVIOUS
  <2> HIDE DEF w
  <2>3. \A i \in DOMAIN w : i \in DOMAIN B \/ i = Len(w)
    BY <2>1
  <2>4. DeliversFirst(w)
    BY <1>4, <2>2, <2>3 DEF DeliversFirst
  <2>5. Len(B) + 1 \in DOMAIN w /\ \A i \in DOMAIN B : i \in DOMAIN w
    BY <2>1
  <2>6. ToSet(B) \union {j} \subseteq ToSet(w)
    BY <2>2, <2>5 DEF ToSet
  <2> QED
    BY <2>4, <2>6 DEF w
<1> QED
  BY <1>1, <1>3, <1>4

\* A closer's line is a line of its duties; that of a player not closed is empty.
LEMMA CloserLine ==
    ASSUME Types, NEW c \in Player
    PROVE  /\ work[Closer(c)] \in Seq(Duty(c)) /\ Closer(c) \in Thread
           /\ c \notin closing => work[Closer(c)] = <<>>
BY Threads DEF Types, Wired, CloseTyped

\* An announcement is the work of one closer, and a farewell of its own player.
LEMMA AnnounceDoes ==
    ASSUME Types, NEW t \in Thread,
           Announced(t) \/ \E c \in Client : Announcing(t, c)
    PROVE  \E c \in Client \cap closing : t = Closer(c) /\ AnnounceStep(c)
<1>1. work[t] # <<>> /\ Head(work[t]).do = "announce"
  BY DEF Announced, Announcing, DoesNext
<1> DEFINE j == Head(work[t])
           rest == Tail(work[t])
<1>2. PICK d \in Player \cap closing : t = Closer(d) /\ j \in Duty(d)
  <2>1. ASSUME NEW p \in Player, j \in Task(p) PROVE j.do # "announce"
    BY <2>1, JobIs DEF Task
  <2> QED
    BY <1>1, <2>1, ThreadJobs
<1>3. d \in Client \cap closing /\ j.message = Left(d) /\ j.do = "announce"
  BY <1>1, <1>2, LeftDuty DEF Types, Typed
<1>4. DOMAIN work = Thread /\ DOMAIN inbox = Player
  BY DEF Types, Wired
<1>5. CASE Announced(t)
  <2>1. work' = [work EXCEPT ![t] = rest] /\ UNCHANGED <<rosterVars, outbox, inbox, frontVars>>
    BY <1>5 DEF Announced, Done
  <2> HIDE DEF rest
  <2>2. work'[t] = rest /\ \A u \in Thread : u # t => work'[u] = work[u]
    BY <1>4, <2>1
  <2>3. AnnounceStep(d)
    BY <1>1, <1>2, <2>1, <2>2 DEF AnnounceStep, CloserTurns, rest
  <2> QED
    BY <1>2, <1>3, <2>3
<1>6. ASSUME NEW c \in Client, Announcing(t, c)
      PROVE  \E e \in Client \cap closing : t = Closer(e) /\ AnnounceStep(e)
  <2> DEFINE jobs == <<Job("announce", Left(d), j.todo \ {c})>> \o rest
  <2>1. /\ inbox' = [inbox EXCEPT ![c] = IF c \in conns \ closing THEN Append(@, Left(d)) ELSE @]
        /\ UNCHANGED <<rosterVars, outbox, frontVars>>
        /\ work' = [work EXCEPT ![t] = jobs]
    BY <1>3, <1>6 DEF Announcing
  <2> HIDE DEF jobs
  <2>2. work'[t] = jobs /\ \A u \in Thread : u # t => work'[u] = work[u]
    BY <1>4, <2>1
  <2>3. \E todo : jobs = <<Job("announce", Left(d), todo)>> \o Tail(work[t])
    BY DEF jobs
  <2>4. \A x \in Player : inbox'[x] = inbox[x] \/ inbox'[x] = Append(inbox[x], Left(d))
    BY <1>4, <2>1
  <2>5. AnnounceStep(d)
    BY <1>1, <1>2, <2>1, <2>2, <2>3, <2>4 DEF AnnounceStep, CloserTurns
  <2> QED
    BY <1>2, <1>3, <2>5
<1> QED
  BY <1>5, <1>6

\* A close begins, or its closer removes the player or takes it off the record.
LEMMA CloseDoes ==
    ASSUME Types, NEW c \in Client, Close(c)
    PROVE  BeginsClose(c) \/ Removes(c) \/ Departs(c)
<1>1. /\ c \in Player /\ Host \notin Client
      /\ DOMAIN outbox = Player /\ DOMAIN inbox = Player /\ work[Closer(c)] \in Seq(Duty(c))
  BY HostAssumption DEF Types, Wired, CloseTyped, Player
<1>2. work[Closer(c)] # <<>> /\ Head(work[Closer(c)]).do \in {"remove", "depart"} =>
        Head(work[Closer(c)]).message = Left(c)
  BY <1>1, TailElements, LeftDuty
<1>3. \A jobs : work' = [work EXCEPT ![Closer(c)] = jobs] => CloserTurns(c, jobs)
  BY <1>1, CloserGets DEF CloserTurns
<1>4. CASE BeginClose(c)
  <2>1. /\ c \notin closing /\ closing' = closing \union {c}
        /\ inbox' = [inbox EXCEPT ![c] = <<>>] /\ outbox' = [outbox EXCEPT ![c] = <<>>]
        /\ work' = [work EXCEPT ![Closer(c)] = <<Job("remove", Left(c), {})>>]
        /\ UNCHANGED <<conns, links, requests, endedBy, link, peers>>
    BY <1>4 DEF BeginClose, Left
  <2> QED
    BY <1>1, <1>3, <2>1 DEF BeginsClose
<1>5. CASE Removing(c)
  <2>1. work[Closer(c)] # <<>> /\ Head(work[Closer(c)]).do = "remove"
    BY <1>5 DEF Removing, DoesNext
  <2>2. /\ inbox' = [inbox EXCEPT ![Host] = Append(@, Left(c))]
        /\ work' = [work EXCEPT ![Closer(c)] = <<Job("depart", Left(c), {})>>]
        /\ UNCHANGED <<closing, links, requests, endedBy, outbox, frontVars>>
    BY <1>2, <1>5, <2>1 DEF Removing
  <2>3. \A x \in Client : inbox'[x] = inbox[x]
    BY <1>1, <2>2 DEF Player
  <2> QED
    BY <1>3, <2>1, <2>2, <2>3 DEF Removes, frontVars
<1>6. CASE Departing(c)
  <2>1. work[Closer(c)] # <<>> /\ Head(work[Closer(c)]).do = "depart"
    BY <1>6 DEF Departing, DoesNext
  <2>2. /\ requests' = {r \in requests : c \notin {r[1], r[2]}}
        /\ links' = {l \in links : c \notin {l[1], l[2]}}
        /\ work' = [work EXCEPT ![Closer(c)] = Unplugs(c) \o <<Announce(Left(c))>>]
        /\ UNCHANGED <<conns, closing, endedBy, outbox, inbox, frontVars>>
    BY <1>2, <1>6, <2>1 DEF Departing
  <2> QED
    BY <1>3, <2>1, <2>2 DEF Departs, frontVars
<1> QED
  BY <1>4, <1>5, <1>6 DEF Close

\* A finite set as a sequence has every element of the set.
LEMMA SequenceOfAll ==
    ASSUME NEW S, IsFiniteSet(S)
    PROVE  S \subseteq ToSet(SetToSeq(S))
<1>1. /\ Cardinality(S) \in Nat /\ ExistsBijection(1..Cardinality(S), S)
      /\ IsFiniteSet(1..Cardinality(S)) /\ Cardinality(1..Cardinality(S)) = Cardinality(S)
  BY FS_CardinalityType, FS_Interval
<1>2. \E g \in [1..Cardinality(S) -> S] : IsInjective(g)
  BY <1>1 DEF ExistsBijection, Bijection, Injection
<1>3. SetToSeq(S) \in [1..Cardinality(S) -> S] /\ IsInjective(SetToSeq(S))
  BY <1>2 DEF SetToSeq
<1>4. SetToSeq(S) \in Injection(1..Cardinality(S), S)
  BY <1>3 DEF Injection
<1>5. SetToSeq(S) \in Surjection(1..Cardinality(S), S)
  BY <1>1, <1>4, FS_Injection
<1> QED
  BY <1>3, <1>5 DEF Surjection, ToSet

\* Every partner of a departing player is told, and told before the announcement.
LEMMA UnplugsAll ==
    ASSUME Types, NEW c \in Player
    PROVE  /\ DeliversFirst(Unplugs(c) \o <<Announce(Left(c))>>)
           /\ \A j \in ToSet(Unplugs(c) \o <<Announce(Left(c))>>) : j.do \in {"deliver", "announce"}
           /\ \A p \in Player : AreLinked(c, p) =>
                Deliver(Say("unlink", c, p, 0)) \in ToSet(Unplugs(c) \o <<Announce(Left(c))>>)
<1> DEFINE S == {Deliver(Say("unlink", c, p, 0)) : p \in PartnersOf(c)}
           last == Announce(Left(c))
<1>1. IsFiniteSet(PartnersOf(c))
  BY ClientAssumption, FS_AddElement, FS_Subset DEF Player, PartnersOf
<1>2. IsFiniteSet(S)
  <2> DEFINE f == [p \in PartnersOf(c) |-> Deliver(Say("unlink", c, p, 0))]
  <2>1. f \in Surjection(PartnersOf(c), S)
    BY DEF Surjection
  <2> QED
    BY <1>1, <2>1, FS_Surjection
<1>3. SetToSeq(S) \in Seq(S) /\ S \subseteq ToSet(SetToSeq(S))
  BY <1>2, SequenceOfSet, SequenceOfAll
<1>4. (\A d \in S : d.do = "deliver") /\ last.do = "announce"
  BY JobIs DEF Announce
<1>5. \A p \in Player : AreLinked(c, p) => Deliver(Say("unlink", c, p, 0)) \in S
  BY DEF PartnersOf
<1>6. Unplugs(c) = SetToSeq(S)
  BY DEF Unplugs
<1> HIDE DEF S, last
<1>7. /\ DeliversFirst(SetToSeq(S) \o <<last>>)
      /\ ToSet(SetToSeq(S)) \union {last} \subseteq ToSet(SetToSeq(S) \o <<last>>)
  BY <1>3, <1>4, OneFirst
<1>8. SetToSeq(S) \o <<last>> \in Seq(S \union {last})
  <2>1. SetToSeq(S) \in Seq(S \union {last}) /\ <<last>> \in Seq(S \union {last})
    BY <1>3, SeqMonotonic
  <2> QED
    BY <2>1
<1>9. \A j \in ToSet(SetToSeq(S) \o <<last>>) : j \in S \union {last}
  BY <1>8 DEF ToSet
<1> QED
  BY <1>3, <1>4, <1>5, <1>6, <1>7, <1>9 DEF last

\* A closer that does nothing, and whose farewell nobody gets, keeps its word.
LEMMA PartedStill ==
    ASSUME NEW c, Parted(c), work'[Closer(c)] = work[Closer(c)], closing \subseteq closing',
           \A p \in Client \ closing' : Left(c) \in ToSet(inbox'[p]) => Left(c) \in ToSet(inbox[p])
    PROVE  Parted(c)'
BY DEF Parted, OnlyAnnounces

\* Frontends and readers leave the closers alone, and what they deliver is no farewell.
LEMMA StillPartings ==
    ASSUME Partings, closing' = closing,
           \A c \in Client : work'[Closer(c)] = work[Closer(c)],
           \A p \in Client \ closing : \A m \in ToSet(inbox'[p]) :
                m \in ToSet(inbox[p]) \/ m.kind # "left"
    PROVE  Partings'
<1>1. \A c : Left(c).kind = "left"
  BY DEF Left, Say
<1>2. ASSUME NEW c \in Client PROVE Parted(c)'
  BY <1>1, PartedStill DEF Partings
<1> QED
  BY <1>2 DEF Partings

\* A delivery shortens a closer's line, and what it brings is no farewell.
LEMMA DeliversPartings ==
    ASSUME Types, Partings, NEW t \in Thread, Delivering(t)
    PROVE  Partings'
<1> DEFINE m == Head(work[t]).message
<1>1. /\ Delivers(t, m) /\ work[t] # <<>> /\ Head(work[t]).do = "deliver"
      /\ work' = [work EXCEPT ![t] = Tail(@)]
  BY DeliveringDoes DEF Delivering, DoesNext, Done
<1> HIDE DEF m
<1>2. /\ closing' = closing
      /\ \A y \in Player : y # m.to => inbox'[y] = inbox[y]
      /\ \/ inbox'[m.to] = inbox[m.to]
         \/ ToSet(inbox'[m.to]) = ToSet(inbox[m.to]) \union {m}
      /\ m \in News(m.to)
      /\ \A u \in Thread : u # t => work'[u] = work[u]
  BY <1>1 DEF Delivers, rosterVars
<1>3. m.kind # "left"
  BY <1>2, LetterIs DEF News, UrgentKinds
<1>4. \A p \in Client \ closing : \A o \in ToSet(inbox'[p]) : o \in ToSet(inbox[p]) \/ o.kind # "left"
  BY <1>2, <1>3 DEF Player
<1>5. ASSUME NEW c \in Client PROVE Parted(c)'
  <2>1. Parted(c) /\ c \in Player
    BY DEF Partings, Player
  <2>2. work[Closer(c)] \in Seq(Duty(c)) /\ Closer(c) \in Thread
    BY <2>1, CloserLine
  <2>3. \A p \in Client \ closing' : Left(c) \in ToSet(inbox'[p]) => Left(c) \in ToSet(inbox[p])
    <3>1. Left(c).kind = "left"
      BY DEF Left, Say
    <3> QED
      BY <1>2, <1>4, <3>1
  <2>4. CASE t # Closer(c)
    BY <1>2, <2>1, <2>2, <2>3, <2>4, PartedStill
  <2>5. CASE t = Closer(c)
    <3>1. work'[Closer(c)] = Tail(work[Closer(c)]) /\ work[Closer(c)] # <<>>
      BY <1>1, <2>2, <2>5 DEF Types, Wired
    <3>2. DeliversFirst(work'[Closer(c)])
      BY <2>1, <2>2, <3>1, TailFirst DEF Parted
    <3>3. ToSet(work'[Closer(c)]) \subseteq ToSet(work[Closer(c)])
      BY <2>2, <3>1, TailElements
    <3> QED
      BY <1>2, <2>1, <2>3, <3>2, <3>3 DEF Parted, OnlyAnnounces
  <2> QED
    BY <2>4, <2>5
<1> QED
  BY <1>5 DEF Partings

\* A closer that announces has nothing left to deliver, so a farewell goes out last.
LEMMA AnnouncePartings ==
    ASSUME Types, Partings, NEW c \in Client \cap closing, AnnounceStep(c)
    PROVE  Partings'
<1>1. /\ work[Closer(c)] # <<>> /\ Head(work[Closer(c)]).do = "announce" /\ closing' = closing
      /\ \A u \in Thread : u # Closer(c) => work'[u] = work[u]
  BY DEF AnnounceStep, CloserTurns, rosterVars
<1>2. \A x \in Player : inbox'[x] = inbox[x] \/ inbox'[x] = Append(inbox[x], Left(c))
  BY DEF AnnounceStep
<1>3. \A x \in Player : \A m \in ToSet(inbox'[x]) : m \in ToSet(inbox[x]) \/ m = Left(c)
  <2>1. \A x \in Player : inbox[x] \in Seq(News(x) \union {Left(d) : d \in closing})
    BY DEF Types, Wired, InTyped
  <2>2. ASSUME NEW x \in Player
        PROVE  ToSet(Append(inbox[x], Left(c))) = ToSet(inbox[x]) \union {Left(c)}
    <3> DEFINE S == News(x) \union {Left(d) : d \in closing}
    <3>1. inbox[x] \in Seq(S) /\ Left(c) \in S
      BY <2>1
    <3> HIDE DEF S
    <3> QED
      BY <3>1, AppendPlaces
  <2> QED
    BY <1>2, <2>2
<1>4. ASSUME NEW e \in Client, e # c PROVE Parted(e)'
  <2>1. Closer(e) \in Thread /\ Closer(e) # Closer(c) /\ Left(e) # Left(c)
    BY <1>4, Threads DEF Player, Left, Say
  <2>2. work'[Closer(e)] = work[Closer(e)]
    BY <1>1, <2>1
  <2>3. \A p \in Client \ closing' : Left(e) \in ToSet(inbox'[p]) => Left(e) \in ToSet(inbox[p])
    BY <1>3, <2>1 DEF Player
  <2> QED
    BY <1>1, <2>2, <2>3, PartedStill DEF Partings
<1>5. Parted(c)'
  <2>1. work[Closer(c)] \in Seq(Duty(c)) /\ DeliversFirst(work[Closer(c)])
    BY CloserLine DEF Partings, Parted, Player
  <2>2. Tail(work[Closer(c)]) = <<>>
    BY <1>1, <2>1, LastAlone
  <2>3. \A j : <<j>> \o <<>> = <<j>>
    OBVIOUS
  <2>4. work'[Closer(c)] = <<>> \/ \E todo : work'[Closer(c)] = <<Job("announce", Left(c), todo)>>
    BY <2>2, <2>3 DEF AnnounceStep, CloserTurns
  <2>5. \A todo : Job("announce", Left(c), todo).do = "announce"
    BY JobIs
  <2>6. DeliversFirst(work'[Closer(c)]) /\ \A j \in ToSet(work'[Closer(c)]) : j.do = "announce"
    <3>1. CASE work'[Closer(c)] = <<>>
      BY <3>1, OneFirst
    <3>2. ASSUME NEW todo, work'[Closer(c)] = <<Job("announce", Left(c), todo)>>
          PROVE  DeliversFirst(work'[Closer(c)]) /\ \A j \in ToSet(work'[Closer(c)]) : j.do = "announce"
      BY <2>5, <3>2, OneFirst
    <3> QED
      BY <2>4, <3>1, <3>2
  <2> QED
    BY <2>6 DEF Parted, OnlyAnnounces
<1> QED
  BY <1>4, <1>5 DEF Partings

\* A closer that departs owes its Unlinks first and its farewell behind them.
LEMMA ClosePartings ==
    ASSUME Types, Partings, NEW c \in Client, BeginsClose(c) \/ Removes(c) \/ Departs(c)
    PROVE  Partings'
<1>1. /\ \A u \in Thread : u # Closer(c) => work'[u] = work[u]
      /\ closing \subseteq closing'
  BY DEF BeginsClose, Removes, Departs, CloserTurns
<1>2. \A p \in Client \ closing' : inbox'[p] = inbox[p]
  BY DEF BeginsClose, Removes, Departs, Player
<1>3. ASSUME NEW e \in Client, e # c PROVE Parted(e)'
  <2>1. Closer(e) \in Thread /\ Closer(e) # Closer(c)
    BY <1>3, Threads DEF Player
  <2> QED
    BY <1>1, <1>2, <2>1, PartedStill DEF Partings
<1>4. Parted(c)'
  <2>1. /\ work[Closer(c)] \in Seq(Duty(c)) /\ DeliversFirst(work[Closer(c)])
        /\ c \in Player
    BY CloserLine DEF Partings, Parted, Player
  <2>2. DeliversFirst(work'[Closer(c)])
    BY <2>1, OneFirst, UnplugsAll DEF BeginsClose, Removes, Departs, CloserTurns
  <2>3. ASSUME NEW p \in Client \ closing', Left(c) \in ToSet(inbox'[p]) PROVE FALSE
    <3>1. Left(c) \in ToSet(inbox[p]) /\ p \in Client \ closing
      BY <1>1, <1>2, <2>3
    <3>2. OnlyAnnounces(c)
      BY <3>1 DEF Partings, Parted
    <3>3. CASE BeginsClose(c)
      <4>1. inbox[p] \in Seq(News(p) \union {Left(d) : d \in closing})
        BY DEF Types, Wired, InTyped, Player
      <4>2. Left(c) \in News(p) \union {Left(d) : d \in closing}
        BY <3>1, <4>1 DEF ToSet
      <4>3. Left(c).kind = "left" /\ \A d : Left(c) = Left(d) => c = d
        BY DEF Left, Say
      <4>4. Left(c) \notin News(p)
        BY <4>3, LetterIs DEF News, UrgentKinds
      <4> QED
        BY <3>3, <4>2, <4>3, <4>4 DEF BeginsClose
    <3>4. CASE Removes(c) \/ Departs(c)
      <4>1. work[Closer(c)] # <<>> /\ Head(work[Closer(c)]).do # "announce"
        BY <3>4 DEF Removes, Departs
      <4>2. Head(work[Closer(c)]) \in ToSet(work[Closer(c)])
        BY <2>1, <4>1, TailElements
      <4> QED
        BY <3>2, <4>1, <4>2 DEF OnlyAnnounces
    <3> QED
      BY <3>3, <3>4
  <2> QED
    BY <2>2, <2>3 DEF Parted
<1> QED
  BY <1>3, <1>4 DEF Partings

\* A player is gone once it departs, and by nothing else.
LEMMA GoneBy ==
    ASSUME Types, Partings, NEW c \in Client, Gone(c)'
    PROVE  /\ closing' = closing /\ work'[Closer(c)] = work[Closer(c)] => Gone(c)
           /\ \A t \in Thread : Delivering(t) => Gone(c)
           /\ \A d \in Client \cap closing : AnnounceStep(d) => Gone(c)
           /\ \A d \in Client : BeginsClose(d) \/ Removes(d) => Gone(c)
           /\ \A d \in Client : Departs(d) /\ d # c => Gone(c)
<1> DEFINE B == work[Closer(c)]
<1>1. /\ B \in Seq(Duty(c)) /\ Closer(c) \in Thread /\ c \in Player
      /\ c \notin closing => B = <<>>
  BY CloserLine DEF Player
<1>2. closing' = closing /\ work'[Closer(c)] = B => Gone(c)
  BY DEF Gone
<1>3. B # <<>> => ToSet(B) = {Head(B)} \union ToSet(Tail(B))
  BY <1>1, TailElements
<1>4. ASSUME closing' = closing, B # <<>>, Head(B).do \in {"deliver", "announce"},
             ToSet(Tail(B)) \subseteq ToSet(work'[Closer(c)])
      PROVE  Gone(c)
  BY <1>3, <1>4 DEF Gone
<1>5. ASSUME NEW t \in Thread, Delivering(t) PROVE Gone(c)
  <2>1. /\ work[t] # <<>> /\ Head(work[t]).do = "deliver" /\ work' = [work EXCEPT ![t] = Tail(@)]
        /\ closing' = closing
    BY <1>5 DEF Delivering, DoesNext, Done, rosterVars
  <2>2. work'[Closer(c)] = IF t = Closer(c) THEN Tail(B) ELSE B
    BY <1>1, <2>1 DEF Types, Wired
  <2> QED
    BY <1>2, <1>4, <2>1, <2>2
<1>6. ASSUME NEW d \in Client, d # c, \A u \in Thread : u # Closer(d) => work'[u] = work[u]
      PROVE  work'[Closer(c)] = B
  <2>1. Closer(c) # Closer(d)
    BY <1>6, Threads
  <2> QED
    BY <1>1, <1>6, <2>1
<1>7. ASSUME NEW d \in Client \cap closing, AnnounceStep(d) PROVE Gone(c)
  <2>1. closing' = closing /\ \A u \in Thread : u # Closer(d) => work'[u] = work[u]
    BY <1>7 DEF AnnounceStep, CloserTurns, rosterVars
  <2>2. CASE d = c
    <3>1. B # <<>> /\ Head(B).do = "announce"
      BY <1>7, <2>2 DEF AnnounceStep
    <3>2. Tail(B) = <<>>
      BY <1>1, <3>1, LastAlone DEF Partings, Parted
    <3>3. ToSet(Tail(B)) = {}
      BY <3>2, OneFirst
    <3> QED
      BY <1>4, <2>1, <3>1, <3>3
  <2> QED
    BY <1>2, <1>6, <2>1, <2>2
<1>8. ASSUME NEW d \in Client, BeginsClose(d) \/ Removes(d) \/ Departs(d), d # c PROVE Gone(c)
  <2>1. \A u \in Thread : u # Closer(d) => work'[u] = work[u]
    BY <1>8 DEF BeginsClose, Removes, Departs, CloserTurns
  <2>2. c \in closing' => c \in closing
    BY <1>8 DEF BeginsClose, Removes, Departs
  <2>3. work'[Closer(c)] = B
    BY <1>6, <1>8, <2>1
  <2> QED
    BY <2>2, <2>3 DEF Gone
<1>9. ~ BeginsClose(c) /\ ~ Removes(c)
  <2>1. \A do : Job(do, Left(c), {}).do = do /\ ToSet(<<Job(do, Left(c), {})>>) = {Job(do, Left(c), {})}
    BY JobIs, OneFirst
  <2> QED
    BY <2>1 DEF BeginsClose, Removes, CloserTurns, Gone
<1> QED
  BY <1>2, <1>5, <1>7, <1>8, <1>9

-----------------------------------------------------------------------------
(* Cables.                                                                 *)

\* A frontend is plugged by a start it was sent, and no start is there before its link.
LEMMA EndPlugs ==
    ASSUME Types, Attempts, NEW p \in Player, FrontMoves(p), EndMoves(p),
           NEW q \in Player, Plugs(p, q)'
    PROVE  Plugs(p, q)
<1>1. /\ Carried(q)' = Carried(q)
      /\ ToSet(inbox'[p]) \subseteq ToSet(inbox[p])
      /\ inbox[p] # <<>> => Head(inbox[p]) \in ToSet(inbox[p])
  BY EndBoxes
<1>2. \A x \in Phases : \A a, k :
        /\ Phase(x, a, k).phase = x /\ Phase(x, a, k).peer = a
        /\ Phase(x, a, k).nonce = k
  BY PhaseIs
<1>3. \A n : (Say("start", q, p, n) \in Carried(q)' \/ Say("start", q, p, n) \in ToSet(inbox'[p]))
                => Flies(q, p, n)
  BY <1>1 DEF Flies
<1>4. link'[p].peer = q
  BY DEF Plugs
<1>5. CASE Ends(p)
  <2>1. link'[p] # NoLink
    BY <1>4, NoLinkIs
  <2> QED
    BY <1>1, <1>5, <2>1 DEF Ends, Plugs
<1>6. ASSUME NEW a \in Player \ {p}, Asks(p, a) PROVE FALSE
  <2>1. link'[p].phase = "requesting" /\ link'[p].nonce = turn + 1 /\ turn + 1 \in 0..MaxTurns
    BY <1>2, <1>6, TurnIn DEF Asks, Phases
  <2>2. Flies(q, p, turn + 1)
    BY <1>3, <2>1 DEF Plugs
  <2>3. turn + 1 <= turn
    BY <2>1, <2>2 DEF Attempts, Dated, Bound
  <2> QED
    BY <2>3, TurnIn
<1>7. ASSUME NEW a \in Player \ {p}, NEW n \in 0..MaxTurns, Shows(p, a, n) PROVE FALSE
  <2> DEFINE m == Say("request", q, p, n)
  <2>1. link'[p].phase = "incoming" /\ link'[p].nonce = n /\ a = q
    BY <1>2, <1>4, <1>7 DEF Shows, Phases
  <2>2. m \in Ask /\ m.from = q /\ m.to = p /\ m.nonce = n
    BY <2>1, MailSaid DEF Ask, UrgentKinds
  <2>3. m \in ToSet(inbox[p])
    BY <1>1, <1>7, <2>1 DEF Shows, HearsOf
  <2> HIDE DEF m
  <2>4. ~ Bound(q, p, n)
    BY <2>2, <2>3 DEF Attempts, Untold, Asked, Going, Told
  <2> QED
    BY <1>3, <2>1, <2>4 DEF Plugs, Bound
<1>8. ASSUME NEW x \in Phases, NEW y \in Phases \ {"plugged"}, NEW a, NEW n, Moves(p, x, y, a, n)
      PROVE  Plugs(p, q)
  <2>1. /\ link[p].peer = link'[p].peer /\ link[p].nonce = link'[p].nonce
        /\ link'[p].phase # "plugged"
    BY <1>2, <1>8 DEF Moves
  <2> QED
    BY <1>1, <2>1 DEF Plugs
<1>9. ASSUME NEW a \in Player \ {p}, NEW n \in 0..MaxTurns, PlugsIn(p, a, n) PROVE Plugs(p, q)
  <2>1. a = q /\ link[p].peer = q /\ link[p].nonce = n
    BY <1>2, <1>4, <1>9 DEF PlugsIn, Moves, Phases
  <2> QED
    BY <1>1, <1>9, <2>1 DEF PlugsIn, HearsOf, Plugs
<1>10. ASSUME NEW a \in Player \ {p}, NEW n \in 0..MaxTurns,
              Accepts(p, a, n) \/ Agrees(p, a, n) \/ Stops(p, a, n)
       PROVE  Plugs(p, q)
  BY <1>8, <1>10 DEF Accepts, Agrees, Stops, Phases
<1> QED
  BY <1>5, <1>6, <1>7, <1>9, <1>10 DEF EndMoves

\* A frontend keeps a plug it has, and only drops the partner's Unlink by unplugging.
LEMMA FrontCables ==
    ASSUME Types, Numbers, Attempts, Cables, NEW p \in Player, FrontMoves(p), EndMoves(p)
    PROVE  Cables'
<1> SUFFICES ASSUME NEW a \in Client, NEW b \in Client PROVE Covered(a, b)' /\ Ghost(a, b)'
  BY DEF Cables
<1>1. a \in Player /\ b \in Player /\ Covered(a, b) /\ Ghost(a, b)
  BY DEF Cables, Player
<1>2. /\ closing' = closing /\ links' = links /\ requests' = requests /\ endedBy' = endedBy
      /\ work' = work
      /\ \A x \in Player : x # p =>
            outbox'[x] = outbox[x] /\ inbox'[x] = inbox[x] /\ link'[x] = link[x]
  BY DEF FrontMoves, rosterVars
<1>3. /\ \A x \in Player : Carried(x)' = Carried(x)
      /\ inbox'[p] = inbox[p] \/ (inbox[p] # <<>> /\ inbox'[p] = Tail(inbox[p]))
  BY EndBoxes
<1>4. /\ Gone(b)' = Gone(b) /\ AreLinked(a, b)' = AreLinked(a, b)
      /\ work'[Closer(b)] = work[Closer(b)]
  BY <1>2 DEF Gone, AreLinked
<1>5. CASE a # p
  <2>1. outbox'[a] = outbox[a] /\ inbox'[a] = inbox[a] /\ link'[a] = link[a]
    BY <1>1, <1>2, <1>5
  <2>2. Plugs(a, b)' = Plugs(a, b)
    BY <1>1, <1>3, <2>1 DEF Plugs
  <2>3. Backed(a, b) => Backed(a, b)'
    BY <1>1, <1>2, <1>3, <1>4, <2>1 DEF Backed
  <2> QED
    BY <1>1, <1>2, <1>4, <2>1, <2>2, <2>3 DEF Covered, Ghost
<1>6. CASE a = p
  <2>1. Plugs(p, b)' => Plugs(p, b)
    BY <1>1, EndPlugs
  <2>2. Plugs(p, b)' /\ Cut(b, p) \in ToSet(inbox[p]) => Cut(b, p) \in ToSet(inbox'[p])
    <3>1. CASE inbox'[p] = inbox[p]
      BY <3>1
    <3>2. CASE inbox[p] # <<>> /\ inbox'[p] = Tail(inbox[p]) /\ Head(inbox[p]) = Cut(b, p)
      <4>1. Head(inbox[p]).kind = "unlink" /\ Head(inbox[p]).from = b
        BY <3>2 DEF Cut, Say
      <4>2. Ends(p)
        <5>1. \A k, x, n : Head(inbox[p]) = Say(k, x, p, n) => k = "unlink"
          BY <4>1 DEF Say
        <5>2. inbox'[p] # inbox[p]
          BY <3>2 DEF Types, Wired, InTyped
        <5> QED
          BY <5>1, <5>2 DEF EndMoves, Asks, Shows, Accepts, Agrees, Stops, PlugsIn, HearsOf, Speaks
      <4>3. inbox'[p] # inbox[p]
        BY <3>2 DEF Types, Wired, InTyped
      <4> QED
        BY <4>1, <4>2, <4>3 DEF Ends, Plugs
    <3>3. CASE inbox[p] # <<>> /\ inbox'[p] = Tail(inbox[p]) /\ Head(inbox[p]) # Cut(b, p)
      <4>1. ToSet(inbox[p]) = {Head(inbox[p])} \union ToSet(Tail(inbox[p]))
        BY <3>3, TailElements DEF Types, Wired, InTyped
      <4> QED
        BY <3>3, <4>1
    <3> QED
      BY <1>3, <3>1, <3>2, <3>3
  <2>3. Covered(p, b)'
    BY <1>1, <1>2, <1>3, <1>4, <1>6, <2>1, <2>2 DEF Covered, Backed
  <2>4. ASSUME NEW n \in 0..MaxTurns, Say("accept", p, b, n) \in ToSet(outbox'[p]),
               Say("accept", p, b, n) \notin ToSet(outbox[p])
        PROVE  ~ Plugs(p, b)'
    <3> DEFINE m == Say("accept", p, b, n)
    <3>1. m.kind = "accept" /\ \A k, x, y, i : m = Say(k, x, y, i) => k = "accept" /\ y = b /\ i = n
      BY DEF Say
    <3> HIDE DEF m
    <3>2. m \in ToSet(outbox'[p]) /\ m \notin ToSet(outbox[p])
      BY <2>4 DEF m
    <3>3. \E q \in Player \ {p}, i \in 0..MaxTurns : Accepts(p, q, i) /\ m = Say("accept", p, q, i)
      BY <3>1, <3>2, EndSays
    <3>4. Accepts(p, b, n) /\ b # p
      BY <3>1, <3>3
    <3>5. LET o == Say("request", b, p, n) IN o \in Ask /\ Asked(o)
      BY <1>1, <3>4, Accepting DEF Attempts
    <3>6. ~ Flies(b, p, n)
      <4>1. LET o == Say("request", b, p, n) IN o.from = b /\ o.to = p /\ o.nonce = n
        BY DEF Say
      <4> QED
        BY <3>5, <4>1 DEF Attempts, Untold, Told, Bound
    <3>7. link'[p].phase = "holding" /\ link'[p].nonce = n
      BY <3>4, PhaseIs DEF Accepts, Moves, Phases
    <3>8. ToSet(inbox'[p]) = ToSet(inbox[p])
      BY <3>4 DEF Accepts, Speaks
    <3> QED
      BY <1>1, <1>3, <3>6, <3>7, <3>8 DEF Plugs, Flies
  <2>5. Ghost(p, b)'
    BY <1>1, <1>2, <1>4, <1>6, <2>1, <2>4 DEF Ghost
  <2> QED
    BY <1>6, <2>3, <2>5
<1> QED
  BY <1>5, <1>6

\* What a reader carries is said above; a start is passed on for two players on record only.
LEMMA RouteRecords ==
    ASSUME Types, NEW p \in Player, Route(p)
    PROVE  /\ Carried(p) = {}
           /\ \A m \in Carried(p)' : m.kind = "start" =>
                /\ m \in ToSet(outbox[p]) /\ m.from = p /\ AreLinked(p, m.to)
                /\ links' = links /\ endedBy' = endedBy /\ p \notin closing
           /\ \A r \in requests' : \/ r \in requests
                                   \/ \E o \in Ask : Waiting(o) /\ r = <<o.from, o.to, o.nonce>>
           /\ \/ links' = links /\ endedBy' = endedBy /\ \A b : StillPulled(p, b)
              \/ p \notin closing /\ (Grants(p) \/ Cuts(p))
<1> DEFINE m == Head(outbox[p])
<1>1. \A o : /\ Carry(<<>>, "deliver") = {} /\ Carry(<<Deliver(o)>>, "deliver") = {o}
             /\ Carry(<<Job("record", o, {})>>, "deliver") = {}
             /\ Carry(<<Job("record", o, {})>>, "record") = {o}
  BY JobCarries
<1>2. \A o, what : Answer(o, what).kind = what
  BY DEF Answer, Say
<1>3. Wired
  BY DEF Types
<1>4. ASSUME NEW kind, NEW jobs, Routes(p, kind, jobs)
      PROVE  /\ Carried(p) = {} /\ Carried(p)' = Carry(jobs, "deliver") /\ p \notin closing
             /\ m \in ToSet(outbox[p]) /\ m.kind = kind /\ m = Say(kind, p, m.to, m.nonce)
             /\ m.from = p /\ m.to \in Player /\ m.nonce \in 0..MaxTurns
             /\ \A b : StillPulled(p, b) \/ (kind = "unlink" /\ b = m.to)
  <2>1. outbox[p] # <<>> /\ p \notin closing
    BY <1>4 DEF Routes
  <2>2. /\ Carried(p) = {} /\ Carried(p)' = Carry(jobs, "deliver")
        /\ m \in ToSet(outbox[p]) /\ m.kind = kind /\ m = Say(kind, p, m.to, m.nonce)
        /\ m.from = p /\ m.to \in Player
        /\ \A b : StillPulled(p, b) \/ (kind = "unlink" /\ b = m.to)
    BY <1>4, RouteHands DEF StillPulled
  <2>3. m.nonce \in 0..MaxTurns
    BY <2>1, HeadMail
  <2> QED
    BY <2>1, <2>2, <2>3
<1> HIDE DEF m
<1>5. CASE RouteRequest(p)
  <2>1. /\ requests' = requests /\ links' = links /\ endedBy' = endedBy
        /\ \/ Routes(p, "request", <<Job("record", m, {})>>)
           \/ Routes(p, "request", <<Deliver(Answer(m, "decline"))>>)
    BY <1>3, <1>5, RouteRequestDoes DEF m, RouteRequest, rosterVars
  <2>2. /\ Carried(p) = {} /\ (Carried(p)' = {} \/ Carried(p)' = {Answer(m, "decline")})
        /\ \A b : StillPulled(p, b)
    BY <1>1, <1>4, <2>1
  <2> QED
    BY <1>2, <2>1, <2>2
<1>6. CASE RecordRequest(p)
  <2>1. PICK o \in Mail(p) \cap Ask :
              /\ work[Reader(p)] = <<Job("record", o, {})>>
              /\ RouteMoves(p) /\ outbox'[p] = outbox[p] /\ links' = links
              /\ \/ /\ requests' = requests
                    /\ work'[Reader(p)] = <<Deliver(Answer(o, "decline"))>>
                 \/ /\ requests' = {r \in requests : r[1] # o.from} \union {<<o.from, o.to, o.nonce>>}
                    /\ work'[Reader(p)] = <<Deliver(o)>>
    BY <1>6, RecordRequestDoes
  <2>2. Carried(p) = {} /\ Recording(p) = {o}
    BY <1>1, <2>1 DEF Carried, Recording
  <2>3. Carried(p)' = {Answer(o, "decline")} \/ Carried(p)' = {o}
    BY <1>1, <2>1 DEF Carried
  <2>4. o \in Ask /\ o.kind = "request" /\ o.from = p
    BY DEF Mail, Ask
  <2>5. Waiting(o)
    BY <2>2, <2>4 DEF Waiting
  <2>6. endedBy' = endedBy /\ \A b : StillPulled(p, b)
    BY <1>6, <2>1 DEF RecordRequest, StillPulled
  <2>7. \A r \in requests' : r \in requests \/ r = <<o.from, o.to, o.nonce>>
    BY <2>1
  <2> QED
    BY <1>2, <2>1, <2>2, <2>3, <2>4, <2>5, <2>6, <2>7
<1>7. CASE RouteAccept(p)
  <2>1. \/ /\ requests' = requests /\ links' = links
           /\ Routes(p, "accept", <<>>)
        \/ /\ requests' \subseteq requests /\ links' = links
           /\ Routes(p, "accept", <<Deliver(Answer(m, "unlink"))>>)
        \/ /\ <<m.to, m.from, m.nonce>> \in requests /\ requests' \subseteq requests
           /\ links' = links \union {<<m.to, m.from>>}
           /\ Routes(p, "accept", <<Deliver(m)>>)
    BY <1>3, <1>7, RouteAcceptDoes DEF m
  <2>2. m = Say("accept", p, m.to, m.nonce) /\ m \in ToSet(outbox[p]) /\ m.kind = "accept"
        /\ m.from = p /\ m.to \in Player /\ m.nonce \in 0..MaxTurns
        /\ p \notin closing /\ Carried(p) = {} /\ \A b : StillPulled(p, b)
    BY <1>4, <2>1
  <2>3. \A o \in Carried(p)' : o.kind # "start"
    BY <1>1, <1>2, <1>4, <2>1, <2>2
  <2>4. \/ endedBy' = endedBy /\ links' = links
        \/ /\ <<m.to, m.from, m.nonce>> \in requests
           /\ links' = links \union {<<m.to, m.from>>}
           /\ endedBy' = endedBy \ {<<m.from, m.to>>, <<m.to, m.from>>}
    <3>1. LET isAsked == <<m.to, m.from, m.nonce>> \in requests
              busy == IsLinked(m.from) \/ IsLinked(m.to)
          IN /\ links' = links \union (IF isAsked /\ ~busy THEN {<<m.to, m.from>>} ELSE {})
             /\ endedBy' = IF isAsked /\ ~busy THEN endedBy \ Pairs(m) ELSE endedBy
      BY <1>7 DEF RouteAccept, m
    <3> QED
      BY <3>1 DEF Pairs
  <2>5. (links' = links /\ endedBy' = endedBy) \/ Grants(p)
    BY <2>2, <2>4 DEF Grants
  <2> QED
    BY <2>1, <2>2, <2>3, <2>5
<1>8. CASE RouteDecline(p)
  <2>1. /\ requests' \subseteq requests /\ links' = links /\ endedBy' = endedBy
        /\ Routes(p, "decline", <<>>) \/ Routes(p, "decline", <<Deliver(m)>>)
    BY <1>3, <1>8, RouteDeclineDoes DEF m, RouteDecline
  <2>2. /\ Carried(p) = {} /\ (Carried(p)' = {} \/ (Carried(p)' = {m} /\ m.kind = "decline"))
        /\ \A b : StillPulled(p, b)
    BY <1>1, <1>4, <2>1
  <2> QED
    BY <2>1, <2>2
<1>9. CASE RouteStart(p)
  <2>1. /\ requests' = requests /\ links' = links /\ endedBy' = endedBy
        /\ Routes(p, "start", <<>>) \/ (Routes(p, "start", <<Deliver(m)>>) /\ AreLinked(m.from, m.to))
    <3>1. Takes(p, "start") /\ UNCHANGED <<rosterVars, inbox, frontVars>>
      BY <1>9 DEF RouteStart
    <3>2. Then(p, <<>>) \/ (Then(p, <<Deliver(m)>>) /\ AreLinked(m.from, m.to))
      BY <1>9 DEF RouteStart, m
    <3> QED
      BY <1>3, <3>1, <3>2, Routing DEF rosterVars
  <2>2. /\ Carried(p) = {} /\ p \notin closing /\ m.from = p /\ m \in ToSet(outbox[p])
        /\ \A b : StillPulled(p, b)
        /\ Carried(p)' = {} \/ (Carried(p)' = {m} /\ AreLinked(p, m.to))
    BY <1>1, <1>4, <2>1
  <2> QED
    BY <2>1, <2>2
<1>10. CASE RouteUnlink(p)
  <2>1. /\ requests' = {r \in requests : {r[1], r[2]} # {m.from, m.to}}
        /\ links' = links \ {<<m.from, m.to>>, <<m.to, m.from>>}
        /\ endedBy' = IF AreLinked(m.from, m.to) THEN endedBy \union {<<m.from, m.to>>} ELSE endedBy
        /\ Routes(p, "unlink", IF AreLinked(m.from, m.to) THEN <<Deliver(m)>> ELSE <<>>)
    <3>1. /\ Takes(p, "unlink") /\ UNCHANGED <<conns, closing, inbox, frontVars>>
          /\ requests' = {r \in requests : {r[1], r[2]} # {m.from, m.to}}
          /\ links' = links \ {<<m.from, m.to>>, <<m.to, m.from>>}
          /\ endedBy' = IF AreLinked(m.from, m.to) THEN endedBy \union {<<m.from, m.to>>} ELSE endedBy
          /\ Then(p, IF AreLinked(m.from, m.to) THEN <<Deliver(m)>> ELSE <<>>)
      BY <1>10 DEF RouteUnlink, Pairs, m
    <3> QED
      BY <1>3, <3>1, Routing
  <2>2. m = Say("unlink", p, m.to, m.nonce) /\ m \in ToSet(outbox[p]) /\ m.kind = "unlink"
        /\ m.from = p /\ m.to \in Player /\ m.nonce \in 0..MaxTurns
        /\ p \notin closing /\ Carried(p) = {}
        /\ Carried(p)' = Carry(IF AreLinked(m.from, m.to) THEN <<Deliver(m)>> ELSE <<>>, "deliver")
    BY <1>4, <2>1
  <2>3. /\ AreLinked(p, m.to) => Carried(p)' = {m}
        /\ ~ AreLinked(p, m.to) => Carried(p)' = {}
    BY <1>1, <2>2
  <2>4. /\ requests' \subseteq requests
        /\ \A r \in requests' : {r[1], r[2]} # {p, m.to}
    BY <2>1, <2>2
  <2>5. \A b : b # m.to => StillPulled(p, b)
    BY <1>4, <2>1
  <2>6. /\ links' = links \ {<<p, m.to>>, <<m.to, p>>}
        /\ endedBy' = IF AreLinked(p, m.to) THEN endedBy \union {<<p, m.to>>} ELSE endedBy
    BY <2>1, <2>2
  <2>7. Cuts(p)
    BY <2>2, <2>3, <2>4, <2>5, <2>6 DEF Cuts
  <2> QED
    BY <2>2, <2>3, <2>4, <2>7
<1> QED
  BY <1>5, <1>6, <1>7, <1>8, <1>9, <1>10 DEF Route

\* A reader that cuts a link carries the Unlink or notes who ended it, and one that grants
\* a link finds no old plug of the one who asked (Ghost).
LEMMA RouteCables ==
    ASSUME Types, Numbers, Attempts, Cables, NEW p \in Player, Route(p)
    PROVE  Cables'
<1> SUFFICES ASSUME NEW a \in Client, NEW b \in Client PROVE Covered(a, b)' /\ Ghost(a, b)'
  BY DEF Cables
<1>1. a \in Player /\ b \in Player /\ Covered(a, b) /\ Ghost(a, b)
  BY DEF Cables, Player
<1>2. /\ RouteMoves(p)
      /\ ToSet(outbox'[p]) \subseteq ToSet(outbox[p])
      /\ \A x \in Player : x # p => Carried(x)' = Carried(x)
      /\ \A m \in Carried(p)' : \/ m \in ToSet(outbox[p]) /\ m.kind # "request"
                                \/ m.kind \in {"decline", "unlink"}
                                \/ m \in Ask
  BY RoutePasses
<1>3. /\ Carried(p) = {}
      /\ \A m \in Carried(p)' : m.kind = "start" =>
           m.from = p /\ AreLinked(p, m.to) /\ links' = links /\ p \notin closing
      /\ \A r \in requests' : \/ r \in requests
                              \/ \E o \in Ask : Waiting(o) /\ r = <<o.from, o.to, o.nonce>>
      /\ (links' = links /\ endedBy' = endedBy) \/ (p \notin closing /\ (Grants(p) \/ Cuts(p)))
  BY RouteRecords
<1>4. /\ closing' = closing /\ inbox' = inbox /\ link' = link
      /\ work'[Closer(b)] = work[Closer(b)]
      /\ \A x \in Player : ToSet(outbox'[x]) \subseteq ToSet(outbox[x])
  BY <1>1, <1>2, Threads DEF RouteMoves
<1>5. Gone(b)' = Gone(b)
  BY <1>4 DEF Gone
<1>6. \A x, y : AreLinked(x, y) <=> AreLinked(y, x)
  BY DEF AreLinked
<1>7. ASSUME Plugs(a, b)', ~ Plugs(a, b) PROVE b = p /\ AreLinked(a, b)' /\ ~ Gone(b)
  <2>1. /\ Say("start", b, a, link[a].nonce) \in Carried(b)'
        /\ Say("start", b, a, link[a].nonce) \notin Carried(b)
    BY <1>4, <1>7 DEF Plugs
  <2>2. b = p
    BY <1>1, <1>2, <2>1
  <2>3. Say("start", b, a, link[a].nonce).kind = "start" /\ Say("start", b, a, link[a].nonce).to = a
    BY DEF Say
  <2>4. AreLinked(p, a) /\ links' = links /\ p \notin closing
    BY <1>3, <2>1, <2>2, <2>3
  <2> QED
    BY <2>2, <2>4 DEF Gone, AreLinked
<1>8. Ghost(a, b)'
  <2> SUFFICES ASSUME NEW n \in 0..MaxTurns, Gone(b)', Say("accept", a, b, n) \in ToSet(outbox'[a]),
                      <<b, a, n>> \in requests', Plugs(a, b)'
               PROVE  FALSE
    BY DEF Ghost
  <2>1. Plugs(a, b) /\ Gone(b)
    BY <1>5, <1>7
  <2>2. Say("accept", a, b, n) \in ToSet(outbox[a])
    BY <1>1, <1>4
  <2>3. <<b, a, n>> \notin requests
    BY <1>1, <2>1, <2>2 DEF Ghost
  <2>4. PICK o \in Ask : Waiting(o) /\ <<b, a, n>> = <<o.from, o.to, o.nonce>>
    BY <1>3, <2>3
  <2>5. Answer(o, "accept") = Say("accept", a, b, n) /\ o.to = a
    BY <2>4 DEF Answer
  <2>6. Arrived(o)
    BY <2>2, <2>5 DEF Arrived
  <2> QED
    BY <2>4, <2>6 DEF Numbers, Fresh
<1>9. Covered(a, b)'
  <2> SUFFICES ASSUME a \notin closing, Plugs(a, b)' PROVE Backed(a, b)'
    BY <1>4 DEF Covered
  <2>1. CASE ~ Plugs(a, b)
    BY <1>5, <1>7, <2>1 DEF Backed
  <2>2. CASE Plugs(a, b)
    <3>1. Backed(a, b)
      BY <1>1, <2>2 DEF Covered
    <3>2. Cut(b, a) \in Carried(b) => Cut(b, a) \in Carried(b)'
      BY <1>1, <1>2, <1>3
    <3>3. CASE links' = links /\ endedBy' = endedBy
      BY <1>4, <1>5, <3>1, <3>2, <3>3 DEF Backed, AreLinked
    <3>4. ASSUME p \notin closing, Grants(p) PROVE Backed(a, b)'
      <4>1. PICK q \in Player, n \in 0..MaxTurns :
              /\ Say("accept", p, q, n) \in ToSet(outbox[p]) /\ <<q, p, n>> \in requests
              /\ links' = links \union {<<q, p>>} /\ endedBy' = endedBy \ {<<p, q>>, <<q, p>>}
        BY <3>4 DEF Grants
      <4>2. AreLinked(a, b) => AreLinked(a, b)'
        BY <4>1 DEF AreLinked
      <4>3. CASE <<a, b>> \notin {<<p, q>>, <<q, p>>}
        BY <1>4, <1>5, <3>1, <3>2, <4>1, <4>2, <4>3 DEF Backed
      <4>4. CASE <<a, b>> = <<q, p>>
        <5>1. AreLinked(a, b)' /\ b = p
          BY <4>1, <4>4 DEF AreLinked
        <5> QED
          BY <1>5, <3>4, <5>1 DEF Backed, Gone
      <4>5. CASE <<a, b>> = <<p, q>>
        <5>1. AreLinked(a, b)' /\ a = p /\ b = q
          BY <4>1, <4>5 DEF AreLinked
        <5>2. ~ Gone(b)
          BY <1>1, <2>2, <4>1, <5>1 DEF Ghost
        <5> QED
          BY <1>5, <5>1, <5>2 DEF Backed
      <4> QED
        BY <4>3, <4>4, <4>5
    <3>5. ASSUME Cuts(p) PROVE Backed(a, b)'
      <4>1. PICK q \in Player, n \in 0..MaxTurns :
              /\ Say("unlink", p, q, n) \in ToSet(outbox[p])
              /\ links' = links \ {<<p, q>>, <<q, p>>}
              /\ endedBy' = IF AreLinked(p, q) THEN endedBy \union {<<p, q>>} ELSE endedBy
              /\ AreLinked(p, q) => Carried(p)' = {Say("unlink", p, q, n)}
        BY <3>5 DEF Cuts
      <4>2. endedBy \subseteq endedBy'
        BY <4>1
      <4>3. CASE ~ AreLinked(a, b) \/ Gone(b)
        BY <1>4, <3>1, <3>2, <4>2, <4>3 DEF Backed
      <4>4. CASE AreLinked(a, b) /\ ~ Gone(b) /\ <<a, b>> \notin {<<p, q>>, <<q, p>>}
        <5>1. <<a, b>> \in links' \/ <<b, a>> \in links'
          <6>1. <<b, a>> \notin {<<p, q>>, <<q, p>>}
            BY <4>4
          <6> QED
            BY <4>1, <4>4, <6>1 DEF AreLinked
        <5> QED
          BY <1>5, <4>4, <5>1 DEF Backed, AreLinked
      <4>5. CASE AreLinked(a, b) /\ <<a, b>> = <<p, q>>
        <5>1. <<a, b>> \in endedBy'
          BY <4>1, <4>5
        <5> QED
          BY <5>1 DEF Backed
      <4>6. CASE AreLinked(a, b) /\ <<a, b>> = <<q, p>>
        <5>1. AreLinked(p, q) /\ b = p /\ a = q
          BY <1>6, <4>6
        <5>2. n = 0
          <6>1. Say("unlink", p, q, n).kind = "unlink" /\ Say("unlink", p, q, n).nonce = n
            BY DEF Say
          <6> QED
            BY <4>1, <6>1 DEF Attempts, ZeroUnlinks
        <5>3. Cut(b, a) \in Carried(b)'
          BY <4>1, <5>1, <5>2 DEF Cut
        <5> QED
          BY <5>3 DEF Backed
      <4> QED
        BY <4>3, <4>4, <4>5, <4>6
    <3> QED
      BY <1>3, <3>3, <3>4, <3>5
  <2> QED
    BY <2>1, <2>2
<1> QED
  BY <1>8, <1>9

\* A delivery takes a start or an Unlink from a reader or a closer to the inbox.
LEMMA DeliversCables ==
    ASSUME Types, Partings, Cables, NEW t \in Thread, Delivering(t)
    PROVE  Cables'
<1> SUFFICES ASSUME NEW a \in Client, NEW b \in Client PROVE Covered(a, b)' /\ Ghost(a, b)'
  BY DEF Cables
<1> DEFINE m == Head(work[t]).message
<1>1. a \in Player /\ b \in Player /\ Covered(a, b) /\ Ghost(a, b)
  BY DEF Cables, Player
<1>2. Delivers(t, m) /\ work[t] # <<>> /\ work' = [work EXCEPT ![t] = Tail(@)]
  BY DeliveringDoes DEF Delivering, DoesNext, Done
<1>3. work[Closer(b)] \in Seq(Duty(b)) /\ Closer(b) \in Thread /\ DOMAIN work = Thread
  BY <1>1, CloserLine DEF Types, Wired
<1>4. Deliver(Cut(b, a)) \in ToSet(work[Closer(b)]) =>
        Deliver(Cut(b, a)) \in ToSet(work'[Closer(b)]) \/ m = Cut(b, a)
  <2>1. CASE t # Closer(b)
    BY <1>2, <1>3, <2>1
  <2>2. CASE t = Closer(b)
    <3>1. ToSet(work[t]) = {Head(work[t])} \union ToSet(Tail(work[t])) /\ work'[t] = Tail(work[t])
      BY <1>2, <1>3, <2>2, TailElements
    <3>2. Head(work[t]) = Deliver(Cut(b, a)) => m = Cut(b, a)
      BY JobIs
    <3> QED
      BY <2>2, <3>1, <3>2
  <2> QED
    BY <2>1, <2>2
<1> HIDE DEF m
<1>5. /\ closing' = closing /\ links' = links /\ requests' = requests /\ endedBy' = endedBy
      /\ outbox' = outbox /\ link' = link
      /\ \A y \in Player : y # m.to => inbox'[y] = inbox[y]
      /\ \/ inbox'[m.to] = inbox[m.to] /\ m.to \notin Staying
         \/ ToSet(inbox'[m.to]) = ToSet(inbox[m.to]) \union {m}
  BY <1>2 DEF Delivers, rosterVars, frontVars
<1>6. /\ \A x \in Player : Carried(x)' \subseteq Carried(x)
      /\ \A x \in Player : \A o \in Carried(x) : o \in Carried(x)' \/ o = m
      /\ m.kind = "start" => m \in Carried(m.from)
  <2>1. \A c, q : Say("unlink", c, q, 0).kind = "unlink"
    BY DEF Say
  <2>2. CASE \E p \in Player :
               /\ Carried(p) = {m} /\ Carried(p)' = {}
               /\ \A x \in Player : x # p => Carried(x)' = Carried(x)
               /\ (m \in Mail(p) \/ (m \in News(p) /\ m.kind \in {"decline", "unlink"}))
    <3>1. PICK p \in Player :
            /\ Carried(p) = {m} /\ Carried(p)' = {}
            /\ \A x \in Player : x # p => Carried(x)' = Carried(x)
            /\ (m \in Mail(p) \/ (m \in News(p) /\ m.kind \in {"decline", "unlink"}))
      BY <2>2
    <3>2. m.kind = "start" => m.from = p
      BY <3>1 DEF Mail
    <3>3. m.kind = "start" => m \in Carried(m.from)
      BY <3>1, <3>2
    <3>4. ASSUME NEW x \in Player
          PROVE  /\ Carried(x)' \subseteq Carried(x)
                 /\ \A o \in Carried(x) : o \in Carried(x)' \/ o = m
      BY <3>1
    <3> QED
      BY <3>3, <3>4
  <2>3. CASE /\ \A x \in Player : Carried(x)' = Carried(x)
             /\ \E c \in Player \cap closing : \E q \in Player \ {c} : m = Say("unlink", c, q, 0)
    BY <2>1, <2>3
  <2>4. Delivers(t, m)
    BY <1>2
  <2> QED
    BY <2>2, <2>3, <2>4, DeliversCarries
<1>7. Plugs(a, b)' => Plugs(a, b)
  <2>1. \A n : Say("start", b, a, n).kind = "start" /\ Say("start", b, a, n).from = b
    BY DEF Say
  <2>2. \A n : Say("start", b, a, n) \in ToSet(inbox'[a]) =>
           Say("start", b, a, n) \in ToSet(inbox[a]) \/ Say("start", b, a, n) \in Carried(b)
    BY <1>1, <1>5, <1>6, <2>1
  <2> QED
    BY <1>1, <1>5, <1>6, <2>2 DEF Plugs
<1>8. Gone(b)' => Gone(b)
  BY GoneBy
<1>9. Ghost(a, b)'
  BY <1>1, <1>5, <1>7, <1>8 DEF Ghost
<1>10. ASSUME a \notin closing PROVE Backed(a, b) => Backed(a, b)'
  <2>1. a \in Staying /\ Cut(b, a).to = a
    BY <1>1, <1>10 DEF Staying, Cut, Say
  <2>2. ToSet(inbox[a]) \subseteq ToSet(inbox'[a]) /\ (m = Cut(b, a) => m \in ToSet(inbox'[a]))
    BY <1>1, <1>5, <2>1
  <2>3. AreLinked(a, b)' = AreLinked(a, b)
    BY <1>5 DEF AreLinked
  <2> QED
    BY <1>1, <1>4, <1>5, <1>6, <1>8, <2>2, <2>3 DEF Backed
<1>11. Covered(a, b)'
  BY <1>1, <1>5, <1>7, <1>10 DEF Covered
<1> QED
  BY <1>9, <1>11

\* A closer that departs tells every partner; whatever else it does leaves the links.
LEMMA ClosersCables ==
    ASSUME Types, Partings, Cables, NEW c \in Client,
           (c \in closing /\ AnnounceStep(c)) \/ BeginsClose(c) \/ Removes(c) \/ Departs(c),
           CloseStep
    PROVE  Cables'
<1> SUFFICES ASSUME NEW a \in Client, NEW b \in Client PROVE Covered(a, b)' /\ Ghost(a, b)'
  BY DEF Cables
<1>1. a \in Player /\ b \in Player /\ c \in Player /\ Covered(a, b) /\ Ghost(a, b)
  BY DEF Cables, Player
<1>2. /\ closing \subseteq closing' /\ link' = link /\ endedBy' = endedBy /\ requests' \subseteq requests
  BY DEF CloseStep, AnnounceStep, BeginsClose, Removes, Departs, rosterVars
<1>3. /\ \A x \in Player : Carried(x)' = Carried(x) /\ ToSet(outbox'[x]) \subseteq ToSet(outbox[x])
      /\ \/ inbox'[a] = inbox[a]
         \/ inbox'[a] = <<>> /\ a \in closing'
         \/ \E d \in closing : ToSet(inbox'[a]) = ToSet(inbox[a]) \union {Left(d)}
  BY <1>1, CloseBoxes
<1>4. Plugs(a, b)' => Plugs(a, b)
  <2>1. \A n, d : Say("start", b, a, n) # Left(d)
    BY DEF Left, Say
  <2>2. \A n : Say("start", b, a, n) \in ToSet(inbox'[a]) => Say("start", b, a, n) \in ToSet(inbox[a])
    <3>1. ToSet(<<>>) = {}
      BY DEF ToSet
    <3> QED
      BY <1>3, <2>1, <3>1
  <2> QED
    BY <1>1, <1>2, <1>3, <2>2 DEF Plugs
<1>5. Gone(b)' => Gone(b) \/ (Departs(c) /\ c = b)
  BY GoneBy
<1>6. /\ work[Closer(b)] \in Seq(Duty(b)) /\ Closer(b) \in Thread
      /\ b \notin closing => work[Closer(b)] = <<>>
  BY <1>1, CloserLine
<1>7. Ghost(a, b)'
  <2>1. CASE Departs(c) /\ c = b
    <3>1. \A n : <<b, a, n>> \notin requests'
      <4>1. \A n : <<b, a, n>>[1] = b
        OBVIOUS
      <4> QED
        BY <2>1, <4>1 DEF Departs
    <3> QED
      BY <3>1 DEF Ghost
  <2>2. CASE Gone(b)' => Gone(b)
    BY <1>1, <1>2, <1>3, <1>4, <2>2 DEF Ghost
  <2> QED
    BY <1>5, <2>1, <2>2
<1>8. ASSUME Deliver(Cut(b, a)) \in ToSet(work[Closer(b)])
      PROVE  Deliver(Cut(b, a)) \in ToSet(work'[Closer(b)])
  <2> DEFINE B == work[Closer(b)]
  <2>1. CASE b # c
    <3>1. Closer(b) # Closer(c)
      BY <2>1, Threads
    <3> QED
      BY <1>6, <1>8, <3>1 DEF AnnounceStep, BeginsClose, Removes, Departs, CloserTurns
  <2>2. CASE b = c
    <3>1. B # <<>>
      BY <1>8, OneFirst
    <3>2. Head(B).do \in {"announce", "remove", "depart"}
      BY <1>6, <2>2, <3>1 DEF AnnounceStep, BeginsClose, Removes, Departs
    <3>3. ToSet(B) = {Head(B)}
      BY <1>6, <3>1, <3>2, LastAlone DEF Partings, Parted
    <3> QED
      BY <1>8, <3>2, <3>3, JobIs
  <2> QED
    BY <2>1, <2>2
<1>9. ASSUME a \notin closing', Backed(a, b) PROVE Backed(a, b)'
  <2>1. ToSet(inbox[a]) \subseteq ToSet(inbox'[a])
    BY <1>3, <1>9
  <2>2. CASE ~ AreLinked(a, b) \/ Gone(b)
    BY <1>1, <1>2, <1>3, <1>8, <1>9, <2>1, <2>2 DEF Backed
  <2>3. CASE AreLinked(a, b) /\ ~ Gone(b) /\ ~ Departs(c)
    <3>1. links' = links
      BY <2>3 DEF AnnounceStep, BeginsClose, Removes, rosterVars
    <3>2. ~ Gone(b)'
      BY <1>5, <2>3
    <3> QED
      BY <2>3, <3>1, <3>2 DEF Backed, AreLinked
  <2>4. CASE AreLinked(a, b) /\ ~ Gone(b) /\ Departs(c) /\ c # b
    <3>1. c \in closing
      BY <1>1, <2>4, CloserLine DEF Departs
    <3>2. c # a
      BY <1>2, <1>9, <3>1
    <3>3. <<a, b>>[1] = a /\ <<a, b>>[2] = b /\ <<b, a>>[1] = b /\ <<b, a>>[2] = a
      OBVIOUS
    <3>4. AreLinked(a, b)'
      BY <2>4, <3>2, <3>3 DEF AreLinked, Departs
    <3> QED
      BY <1>5, <2>4, <3>4 DEF Backed
  <2>5. CASE AreLinked(a, b) /\ Departs(c) /\ c = b
    <3>1. AreLinked(b, a)
      BY <2>5 DEF AreLinked
    <3>2. Deliver(Cut(b, a)) \in ToSet(work'[Closer(b)])
      BY <1>1, <2>5, <3>1, UnplugsAll DEF Departs, CloserTurns, Cut
    <3> QED
      BY <3>2 DEF Backed
  <2> QED
    BY <2>2, <2>3, <2>4, <2>5
<1>10. Covered(a, b)'
  BY <1>1, <1>2, <1>4, <1>9 DEF Covered
<1> QED
  BY <1>7, <1>10

\* Every step keeps the partings and the cables.
LEMMA CablesKept ==
    Types /\ Numbers /\ Attempts /\ Partings /\ Cables /\ [Next]_vars => Partings' /\ Cables'
<1> SUFFICES ASSUME Types, Numbers, Attempts, Partings, Cables, [Next]_vars PROVE Partings' /\ Cables'
  OBVIOUS
<1>1. CASE UNCHANGED vars
  <2>1. /\ UNCHANGED <<closing, links, requests, endedBy, work, outbox, inbox, link>>
    BY <1>1 DEF vars, rosterVars, frontVars
  <2>2. Partings'
    BY <2>1 DEF Partings, Parted, OnlyAnnounces
  <2>3. ASSUME NEW a \in Client, NEW b \in Client
        PROVE  /\ Plugs(a, b)' = Plugs(a, b) /\ Backed(a, b)' = Backed(a, b)
               /\ Gone(b)' = Gone(b)
    BY <2>1 DEF Backed, Plugs, Gone, AreLinked, Carried
  <2>4. Cables'
    BY <2>1, <2>3 DEF Cables, Covered, Ghost
  <2> QED
    BY <2>2, <2>4
<1>2. ASSUME NEW p \in Player, Route(p) PROVE Partings' /\ Cables'
  <2>1. /\ closing' = closing /\ inbox' = inbox
        /\ \A c \in Client : work'[Closer(c)] = work[Closer(c)]
    BY <1>2, RoutePasses, Threads DEF RouteMoves, Player
  <2> QED
    BY <1>2, <2>1, StillPartings, RouteCables
<1>3. ASSUME NEW p \in Player, Frontend(p) PROVE Partings' /\ Cables'
  <2>1. FrontMoves(p) /\ EndMoves(p)
    BY <1>3, FrontSteps, EndSteps DEF FrontStep
  <2>2. /\ closing' = closing /\ work' = work
        /\ \A x \in Player : ToSet(inbox'[x]) \subseteq ToSet(inbox[x])
    BY <2>1, EndBoxes DEF FrontMoves, rosterVars
  <2>3. Partings'
    BY <2>2, StillPartings DEF Player
  <2> QED
    BY <2>1, <2>3, FrontCables
<1>4. ASSUME NEW t \in Thread, Work(t) PROVE Partings' /\ Cables'
  <2>1. CASE Delivering(t)
    BY <2>1, DeliversPartings, DeliversCables
  <2>2. CASE Announced(t) \/ \E c \in Client : Announcing(t, c)
    <3>1. PICK c \in Client \cap closing : AnnounceStep(c)
      BY <2>2, AnnounceDoes
    <3>2. CloseStep
      BY <2>2, AnnounceTypes
    <3> QED
      BY <3>1, <3>2, AnnouncePartings, ClosersCables
  <2> QED
    BY <1>4, <2>1, <2>2 DEF Work
<1>5. ASSUME NEW c \in Client, Close(c) PROVE Partings' /\ Cables'
  BY <1>5, CloseDoes, CloseTypes, ClosePartings, ClosersCables
<1> QED
  BY <1>1, <1>2, <1>3, <1>4, <1>5 DEF Next

\* Nobody is plugged or closed at first.
LEMMA CablesInit == Init => Partings /\ Cables
<1> SUFFICES ASSUME Init PROVE Partings /\ Cables
  OBVIOUS
<1>1. /\ work = [t \in Thread |-> <<>>] /\ closing = {}
      /\ inbox = [p \in Player |-> <<>>] /\ link = [p \in Player |-> NoLink]
  BY DEF Init
<1>2. \A c \in Client : /\ c \in Player /\ work[Closer(c)] = <<>>
                        /\ inbox[c] = <<>> /\ link[c] = NoLink
  BY <1>1, Threads DEF Player
<1>3. ToSet(<<>>) = {} /\ DeliversFirst(<<>>)
  BY OneFirst
<1>4. Partings
  BY <1>2, <1>3 DEF Partings, Parted
<1>5. \A p, q \in Client : ~ Plugs(p, q)
  BY <1>2, NoLinkIs DEF Plugs
<1> QED
  BY <1>4, <1>5 DEF Cables, Covered, Ghost

-----------------------------------------------------------------------------
\* Closing a connection unplugs before it tells, for any number of clients: a plugged
\* player that hears of its partner's departure first is owed the partner's own Unlink,
\* or ended the record itself (host.rs:371-373, link.rs:562-572).
THEOREM UnplugsFirst == Spec => []UnlinkFirst
<1> DEFINE Inv == Types /\ Numbers /\ Attempts /\ Partings /\ Cables
<1>1. Init => Inv
  BY TypesInit, NumbersInit, AttemptsInit, CablesInit
<1>2. Inv /\ [Next]_vars => Inv'
  BY TypesKept, NumbersKeep, AttemptsKept, CablesKept
<1>3. Inv => UnlinkFirst
  <2> SUFFICES ASSUME Types, Partings, Cables,
                      NEW p \in Client \ closing, NEW q \in Client, PluggedInto(p, q),
                      inbox[p] # <<>>, Head(inbox[p]) = Say("left", q, Nobody, 0)
               PROVE  LET unlink == Say("unlink", q, p, 0)
                      IN \/ Deliver(unlink) \in ToSet(work[Reader(q)])
                         \/ unlink \in ToSet(inbox[p])
                         \/ <<p, q>> \in endedBy
    BY DEF UnlinkFirst
  <2>1. p \in Player /\ q \in Player
    BY DEF Player
  <2>2. Left(q) \in ToSet(inbox[p])
    BY <2>1, HeadNews DEF Left
  <2>3. OnlyAnnounces(q)
    BY <2>2 DEF Partings, Parted
  <2>4. Backed(p, q)
    BY DEF PluggedInto, Plugs, Cables, Covered
  <2>5. Gone(q)
    <3>1. q \in closing
      <4>1. Left(q).kind = "left" /\ Left(q).from = q
        BY DEF Left, Say
      <4> QED
        BY <2>1, <4>1, HeadNews DEF Left
    <3> QED
      BY <2>3, <3>1 DEF Gone, OnlyAnnounces
  <2>6. Deliver(Cut(q, p)) \notin ToSet(work[Closer(q)])
    BY <2>3, JobIs DEF OnlyAnnounces
  <2>7. Cut(q, p) \in Carried(q) => Deliver(Cut(q, p)) \in ToSet(work[Reader(q)])
    <3>1. CASE work[Reader(q)] = <<>>
      BY <3>1, JobCarries DEF Carried
    <3>2. CASE \E j \in Task(q) : work[Reader(q)] = <<j>>
      <4>1. PICK j \in Task(q) : work[Reader(q)] = <<j>>
        BY <3>2
      <4>2. ToSet(work[Reader(q)]) = {j}
        BY <4>1, OneFirst
      <4>3. Cut(q, p) \in Carried(q) => j.do = "deliver" /\ j.message = Cut(q, p)
        BY <4>2 DEF Carried, Carry
      <4>4. j.do = "deliver" => j = Deliver(j.message)
        BY JobIs DEF Task
      <4> QED
        BY <4>2, <4>3, <4>4
    <3> QED
      BY <2>1, <3>1, <3>2 DEF Types, Wired, ReadTyped
  <2> QED
    BY <2>4, <2>5, <2>6, <2>7 DEF Backed, Cut
<1> QED
  BY <1>1, <1>2, <1>3, PTL DEF Spec

-----------------------------------------------------------------------------
(* Lanes.                                                                  *)

\* A queue whose head is taken, and one that grew.
LEMMA TailNotAfter ==
    ASSUME NEW S, NEW B \in Seq(S), B # <<>>, NEW X, NEW Y, NotAfter(B, X, Y)
    PROVE  /\ NotAfter(Tail(B), X, Y)
           /\ Head(B) \in Y => ToSet(Tail(B)) \cap X = {}
<1> DEFINE t == Tail(B)
<1>1. /\ Head(B) = B[1] /\ 1 \in DOMAIN B
      /\ \A j \in DOMAIN t : j \in Nat /\ j + 1 \in DOMAIN B /\ t[j] = B[j + 1]
  BY TailPlaces
<1>2. 0 \notin DOMAIN t
  OBVIOUS
<1> HIDE DEF t
<1>3. ASSUME NEW i \in DOMAIN t, NEW j \in DOMAIN t, t[i] \in X, t[j] \in Y PROVE i <= j
  <2>1. i + 1 <= j + 1
    BY <1>1, <1>3 DEF NotAfter
  <2> QED
    BY <1>1, <2>1
<1>4. ASSUME NEW i \in DOMAIN t, t[i] \in X, Head(B) \in Y PROVE FALSE
  <2>1. i + 1 <= 1 /\ i \in Nat
    BY <1>1, <1>4 DEF NotAfter
  <2> QED
    BY <1>2, <2>1
<1>5. Head(B) \in Y => ToSet(t) \cap X = {}
  BY <1>4 DEF ToSet
<1> QED
  BY <1>3, <1>5 DEF t, NotAfter

LEMMA GrownNotAfter ==
    ASSUME NEW S, NEW T, NEW B \in Seq(S), NEW B2 \in Seq(T), NEW m, Grows(B, B2, m),
           NEW X, NEW Y, \A x \in X \union Y : IsUrgent(x),
           NotAfter(B, X, Y), m \in X => ToSet(B) \cap Y = {}
    PROVE  NotAfter(B2, X, Y)
<1>1. DOMAIN B \subseteq Int /\ DOMAIN B2 \subseteq Int
  OBVIOUS
<1>2. PICK z \in DOMAIN B2 :
        /\ B2[z] = m
        /\ \A j \in DOMAIN B : IsUrgent(B[j]) => j < z /\ j \in DOMAIN B2 /\ B2[j] = B[j]
        /\ \A j \in DOMAIN B2 : IsUrgent(B2[j]) /\ j # z => j \in DOMAIN B /\ B2[j] = B[j]
  BY DEF Grows
<1>3. ASSUME NEW i \in DOMAIN B2, NEW j \in DOMAIN B2, B2[i] \in X, B2[j] \in Y PROVE i <= j
  <2>1. CASE i # z /\ j # z
    BY <1>2, <1>3, <2>1 DEF NotAfter
  <2>2. CASE i # z /\ j = z
    <3>1. i \in DOMAIN B /\ B2[i] = B[i] /\ i < z
      BY <1>2, <1>3, <2>2
    <3> QED
      BY <1>1, <2>2, <3>1
  <2>3. CASE i = z /\ j # z
    <3>1. j \in DOMAIN B /\ B[j] \in Y
      BY <1>2, <1>3, <2>3
    <3> QED
      BY <1>2, <1>3, <2>3, <3>1 DEF ToSet
  <2>4. CASE i = z /\ j = z
    BY <1>1, <2>4
  <2> QED
    BY <2>1, <2>2, <2>3, <2>4
<1> QED
  BY <1>3 DEF NotAfter

\* What travels forward on a lane, and what its parts are.
LEMMA ForwardIs ==
    ASSUME NEW a, NEW b, NEW m \in Forward(a, b)
    PROVE  /\ IsUrgent(m) /\ m.kind # "decline" /\ m.kind # "unlink" /\ m.kind # "left"
           /\ m \in Mail(a) /\ m.from = a /\ m.to = b
BY DEF Forward, Mail, IsUrgent, UrgentKinds

LEMMA LaneIs ==
    ASSUME Types, NEW a \in Player, NEW b \in Player, a # b
    PROVE  /\ outbox[a] \in Seq(Mail(a))
           /\ inbox[b] \in Seq(News(b) \union {Left(c) : c \in closing})
           /\ \A m \in Recording(a) : m.kind = "request"
           /\ Carried(a) # {} => Recording(a) = {}
<1>1. /\ outbox[a] \in Seq(Mail(a))
      /\ inbox[b] \in Seq(News(b) \union {Left(c) : c \in closing})
      /\ work[Reader(a)] = <<>> \/ \E j \in Task(a) : work[Reader(a)] = <<j>>
  BY DEF Types, Wired, OutTyped, InTyped, ReadTyped
<1>2. ASSUME NEW m \in Recording(a) PROVE m.kind = "request"
  <2>1. PICK j \in Task(a) : work[Reader(a)] = <<j>>
    BY <1>1, <1>2, CarryIs DEF Recording
  <2>2. j.do = "record" /\ m = j.message
    BY <1>2, <2>1, CarryIs DEF Recording
  <2>3. PICK o \in Mail(a) \cap Ask : j = Job("record", o, {})
    BY <2>2, JobIs DEF Task
  <2> QED
    BY <2>2, <2>3, JobIs DEF Ask
<1>3. Carried(a) # {} => Recording(a) = {}
  <2>1. CASE work[Reader(a)] = <<>>
    BY <2>1, CarryIs DEF Recording
  <2>2. ASSUME NEW j, work[Reader(a)] = <<j>>
        PROVE  Carried(a) = {} \/ Recording(a) = {}
    BY <2>2, CarryIs DEF Carried, Recording
  <2> QED
    BY <1>1, <2>1, <2>2
<1> QED
  BY <1>1, <1>2, <1>3

\* A frontend takes the head of its inbox, and puts a letter behind its outbox.
LEMMA LaneFront ==
    ASSUME Types, NEW p \in Player, FrontStep(p),
           NEW a \in Player, NEW b \in Player, a # b,
           NEW X \in SUBSET Forward(a, b), NEW Y \in SUBSET Forward(a, b), Lane(a, b, X, Y),
           \A m \in X : p = a /\ Says(p, m) => Along(a, b) \cap Y = {}
    PROVE  Lane(a, b, X, Y)'
<1>1. /\ outbox[a] \in Seq(Mail(a))
      /\ inbox[b] \in Seq(News(b) \union {Left(c) : c \in closing})
      /\ \A m \in X \union Y : IsUrgent(m)
  BY LaneIs, ForwardIs
<1>2. /\ \A x \in Player : x # p => outbox'[x] = outbox[x] /\ inbox'[x] = inbox[x]
      /\ Carried(a)' = Carried(a) /\ Recording(a)' = Recording(a)
  BY DEF FrontStep, FrontMoves, Carried, Recording
<1>3. Held(a)' = Held(a)
  BY <1>2 DEF Held
<1>4. CASE p # a
  <2>1. outbox'[a] = outbox[a]
    BY <1>2, <1>4
  <2>2. CASE inbox'[b] = inbox[b]
    BY <1>3, <2>1, <2>2 DEF Lane
  <2>3. CASE inbox[b] # <<>> /\ inbox'[b] = Tail(inbox[b])
    <3>1. NotAfter(Tail(inbox[b]), X, Y)
      BY <1>1, <2>3, TailNotAfter DEF Lane
    <3>2. ToSet(inbox'[b]) \subseteq ToSet(inbox[b])
      BY <1>1, <2>3, TailElements
    <3> QED
      BY <1>3, <2>1, <2>3, <3>1, <3>2 DEF Lane
  <2> QED
    BY <1>2, <2>2, <2>3 DEF FrontStep
<1>5. CASE p = a
  <2>1. inbox'[b] = inbox[b]
    BY <1>2, <1>5
  <2>2. CASE outbox'[a] = outbox[a]
    BY <1>3, <2>1, <2>2 DEF Lane
  <2>3. ASSUME NEW m \in Mail(a), Says(a, m) PROVE Lane(a, b, X, Y)'
    <3>1. /\ outbox'[a] \in Seq(Mail(a)) /\ Grows(outbox[a], outbox'[a], m)
          /\ ToSet(outbox'[a]) = ToSet(outbox[a]) \union {m}
      BY <1>1, <2>3, AppendPlaces DEF Says
    <3>2. m \in X => Along(a, b) \cap Y = {}
      BY <1>5, <2>3
    <3>3. NotAfter(outbox'[a], X, Y)
      BY <1>1, <3>1, <3>2, GrownNotAfter DEF Lane, Along
    <3> QED
      BY <1>3, <2>1, <3>1, <3>2, <3>3 DEF Lane, Along
  <2> QED
    BY <1>5, <2>2, <2>3 DEF FrontStep
<1> QED
  BY <1>4, <1>5

\* A reader takes the head of the outbox, and it or nothing is then at hand; or it hands
\* on what it has recorded.
LEMMA RouteTakes ==
    ASSUME Types, NEW p \in Player, Route(p), NEW b \in Player, b # p
    PROVE  \/ /\ outbox'[p] = outbox[p]
              /\ Held(p)' \cap Forward(p, b) \subseteq Held(p)
           \/ /\ outbox[p] # <<>> /\ outbox'[p] = Tail(outbox[p])
              /\ Held(p) = {} /\ Held(p)' \cap Forward(p, b) \subseteq {Head(outbox[p])}
<1> DEFINE m == Head(outbox[p])
<1>1. ASSUME NEW o
      PROVE  /\ Carry(<<>>, "deliver") = {} /\ Carry(<<>>, "record") = {}
             /\ Carry(<<Deliver(o)>>, "deliver") = {o} /\ Carry(<<Deliver(o)>>, "record") = {}
             /\ Carry(<<Job("record", o, {})>>, "record") = {o}
             /\ Carry(<<Job("record", o, {})>>, "deliver") = {}
  BY JobCarries
<1>2. \A o, what : what \in {"decline", "unlink"} => Answer(o, what) \notin Forward(p, b)
  BY DEF Answer, Say, Forward
<1>3. ASSUME NEW kind, NEW jobs, Routes(p, kind, jobs)
      PROVE  /\ outbox[p] # <<>> /\ outbox'[p] = Tail(outbox[p]) /\ Held(p) = {}
             /\ Held(p)' = Carry(jobs, "deliver") \union Carry(jobs, "record")
  BY <1>1, <1>3 DEF Routes, Held, Carried, Recording
<1> HIDE DEF m
<1>4. ASSUME NEW kind, NEW jobs, Routes(p, kind, jobs),
             \/ jobs = <<>> \/ jobs = <<Job("record", m, {})>> \/ jobs = <<Deliver(m)>>
             \/ \E what \in {"decline", "unlink"} : jobs = <<Deliver(Answer(m, what))>>
      PROVE  /\ outbox[p] # <<>> /\ outbox'[p] = Tail(outbox[p]) /\ Held(p) = {}
             /\ Held(p)' \cap Forward(p, b) \subseteq {m}
  <2>1. /\ outbox[p] # <<>> /\ outbox'[p] = Tail(outbox[p]) /\ Held(p) = {}
        /\ Held(p)' = Carry(jobs, "deliver") \union Carry(jobs, "record")
    BY <1>3, <1>4
  <2>2. CASE jobs = <<>>
    BY <1>1, <2>1, <2>2
  <2>3. CASE jobs = <<Job("record", m, {})>> \/ jobs = <<Deliver(m)>>
    BY <1>1, <2>1, <2>3
  <2>4. ASSUME NEW what \in {"decline", "unlink"}, jobs = <<Deliver(Answer(m, what))>>
        PROVE  Held(p)' \cap Forward(p, b) = {}
    <3>1. Held(p)' = {Answer(m, what)}
      BY <1>1, <2>1, <2>4
    <3>2. Answer(m, what) \notin Forward(p, b)
      BY <1>2, <2>4
    <3> QED
      BY <3>1, <3>2
  <2> QED
    BY <1>4, <2>1, <2>2, <2>3, <2>4
<1>5. Wired
  BY DEF Types
<1>6. CASE RouteRequest(p)
  BY <1>4, <1>5, <1>6, RouteRequestDoes DEF m
<1>7. CASE RouteAccept(p)
  BY <1>4, <1>5, <1>7, RouteAcceptDoes DEF m
<1>8. CASE RouteDecline(p)
  BY <1>4, <1>5, <1>8, RouteDeclineDoes DEF m
<1>9. CASE RouteStart(p)
  BY <1>4, <1>5, <1>9, RouteStartDoes DEF m
<1>10. CASE RouteUnlink(p)
  BY <1>4, <1>5, <1>10, RouteUnlinkDoes DEF m
<1>11. CASE RecordRequest(p)
  <2>1. PICK o \in Mail(p) \cap Ask :
            /\ work[Reader(p)] = <<Job("record", o, {})>> /\ outbox'[p] = outbox[p]
            /\ \/ work'[Reader(p)] = <<Deliver(Answer(o, "decline"))>>
               \/ work'[Reader(p)] = <<Deliver(o)>>
    BY <1>11, RecordRequestDoes
  <2>2. Recording(p) = {o}
    BY <1>1, <2>1 DEF Recording
  <2>3. Held(p)' = {o} \/ Held(p)' = {Answer(o, "decline")}
    BY <1>1, <2>1 DEF Held, Carried, Recording
  <2>4. Held(p)' \cap Forward(p, b) \subseteq {o} /\ o \in Held(p)
    BY <1>2, <2>2, <2>3 DEF Held
  <2> QED
    BY <2>1, <2>4
<1> QED
  BY <1>6, <1>7, <1>8, <1>9, <1>10, <1>11 DEF Route, m

\* A reader keeps the order of a lane: it hands on from the front of it.
LEMMA LaneRoute ==
    ASSUME Types, NEW p \in Player, Route(p), NEW a \in Player, NEW b \in Player, a # b,
           NEW X \in SUBSET Forward(a, b), NEW Y \in SUBSET Forward(a, b), Lane(a, b, X, Y)
    PROVE  Lane(a, b, X, Y)'
<1>1. /\ inbox' = inbox
      /\ \A x \in Player : x # p => outbox'[x] = outbox[x] /\ Held(x)' = Held(x)
  BY RoutePasses DEF RouteMoves, Held
<1>2. CASE p # a
  BY <1>1, <1>2 DEF Lane
<1>3. CASE p = a /\ outbox'[a] = outbox[a] /\ Held(a)' \cap Forward(a, b) \subseteq Held(a)
  <2>1. Held(a)' \cap X \subseteq Held(a) /\ Held(a)' \cap Y \subseteq Held(a)
    BY <1>3
  <2>2. Held(a)' \cap X # {} => Held(a) \cap X # {}
    BY <2>1
  <2>3. ToSet(outbox[a]) \cap X # {} => (Held(a)' \union ToSet(inbox[b])) \cap Y = {}
    BY <2>1 DEF Lane
  <2> QED
    BY <1>1, <1>3, <2>2, <2>3 DEF Lane
<1>4. CASE /\ p = a /\ outbox[a] # <<>> /\ outbox'[a] = Tail(outbox[a])
           /\ Held(a) = {} /\ Held(a)' \cap Forward(a, b) \subseteq {Head(outbox[a])}
  <2>1. outbox[a] \in Seq(Mail(a))
    BY LaneIs
  <2>2. ToSet(outbox[a]) = {Head(outbox[a])} \union ToSet(Tail(outbox[a]))
    BY <1>4, <2>1, TailElements
  <2>3. /\ NotAfter(Tail(outbox[a]), X, Y)
        /\ Head(outbox[a]) \in Y => ToSet(Tail(outbox[a])) \cap X = {}
    BY <1>4, <2>1, TailNotAfter DEF Lane
  <2>4. \A o \in Held(a)' : o \in X \union Y => o = Head(outbox[a])
    BY <1>4
  <2>5. Held(a)' \cap X # {} => ToSet(inbox[b]) \cap Y = {}
    BY <2>2, <2>4 DEF Lane
  <2>6. ToSet(Tail(outbox[a])) \cap X # {} => (Held(a)' \union ToSet(inbox[b])) \cap Y = {}
    BY <2>2, <2>3, <2>4 DEF Lane
  <2> QED
    BY <1>1, <1>4, <2>3, <2>5, <2>6 DEF Lane
<1> QED
  BY <1>2, <1>3, <1>4, RouteTakes

\* So does a delivery, which goes in behind what is urgent.
LEMMA LaneDelivers ==
    ASSUME Types, NEW t \in Thread, NEW m, Delivers(t, m),
           NEW a \in Player, NEW b \in Player, a # b,
           NEW X \in SUBSET Forward(a, b), NEW Y \in SUBSET Forward(a, b), Lane(a, b, X, Y)
    PROVE  Lane(a, b, X, Y)'
<1>1. /\ inbox[b] \in Seq(News(b) \union {Left(c) : c \in closing})
      /\ Carried(a) # {} => Recording(a) = {}
  BY LaneIs
<1>2. \A o \in X \union Y : IsUrgent(o) /\ o.kind # "decline" /\ o.kind # "unlink" /\ o.from = a
  BY ForwardIs
<1>3. /\ outbox' = outbox
      /\ \/ inbox'[b] = inbox[b]
         \/ /\ inbox'[b] \in Seq(News(b) \union {Left(c) : c \in closing}) /\ Grows(inbox[b], inbox'[b], m)
            /\ ToSet(inbox'[b]) = ToSet(inbox[b]) \union {m}
  BY DEF Delivers
<1>4. /\ Held(a)' \subseteq Held(a)
      /\ m \in X \union Y => m \in Held(a) /\ Held(a)' = {}
  <2>1. \A c, q : Say("unlink", c, q, 0).kind = "unlink"
    BY DEF Say
  <2>2. /\ Recording(a)' = Recording(a) /\ Carried(a)' \subseteq Carried(a)
        /\ m.from = a /\ m.kind # "decline" /\ m.kind # "unlink" =>
             m \in Carried(a) /\ Carried(a)' = {}
    BY <2>1, DeliversCarries DEF Mail
  <2> QED
    BY <1>1, <1>2, <2>2 DEF Held
<1>5. CASE inbox'[b] = inbox[b]
  BY <1>3, <1>4, <1>5 DEF Lane
<1>6. CASE /\ inbox'[b] \in Seq(News(b) \union {Left(c) : c \in closing}) /\ Grows(inbox[b], inbox'[b], m)
           /\ ToSet(inbox'[b]) = ToSet(inbox[b]) \union {m}
  <2>1. NotAfter(inbox'[b], X, Y)
    BY <1>1, <1>4, <1>6, <1>2, GrownNotAfter DEF Lane
  <2>2. ToSet(outbox[a]) \cap X # {} => (Held(a)' \union ToSet(inbox'[b])) \cap Y = {}
    BY <1>4, <1>6 DEF Lane
  <2>3. Held(a)' \cap X # {} => ToSet(inbox'[b]) \cap Y = {}
    BY <1>4, <1>6 DEF Lane
  <2> QED
    BY <1>3, <2>1, <2>2, <2>3 DEF Lane
<1> QED
  BY <1>3, <1>5, <1>6

\* So does a close: it empties a queue, or puts in a farewell, which is on no lane.
LEMMA LaneClose ==
    ASSUME Types, CloseStep, NEW a \in Player, NEW b \in Player, a # b,
           NEW X \in SUBSET Forward(a, b), NEW Y \in SUBSET Forward(a, b), Lane(a, b, X, Y)
    PROVE  Lane(a, b, X, Y)'
<1>1. /\ inbox[b] \in Seq(News(b) \union {Left(c) : c \in closing})
      /\ \A o \in X \union Y : IsUrgent(o) /\ o.kind # "left"
  BY LaneIs, ForwardIs
<1>2. ToSet(<<>>) = {} /\ NotAfter(<<>>, X, Y)
  BY DEF ToSet, NotAfter
<1>3. /\ Held(a)' = Held(a)
      /\ outbox'[a] = outbox[a] \/ outbox'[a] = <<>>
  BY DEF CloseStep, Held, Carried, Recording
<1>4. NotAfter(outbox'[a], X, Y) /\ ToSet(outbox'[a]) \subseteq ToSet(outbox[a])
  BY <1>2, <1>3 DEF Lane
<1>5. NotAfter(inbox'[b], X, Y) /\ \A o \in X \union Y : o \in ToSet(inbox'[b]) => o \in ToSet(inbox[b])
  <2>1. CASE inbox'[b] = inbox[b] \/ inbox'[b] = <<>>
    BY <1>2, <2>1 DEF Lane
  <2>2. ASSUME NEW c \in closing, inbox'[b] = Append(inbox[b], Left(c))
        PROVE  NotAfter(inbox'[b], X, Y) /\ ToSet(inbox'[b]) = ToSet(inbox[b]) \union {Left(c)}
    <3>1. Left(c) \notin X \union Y
      BY <1>1 DEF Left, Say
    <3>2. /\ inbox'[b] \in Seq(News(b) \union {Left(d) : d \in closing})
          /\ Grows(inbox[b], inbox'[b], Left(c))
          /\ ToSet(inbox'[b]) = ToSet(inbox[b]) \union {Left(c)}
      BY <1>1, <2>2, AppendPlaces
    <3> QED
      BY <1>1, <3>1, <3>2, GrownNotAfter DEF Lane
  <2>3. \A c : Left(c) \notin X \union Y
    BY <1>1 DEF Left, Say
  <2> QED
    BY <2>1, <2>2, <2>3 DEF CloseStep
<1> QED
  BY <1>3, <1>4, <1>5 DEF Lane

\* Every other step is a frontend's.
LEMMA HostSteps ==
    ASSUME Types, Next
    PROVE  HostStep \/ \E p \in Player : Frontend(p)
<1>1. ASSUME NEW t \in Thread, Work(t) PROVE HostStep
  BY <1>1, DeliveringDoes, AnnounceTypes DEF Work, HostStep
<1>2. ASSUME NEW c \in Client, Close(c) PROVE HostStep
  BY <1>2, CloseTypes DEF HostStep
<1> QED
  BY <1>1, <1>2 DEF Next, HostStep

\* It keeps the order of a lane, brings nothing onto it, and no frontend moves.
LEMMA HostLanes ==
    ASSUME Types, HostStep, NEW a \in Player, NEW b \in Player, a # b
    PROVE  /\ \A X, Y \in SUBSET Forward(a, b) : Lane(a, b, X, Y) => Lane(a, b, X, Y)'
           /\ \A m \in Forward(a, b) : m \in Along(a, b)' => m \in Along(a, b)
           /\ link' = link /\ turn' \in turn..MaxTurns /\ closing \subseteq closing'
<1>1. ASSUME NEW X \in SUBSET Forward(a, b), NEW Y \in SUBSET Forward(a, b), Lane(a, b, X, Y)
      PROVE  Lane(a, b, X, Y)'
  BY <1>1, LaneRoute, LaneDelivers, LaneClose DEF HostStep
<1>2. \A m \in Forward(a, b) :
         m.from = a /\ m.to = b /\ m.kind # "decline" /\ m.kind # "unlink" /\ m.kind # "left"
  BY ForwardIs
<1>3. ASSUME NEW p \in Player, Route(p)
      PROVE  /\ \A m \in Forward(a, b) : m \in Along(a, b)' => m \in Along(a, b)
             /\ link' = link /\ turn' = turn /\ closing' = closing
  <2>1. /\ inbox' = inbox /\ link' = link /\ turn' = turn /\ closing' = closing
        /\ \A x \in Player : x # p => outbox'[x] = outbox[x] /\ Held(x)' = Held(x)
    BY <1>3, RoutePasses DEF RouteMoves, Held
  <2>2. \/ outbox'[a] = outbox[a] /\ Held(a)' \cap Forward(a, b) \subseteq Held(a)
        \/ /\ outbox[a] # <<>> /\ outbox'[a] = Tail(outbox[a])
           /\ Held(a)' \cap Forward(a, b) \subseteq {Head(outbox[a])}
    BY <1>3, <2>1, RouteTakes
  <2>3. outbox[a] # <<>> => ToSet(outbox[a]) = {Head(outbox[a])} \union ToSet(Tail(outbox[a]))
    <3>1. outbox[a] \in Seq(Mail(a))
      BY LaneIs
    <3> QED
      BY <3>1, TailElements
  <2> QED
    BY <2>1, <2>2, <2>3 DEF Along
<1>4. ASSUME NEW t \in Thread, NEW m, Delivers(t, m)
      PROVE  /\ \A o \in Forward(a, b) : o \in Along(a, b)' => o \in Along(a, b)
             /\ link' = link /\ turn' = turn /\ closing' = closing
  <2>1. \A c, q : Say("unlink", c, q, 0).kind = "unlink"
    BY DEF Say
  <2>2. /\ Recording(a)' = Recording(a) /\ Carried(a)' \subseteq Carried(a)
        /\ m.from = a /\ m.kind # "decline" /\ m.kind # "unlink" => m \in Carried(a)
    BY <1>4, <2>1, DeliversCarries DEF Mail
  <2>3. /\ outbox' = outbox /\ link' = link /\ turn' = turn /\ closing' = closing
        /\ inbox'[b] = inbox[b] \/ ToSet(inbox'[b]) = ToSet(inbox[b]) \union {m}
    BY <1>4 DEF Delivers, rosterVars, frontVars
  <2> QED
    BY <1>2, <2>2, <2>3 DEF Along, Held
<1>5. ASSUME CloseStep
      PROVE  /\ \A o \in Forward(a, b) : o \in Along(a, b)' => o \in Along(a, b)
             /\ link' = link /\ turn' \in turn..MaxTurns /\ closing \subseteq closing'
  <2>1. ToSet(<<>>) = {} /\ \A c : Left(c).kind = "left"
    BY DEF ToSet, Left, Say
  <2>2. /\ Held(a)' = Held(a) /\ ToSet(outbox'[a]) \subseteq ToSet(outbox[a])
        /\ \A o \in Forward(a, b) : o \in ToSet(inbox'[b]) => o \in ToSet(inbox[b])
    BY <1>2, <1>5, <2>1, CloseBoxes DEF Held
  <2> QED
    BY <1>5, <2>2 DEF Along, CloseStep
<1> QED
  BY <1>1, <1>3, <1>4, <1>5, TurnIn DEF HostStep

\* What is heard is not on the lane any more, nor is what may not be behind it.
LEMMA LaneHeard ==
    ASSUME Types, NEW a \in Player, NEW b \in Player, a # b, NEW X, NEW Y, Lane(a, b, X, Y),
           inbox[b] # <<>>, Head(inbox[b]) \in Y
    PROVE  /\ (ToSet(outbox[a]) \union Held(a) \union ToSet(Tail(inbox[b]))) \cap X = {}
           /\ Head(inbox[b]) \notin X => Along(a, b) \cap X = {}
<1>1. inbox[b] \in Seq(News(b) \union {Left(c) : c \in closing})
  BY LaneIs
<1>2. ToSet(inbox[b]) = {Head(inbox[b])} \union ToSet(Tail(inbox[b]))
  BY <1>1, TailElements
<1>3. ToSet(Tail(inbox[b])) \cap X = {}
  BY <1>1, TailNotAfter DEF Lane
<1>4. ToSet(outbox[a]) \cap X = {} /\ Held(a) \cap X = {}
  BY <1>2 DEF Lane
<1> QED
  BY <1>2, <1>3, <1>4 DEF Along

\* What goes forward between two players: a request, its accept, the starts.
LEMMA AlongIs ==
    ASSUME Types, NEW p \in Player, NEW q \in Player, p # q, NEW n \in 0..MaxTurns
    PROVE  /\ \A k \in {"request", "accept", "start"} : Say(k, p, q, n) \in Forward(p, q)
           /\ Flies(p, q, n) <=> Say("start", p, q, n) \in Along(p, q)
           /\ LET o == Say("request", q, p, n)
                  a == Say("accept", p, q, n)
              IN /\ o \in Ask /\ o.from = q /\ o.to = p /\ o.nonce = n
                 /\ Asked(o) <=> o \in Along(q, p) \/ link[p] = Phase("incoming", q, n)
                 /\ Told(o) <=> a \in Along(p, q) \/ Bound(q, p, n)
                 /\ Asked(o) \/ a \in Along(p, q) \/ <<q, p, n>> \in requests => Mentioned(o)
<1> DEFINE o == Say("request", q, p, n)
           a == Say("accept", p, q, n)
           s == Say("start", p, q, n)
<1>1. \A k \in {"request", "accept", "start"} :
        /\ Say(k, p, q, n) \in Mail(p) /\ Say(k, p, q, n).kind = k /\ Say(k, p, q, n).to = q
  BY MailSaid DEF UrgentKinds
<1>2. /\ o \in Ask /\ o.kind = "request" /\ o.from = q /\ o.to = p /\ o.nonce = n
      /\ Answer(o, "accept") = a
  <2>1. o \in Letter /\ o.kind = "request" /\ o.from = q /\ o.to = p /\ o.nonce = n
    BY MailSaid DEF UrgentKinds
  <2> QED
    BY <2>1 DEF Ask, Answer
<1>3. a \notin Recording(p) /\ s \notin Recording(p)
  BY <1>1, LaneIs
<1> HIDE DEF o, a, s
<1>4. Flies(p, q, n) <=> s \in Along(p, q)
  BY <1>3 DEF Flies, Along, Held, s
<1>5. Asked(o) <=> o \in Along(q, p) \/ link[p] = Phase("incoming", q, n)
  BY <1>2 DEF Asked, Waiting, Going, Along, Held
<1>6. Told(o) <=> a \in Along(p, q) \/ Bound(q, p, n)
  BY <1>2, <1>3 DEF Told, Along, Held
<1>7. Asked(o) \/ a \in Along(p, q) \/ <<q, p, n>> \in requests => Mentioned(o)
  BY <1>2, <1>3 DEF Asked, Going, Along, Held, Mentioned, Arrived, Answered
<1>8. \A k \in {"request", "accept", "start"} : Say(k, p, q, n) \in Forward(p, q)
  BY <1>1 DEF Forward
<1> QED
  BY <1>2, <1>4, <1>5, <1>6, <1>7, <1>8 DEF o, a, s

\* The start and the request alone, before a step and after it.
LEMMA StartIs ==
    ASSUME NEW p \in Player, NEW q \in Player, NEW n
    PROVE  /\ Flies(p, q, n) => Say("start", p, q, n) \in Along(p, q)
           /\ Flies(p, q, n)' => Say("start", p, q, n) \in Along(p, q)'
  BY DEF Flies, Along, Held

\* A request that is asked is on the lane or shown to the one it is for.
LEMMA RequestIs ==
    ASSUME NEW p \in Player, NEW q \in Player, NEW n
    PROVE  /\ Asked(Say("request", q, p, n)) <=>
                Say("request", q, p, n) \in Along(q, p) \/ link[p] = Phase("incoming", q, n)
           /\ Asked(Say("request", q, p, n))' <=>
                Say("request", q, p, n) \in Along(q, p)' \/ link'[p] = Phase("incoming", q, n)
<1> DEFINE o == Say("request", q, p, n)
<1>1. o.from = q /\ o.to = p /\ o.nonce = n
  BY DEF Say
<1> HIDE DEF o
<1>2. /\ Asked(o) <=> o \in Along(q, p) \/ link[p] = Phase("incoming", q, n)
      /\ Asked(o)' <=> o \in Along(q, p)' \/ link'[p] = Phase("incoming", q, n)
  BY <1>1 DEF Asked, Waiting, Going, Along, Held
<1> QED
  BY <1>2 DEF o

\* Requests, accepts and starts are what goes forward.
LEMMA OpeningIs ==
    ASSUME Types, NEW p \in Player, NEW q \in Player, p # q, NEW n \in 0..MaxTurns
    PROVE  /\ Say("request", p, q, n) \in Ask
           /\ Say("request", p, q, n).from = p /\ Say("request", p, q, n).to = q
           /\ Say("request", p, q, n).nonce = n
           /\ Say("request", p, q, n) \in Forward(p, q) /\ Say("accept", p, q, n) \in Forward(p, q)
           /\ Say("start", p, q, n) \in Forward(p, q)
           /\ Flies(p, q, n) <=> Say("start", p, q, n) \in Along(p, q)
<1>1. /\ Say("request", p, q, n) \in Letter /\ Say("request", p, q, n).kind = "request"
      /\ Say("request", p, q, n).from = p /\ Say("request", p, q, n).to = q
      /\ Say("request", p, q, n).nonce = n
  BY MailSaid DEF UrgentKinds
<1>2. Say("request", p, q, n) \in Ask
  BY <1>1 DEF Ask
<1> QED
  BY <1>1, <1>2, AlongIs

\* Two players do not ask each other with the same number, nor answer it.
LEMMA OneWay ==
    ASSUME Types, Numbers, NEW p \in Player, NEW q \in Player, p # q, NEW n \in 0..MaxTurns,
           \/ Asked(Say("request", q, p, n)) \/ Say("accept", p, q, n) \in Along(p, q)
           \/ <<q, p, n>> \in requests
    PROVE  /\ ~ Asked(Say("request", p, q, n)) /\ Say("accept", q, p, n) \notin Along(q, p)
           /\ <<p, q, n>> \notin requests /\ n \in 1..turn
<1> DEFINE o == Say("request", q, p, n)
           r == Say("request", p, q, n)
<1>1. o \in Ask /\ o.from = q /\ o.nonce = n /\ Mentioned(o)
  BY AlongIs
<1>2. /\ r \in Ask /\ r.from = p /\ r.nonce = n
      /\ Asked(r) \/ Say("accept", q, p, n) \in Along(q, p) \/ <<p, q, n>> \in requests => Mentioned(r)
  BY AlongIs
<1> HIDE DEF o, r
<1>3. ~ Mentioned(r)
  BY <1>1, <1>2 DEF Numbers, OneAsker
<1>4. n \in 1..turn
  BY <1>1 DEF Numbers, Numbered
<1> QED
  BY <1>2, <1>3, <1>4 DEF r

\* What an end has become, and by which step.
LEMMA EndBecomes ==
    ASSUME Types, NEW p \in Player, EndMoves(p), NEW q \in Player, NEW n,
           NEW x \in Phases \ {"none"}, link'[p] = Phase(x, q, n)
    PROVE  \/ link[p] = Phase(x, q, n)
           \/ /\ q # p /\ n \in 0..MaxTurns
              /\ \/ x = "requesting" /\ Asks(p, q) /\ n = turn + 1
                 \/ x = "incoming" /\ Shows(p, q, n)
                 \/ x = "holding" /\ (Accepts(p, q, n) \/ Agrees(p, q, n))
                 \/ x = "starting" /\ Stops(p, q, n)
                 \/ x = "plugged" /\ PlugsIn(p, q, n)
<1>1. \A y, z \in Phases : \A a, k, b, i : Phase(y, a, k) = Phase(z, b, i) => y = z /\ a = b /\ k = i
  BY DEF Phase
<1>2. link'[p] # NoLink
  BY PhaseIs, NoLinkIs DEF Phases
<1>3. CASE Ends(p)
  BY <1>2, <1>3 DEF Ends
<1>4. ASSUME NEW a \in Player \ {p}, Asks(p, a)
      PROVE  x = "requesting" /\ q = a /\ n = turn + 1 /\ n \in 0..MaxTurns
  <2>1. turn + 1 \in 0..MaxTurns
    BY <1>4, TurnIn DEF Asks
  <2>2. PICK k : k = turn + 1
    OBVIOUS
  <2>3. Phase(x, q, n) = Phase("requesting", a, k) /\ "requesting" \in Phases
    BY <1>4, <2>2 DEF Asks, Phases
  <2>4. x = "requesting" /\ q = a /\ n = k
    BY <1>1, <2>3
  <2> QED
    BY <2>1, <2>2, <2>4
<1>5. ASSUME NEW a \in Player \ {p}, NEW k \in 0..MaxTurns
      PROVE  /\ Shows(p, a, k) => x = "incoming" /\ q = a /\ n = k
             /\ Accepts(p, a, k) \/ Agrees(p, a, k) => x = "holding" /\ q = a /\ n = k
             /\ Stops(p, a, k) => x = "starting" /\ q = a /\ n = k
             /\ PlugsIn(p, a, k) => x = "plugged" /\ q = a /\ n = k
  BY <1>1 DEF Shows, Accepts, Agrees, Stops, PlugsIn, Moves, Phases
<1> QED
  BY <1>3, <1>4, <1>5 DEF EndMoves

\* What comes onto a lane is said by the one it comes from.
LEMMA EndAlong ==
    ASSUME Types, NEW p \in Player, FrontMoves(p), EndMoves(p),
           NEW a \in Player, NEW b \in Player, a # b, NEW m \in Forward(a, b), m \in Along(a, b)'
    PROVE  \/ m \in Along(a, b)
           \/ a = p /\ Asks(p, b) /\ m = Say("request", p, b, turn + 1)
           \/ a = p /\ \E n \in 0..MaxTurns : Accepts(p, b, n) /\ m = Say("accept", p, b, n)
           \/ a = p /\ \E n \in 0..MaxTurns : Stops(p, b, n) /\ m = Say("start", p, b, n)
<1>1. /\ \A x \in Player : Carried(x)' = Carried(x) /\ Recording(x)' = Recording(x)
      /\ ToSet(inbox'[p]) \subseteq ToSet(inbox[p])
      /\ \A x \in Player : x # p => outbox'[x] = outbox[x] /\ inbox'[x] = inbox[x]
  BY EndBoxes DEF FrontMoves
<1>2. m.kind # "decline" /\ m.kind # "unlink" /\ m.to = b
  BY ForwardIs
<1>3. CASE m \in Held(a)' \/ m \in ToSet(inbox'[b])
  BY <1>1, <1>3 DEF Along, Held
<1>4. CASE m \in ToSet(outbox'[a]) /\ a # p
  BY <1>1, <1>4 DEF Along
<1>5. CASE m \in ToSet(outbox'[a]) /\ a = p
  <2>1. \A k, q, n : Say(k, p, q, n).to = q
    BY DEF Say
  <2> QED
    BY <1>2, <1>5, <2>1, EndSays DEF Along
<1> QED
  BY <1>3, <1>4, <1>5 DEF Along

\* A frontend asks with a new number, and accepts what it was asked.
LEMMA SaysWhat ==
    ASSUME Types, NEW p \in Player, FrontStep(p), NEW b \in Player, NEW m \in Forward(p, b), Says(p, m)
    PROVE  /\ m.kind = "request" => m.nonce = turn + 1
           /\ m.kind = "accept" => link[p] = Phase("incoming", b, m.nonce)
<1>1. outbox[p] \in Seq(Mail(p)) /\ m.to = b /\ m \in Mail(p)
  BY ForwardIs DEF Types, Wired, OutTyped
<1>2. /\ Append(outbox[p], m) # outbox[p]
      /\ \A o \in Mail(p) : Append(outbox[p], o) = Append(outbox[p], m) => o = m
  <2> DEFINE B == outbox[p]
  <2>1. B \in Seq(Mail(p))
    BY <1>1
  <2> HIDE DEF B
  <2>2. \A o \in Mail(p) : Len(Append(B, o)) = Len(B) + 1 /\ Append(B, o)[Len(B) + 1] = o /\ Len(B) \in Nat
    BY <2>1
  <2>3. Len(Append(B, m)) # Len(B)
    BY <1>1, <2>2
  <2> QED
    BY <1>1, <2>2, <2>3 DEF B
<1> QED
  BY <1>1, <1>2 DEF FrontStep, Says

\* The host's steps and the closers' keep all of them.
LEMMA HostBound ==
    ASSUME Types, Types', HostStep, NEW a \in Player, NEW b \in Player, a # b, NEW n \in 0..MaxTurns
    PROVE  /\ Flies(a, b, n)' => Flies(a, b, n)
           /\ Bound(a, b, n)' => Bound(a, b, n)
           /\ Asked(Say("request", b, a, n))' => Asked(Say("request", b, a, n))
<1>1. Say("start", a, b, n) \in Forward(a, b) /\ Say("request", b, a, n) \in Forward(b, a)
  BY OpeningIs
<1>2. /\ Flies(a, b, n) <=> Say("start", a, b, n) \in Along(a, b)
      /\ Flies(a, b, n)' => Say("start", a, b, n) \in Along(a, b)'
  BY StartIs, OpeningIs
<1>4. /\ Asked(Say("request", b, a, n)) <=>
            Say("request", b, a, n) \in Along(b, a) \/ link[a] = Phase("incoming", b, n)
      /\ Asked(Say("request", b, a, n))' <=>
            Say("request", b, a, n) \in Along(b, a)' \/ link'[a] = Phase("incoming", b, n)
  BY RequestIs
<1>3. /\ \A m \in Forward(a, b) : m \in Along(a, b)' => m \in Along(a, b)
      /\ \A m \in Forward(b, a) : m \in Along(b, a)' => m \in Along(b, a)
      /\ link' = link
  BY HostLanes
<1> QED
  BY <1>1, <1>2, <1>3, <1>4 DEF Bound

LEMMA HostLanesKept ==
    ASSUME Types, Types', Lanes, HostStep
    PROVE  Lanes'
<1> SUFFICES ASSUME NEW a \in Player, NEW b \in Player, NEW n \in 0..MaxTurns, a # b
             PROVE  LET m == Say("accept", a, b, n)
                        s == Say("start", a, b, n)
                    IN /\ Lane(a, b, {m}, {m})' /\ Lane(a, b, {m}, {s})'
                       /\ m \in Along(a, b)' =>
                            ~ Bound(b, a, n)' /\ link'[a] # Phase("plugged", b, n)
                       /\ Asked(Say("request", b, a, n))' => ~ Bound(a, b, n)'
                       /\ Flies(a, b, n)' => link'[a] # Phase("holding", b, n)
  BY DEF Lanes, OneAccept, AcceptFirst, Unheard, Unstarted, Unheld
<1> DEFINE m == Say("accept", a, b, n)
           s == Say("start", a, b, n)
<1>1. m \in Forward(a, b) /\ s \in Forward(a, b)
  BY AlongIs
<1>2. Lane(a, b, {m}, {m}) /\ Lane(a, b, {m}, {s})
  BY DEF Lanes, OneAccept, AcceptFirst
<1>3. /\ m \in Along(a, b) => ~ Bound(b, a, n) /\ link[a] # Phase("plugged", b, n)
      /\ Asked(Say("request", b, a, n)) => ~ Bound(a, b, n)
      /\ Flies(a, b, n) => link[a] # Phase("holding", b, n)
  BY DEF Lanes, Unheard, Unstarted, Unheld
<1>4. /\ Flies(a, b, n)' => Flies(a, b, n)
      /\ Bound(a, b, n)' => Bound(a, b, n)
      /\ Bound(b, a, n)' => Bound(b, a, n)
      /\ Asked(Say("request", b, a, n))' => Asked(Say("request", b, a, n))
  BY HostBound
<1> HIDE DEF m, s
<1>5. /\ {m} \in SUBSET Forward(a, b) /\ {s} \in SUBSET Forward(a, b)
  BY <1>1
<1>6. /\ \A X, Y \in SUBSET Forward(a, b) : Lane(a, b, X, Y) => Lane(a, b, X, Y)'
      /\ \A o \in Forward(a, b) : o \in Along(a, b)' => o \in Along(a, b)
      /\ link' = link
  BY HostLanes
<1>7. Lane(a, b, {m}, {m})' /\ Lane(a, b, {m}, {s})'
  BY <1>2, <1>5, <1>6
<1> QED
  BY <1>1, <1>3, <1>4, <1>6, <1>7 DEF m, s

\* So do the frontends': what a player accepts is asked and untold.
LEMMA FrontLanesKept ==
    ASSUME Types, Numbers, Attempts, Lanes, NEW p \in Player, FrontStep(p), EndMoves(p)
    PROVE  Lanes'
<1> SUFFICES ASSUME NEW a \in Player, NEW b \in Player, NEW n \in 0..MaxTurns, a # b
             PROVE  LET m == Say("accept", a, b, n)
                        s == Say("start", a, b, n)
                    IN /\ Lane(a, b, {m}, {m})' /\ Lane(a, b, {m}, {s})'
                       /\ m \in Along(a, b)' =>
                            ~ Bound(b, a, n)' /\ link'[a] # Phase("plugged", b, n)
                       /\ Asked(Say("request", b, a, n))' => ~ Bound(a, b, n)'
                       /\ Flies(a, b, n)' => link'[a] # Phase("holding", b, n)
  BY DEF Lanes, OneAccept, AcceptFirst, Unheard, Unstarted, Unheld
<1> DEFINE m == Say("accept", a, b, n)
           s == Say("start", a, b, n)
           o == Say("request", b, a, n)
<1>1. /\ m \in Forward(a, b) /\ s \in Forward(a, b) /\ FrontMoves(p)
      /\ m.kind = "accept" /\ m.nonce = n /\ m.from = a
      /\ Flies(a, b, n) <=> s \in Along(a, b)
      /\ o \in Ask /\ o.from = b /\ o.to = a /\ o.nonce = n
      /\ Asked(o) <=> o \in Along(b, a) \/ link[a] = Phase("incoming", b, n)
      /\ Told(o) <=> m \in Along(a, b) \/ Bound(b, a, n)
  <2>1. /\ m \in Forward(a, b) /\ s \in Forward(a, b) /\ FrontMoves(p)
        /\ m.kind = "accept" /\ m.nonce = n /\ m.from = a
        /\ Flies(a, b, n) <=> s \in Along(a, b)
    BY OpeningIs DEF Say, FrontStep
  <2>2. o \in Ask /\ o.from = b /\ o.to = a /\ o.nonce = n
    BY OpeningIs
  <2>3. Asked(o) <=> o \in Along(b, a) \/ link[a] = Phase("incoming", b, n)
    BY RequestIs
  <2>4. Told(o) <=> m \in Along(a, b) \/ Bound(b, a, n)
    BY AlongIs
  <2> QED
    BY <2>1, <2>2, <2>3, <2>4
<1>2. Lane(a, b, {m}, {m}) /\ Lane(a, b, {m}, {s})
  BY DEF Lanes, OneAccept, AcceptFirst
<1>3. /\ m \in Along(a, b) => ~ Bound(b, a, n) /\ link[a] # Phase("plugged", b, n)
      /\ Asked(o) => ~ Bound(a, b, n)
      /\ Flies(a, b, n) => link[a] # Phase("holding", b, n)
      /\ Say("accept", b, a, n) \in Along(b, a) => ~ Bound(a, b, n)
  BY DEF Lanes, Unheard, Unstarted, Unheld
<1>4. Asked(o) => m \notin Along(a, b) /\ ~ Bound(b, a, n)
  BY <1>1 DEF Attempts, Untold
<1>5. /\ \A x \in Player : x # p =>
            outbox'[x] = outbox[x] /\ inbox'[x] = inbox[x] /\ link'[x] = link[x]
      /\ \A x \in Player : Held(x)' = Held(x)
  BY <1>1 DEF FrontMoves, Held, Carried, Recording
<1> HIDE DEF m, s, o
<1>6. Lane(a, b, {m}, {m})' /\ Lane(a, b, {m}, {s})'
  <2>1. {m} \in SUBSET Forward(a, b) /\ {s} \in SUBSET Forward(a, b)
    BY <1>1
  <2>2. p = a /\ Says(p, m) => Asked(o)
    BY <1>1, SaysWhat
  <2>3. p = a /\ Says(p, m) => m \notin Along(a, b) /\ s \notin Along(a, b)
    BY <1>1, <1>3, <1>4, <2>2 DEF Bound
  <2> QED
    BY <1>2, <2>1, <2>3, LaneFront
<1>7. ASSUME m \in Along(a, b)'
      PROVE  ~ Bound(b, a, n)' /\ link'[a] # Phase("plugged", b, n)
  <2>1. m \in Along(a, b) \/ (a = p /\ Accepts(p, b, n))
    <3>1. \A q, i : /\ m = Say("accept", p, q, i) => i = n
                    /\ m # Say("request", p, q, i) /\ m # Say("start", p, q, i)
      BY DEF m, Say
    <3> QED
      BY <1>1, <1>7, <3>1, EndAlong
  <2>2. CASE a = p /\ Accepts(p, b, n)
    <3>1. link[p] = Phase("incoming", b, n) /\ link'[p] = Phase("holding", b, n)
      BY <2>2 DEF Accepts, Moves
    <3>2. ~ Bound(b, a, n)
      BY <1>1, <1>4, <2>2, <3>1
    <3>3. ~ Bound(b, a, n)'
      BY <1>1, <2>2, <3>2, EndBound
    <3>4. Phase("holding", b, n) # Phase("plugged", b, n)
      BY DEF Phase
    <3> QED
      BY <2>2, <3>1, <3>3, <3>4
  <2>3. CASE m \in Along(a, b)
    <3>1. ~ Bound(b, a, n) /\ link[a] # Phase("plugged", b, n)
      BY <1>3, <2>3
    <3>2. ASSUME b = p, Agrees(p, a, n) PROVE FALSE
      <4>1. inbox[b] # <<>> /\ Head(inbox[b]) = m /\ inbox'[b] = Tail(inbox[b])
        BY <3>2 DEF Agrees, HearsOf, m
      <4>2. m \notin ToSet(outbox[a]) \union Held(a) \union ToSet(inbox'[b])
        BY <1>2, <4>1, LaneHeard
      <4>3. a # p
        BY <3>2
      <4> QED
        BY <1>5, <1>7, <4>2, <4>3 DEF Along
    <3>3. ASSUME b = p, Accepts(p, a, n) PROVE FALSE
      <4>1. link[b] = Phase("incoming", a, n)
        BY <3>3 DEF Accepts, Moves
      <4>2. Asked(Say("request", a, b, n))
        BY <4>1, AlongIs
      <4> QED
        BY <2>3, <4>2, OneWay DEF m
    <3>4. ~ Bound(b, a, n)'
      BY <1>1, <3>1, <3>2, <3>3, EndBound
    <3>5. ASSUME link'[a] = Phase("plugged", b, n) PROVE FALSE
      <4>1. a = p /\ PlugsIn(p, b, n)
        BY <1>5, <3>1, <3>5, EndBecomes DEF Phases
      <4>2. Say("start", b, a, n) \in ToSet(inbox[a])
        BY <1>1, <4>1, EndBoxes DEF PlugsIn, HearsOf
      <4> QED
        BY <3>1, <4>2 DEF Bound, Flies
    <3> QED
      BY <3>4, <3>5
  <2> QED
    BY <2>1, <2>2, <2>3
<1>8. ASSUME Asked(o)', Bound(a, b, n)' PROVE FALSE
  <2>1. Asked(o) \/ (n = turn + 1 /\ b = p)
    BY <1>1, <1>8, FrontAsked
  <2>2. CASE Asked(o)
    <3>1. ~ Bound(a, b, n) /\ Say("accept", b, a, n) \notin Along(b, a)
      BY <1>3, <2>2, OneWay DEF o
    <3>2. Say("accept", b, a, n) \notin ToSet(inbox[a])
      BY <3>1 DEF Along
    <3>3. a = p /\ Accepts(p, b, n)
      BY <1>1, <1>8, <3>1, <3>2, EndBound
    <3>4. ~ Asked(o)'
      BY <1>1, <3>3, Accepting DEF Attempts, o
    <3> QED
      BY <1>8, <3>4
  <2>3. CASE n = turn + 1 /\ b = p
    <3>1. Bound(a, b, n)
      BY <1>1, <1>8, <2>3, EndBound
    <3>2. n <= turn
      BY <3>1 DEF Attempts, Dated
    <3> QED
      BY <2>3, <3>2, TurnIn
  <2> QED
    BY <2>1, <2>2, <2>3
<1>9. ASSUME Flies(a, b, n)', link'[a] = Phase("holding", b, n) PROVE FALSE
  <2>1. CASE a # p
    <3>1. Flies(a, b, n)
      <4>1. ToSet(inbox'[b]) \subseteq ToSet(inbox[b])
        BY <1>1, <1>5, EndBoxes
      <4> QED
        BY <1>1, <1>5, <1>9, <2>1, <4>1, EndBoxes DEF Flies
    <3> QED
      BY <1>3, <1>5, <1>9, <2>1, <3>1
  <2>2. CASE a = p
    <3>1. Phase("holding", b, n) # Phase("starting", b, n)
      BY DEF Phase
    <3>2. ~ Stops(p, b, n)
      BY <1>9, <2>2, <3>1 DEF Stops, Moves
    <3>3. s \in Along(a, b)
      <4>1. \A q, i : /\ s = Say("start", p, q, i) => i = n
                      /\ s # Say("request", p, q, i) /\ s # Say("accept", p, q, i)
        BY DEF s, Say
      <4>2. s \in Along(a, b)'
        BY <1>9 DEF Flies, Along, Held, s
      <4> QED
        BY <1>1, <3>2, <4>1, <4>2, EndAlong
    <3>4. Bound(a, b, n) /\ link[a] # Phase("holding", b, n)
      BY <1>1, <1>3, <3>3 DEF Bound
    <3>5. Accepts(p, b, n) \/ Agrees(p, b, n)
      BY <1>9, <2>2, <3>4, EndBecomes DEF Phases
    <3>6. CASE Accepts(p, b, n)
      BY <1>1, <1>3, <2>2, <3>4, <3>6 DEF Accepts, Moves
    <3>7. CASE Agrees(p, b, n)
      <4>1. Say("accept", b, a, n) \in Along(b, a)
        BY <1>1, <2>2, <3>7, EndBoxes DEF Agrees, HearsOf, Along
      <4> QED
        BY <1>3, <3>4, <4>1
    <3> QED
      BY <3>5, <3>6, <3>7
  <2> QED
    BY <2>1, <2>2
<1> QED
  BY <1>6, <1>7, <1>8, <1>9 DEF m, s, o

\* Nothing travels at first, and every step keeps the lanes.
LEMMA LanesInit == Init => Lanes
<1> SUFFICES ASSUME Init PROVE Lanes
  OBVIOUS
<1>1. /\ work = [t \in Thread |-> <<>>]
      /\ outbox = [p \in Player |-> <<>>] /\ inbox = [p \in Player |-> <<>>]
      /\ link = [p \in Player |-> NoLink]
  BY DEF Init
<1>2. ToSet(<<>>) = {} /\ \A X, Y : NotAfter(<<>>, X, Y)
  BY DEF ToSet, NotAfter
<1>3. \A x \in Player : /\ Carried(x) = {} /\ Recording(x) = {}
                        /\ outbox[x] = <<>> /\ inbox[x] = <<>> /\ link[x] = NoLink
  BY <1>1, Threads, CarryIs DEF Carried, Recording
<1>4. \A a, b \in Player : \A X, Y : Lane(a, b, X, Y)
  BY <1>2, <1>3 DEF Lane, Held
<1>5. \A a, b \in Player : Along(a, b) = {}
  BY <1>2, <1>3 DEF Along, Held
<1>6. \A a, b \in Player, n \in 0..MaxTurns : ~ Bound(a, b, n) /\ ~ Flies(a, b, n)
  BY <1>2, <1>3, NoLinkIs DEF Bound, Flies, Tied
<1> QED
  BY <1>4, <1>5, <1>6 DEF Lanes, OneAccept, AcceptFirst, Unheard, Unstarted, Unheld

LEMMA LanesKept == Types /\ Numbers /\ Attempts /\ Lanes /\ [Next]_vars => Lanes'
<1> SUFFICES ASSUME Types, Numbers, Attempts, Lanes, [Next]_vars PROVE Lanes'
  OBVIOUS
<1>1. CASE UNCHANGED vars
  <2>1. /\ UNCHANGED <<work, outbox, inbox, link>>
    BY <1>1 DEF vars, rosterVars, frontVars
  <2> QED
    BY <2>1 DEF Lanes, OneAccept, AcceptFirst, Unheard, Unstarted, Unheld, Lane, NotAfter,
                Along, Held, Bound, Flies, Asked, Waiting, Going, Carried, Recording
<1>2. CASE Next
  <2>1. Types'
    BY TypesKept
  <2>2. CASE HostStep
    BY <2>1, <2>2, HostLanesKept
  <2>3. ASSUME NEW p \in Player, Frontend(p) PROVE Lanes'
    BY <2>3, FrontSteps, EndSteps, FrontLanesKept
  <2> QED
    BY <1>2, <2>2, <2>3, HostSteps
<1> QED
  BY <1>1, <1>2

-----------------------------------------------------------------------------
(* Earlier attempts.                                                       *)

\* A frontend says one thing in a step.
LEMMA SaysOne ==
    ASSUME Types, NEW p \in Player, NEW m \in Mail(p), Says(p, m)
    PROVE  /\ outbox'[p] # outbox[p]
           /\ \A o \in Mail(p) : Says(p, o) => o = m
<1> DEFINE B == outbox[p]
<1>1. B \in Seq(Mail(p))
  BY DEF Types, Wired, OutTyped
<1> HIDE DEF B
<1>2. \A o \in Mail(p) : Len(Append(B, o)) = Len(B) + 1 /\ Append(B, o)[Len(B) + 1] = o /\ Len(B) \in Nat
  BY <1>1
<1>3. Append(B, m) # B /\ \A o \in Mail(p) : Append(B, o) = Append(B, m) => o = m
  <2>1. Len(Append(B, m)) # Len(B)
    BY <1>2
  <2> QED
    BY <1>2, <2>1
<1> QED
  BY <1>3 DEF Says, B

\* What a frontend opens is the attempt its end is then in for.
LEMMA OpeningSaid ==
    ASSUME Types, NEW p \in Player, FrontStep(p), EndMoves(p), NEW q \in Player, p # q,
           NEW m \in Opening(p, q), Says(p, m)
    PROVE  link'[p].nonce = m.nonce
<1>1. m \in Mail(p) /\ m.kind \in {"request", "accept"} /\ m.to = q
  BY DEF Opening, Forward
<1>2. outbox'[p] # outbox[p] /\ \A o \in Mail(p) : Says(p, o) => o = m
  BY <1>1, SaysOne
<1>3. \A kind \in UrgentKinds, b \in Player \ {p}, n \in 0..MaxTurns :
        /\ Say(kind, p, b, n) \in Mail(p) /\ Say(kind, p, b, n).kind = kind
        /\ Say(kind, p, b, n).nonce = n
  BY MailSaid
<1>4. ~ Ends(p)
  <2>1. \A kind \in {"decline", "unlink"}, b \in Player \ {p}, n \in 0..MaxTurns :
            ~ Says(p, Say(kind, p, b, n))
    BY <1>1, <1>2, <1>3 DEF UrgentKinds
  <2> QED
    BY <1>2, <2>1 DEF Ends
<1>5. ASSUME NEW b \in Player \ {p}, Asks(p, b) PROVE link'[p].nonce = m.nonce
  <2>1. turn + 1 \in 0..MaxTurns
    BY <1>5, TurnIn DEF Asks
  <2>2. m = Say("request", p, b, turn + 1)
    BY <1>2, <1>3, <1>5, <2>1 DEF Asks, UrgentKinds
  <2> QED
    BY <1>5, <2>2 DEF Asks, Phase, Say
<1>6. ASSUME NEW b \in Player \ {p}, NEW n \in 0..MaxTurns, Accepts(p, b, n)
      PROVE  link'[p].nonce = m.nonce
  <2>1. m = Say("accept", p, b, n)
    BY <1>2, <1>3, <1>6 DEF Accepts, Speaks, UrgentKinds
  <2> QED
    BY <1>6, <2>1 DEF Accepts, Moves, Phase, Say
<1>7. ASSUME NEW b \in Player \ {p}, NEW n \in 0..MaxTurns PROVE ~ Stops(p, b, n)
  <2>1. ~ Says(p, Say("start", p, b, n))
    BY <1>1, <1>2, <1>3 DEF UrgentKinds
  <2> QED
    BY <2>1 DEF Stops, Speaks
<1>8. \A b \in Player \ {p}, n \in 0..MaxTurns :
        ~ Shows(p, b, n) /\ ~ Agrees(p, b, n) /\ ~ PlugsIn(p, b, n)
  BY <1>2 DEF Shows, Agrees, PlugsIn, HearsOf
<1> QED
  BY <1>4, <1>5, <1>6, <1>7, <1>8 DEF EndMoves

\* The end of a player that is in for an attempt.
LEMMA AtIs ==
    ASSUME Types, NEW p \in Player, NEW q \in Player, At(p, q)
    PROVE  /\ link[p] = Phase(link[p].phase, q, link[p].nonce)
           /\ link[p].nonce \in 0..MaxTurns /\ link[p].phase \in Phases \ {"none"} /\ p # q
<1>1. link[p] # NoLink
  BY NoLinkIs DEF At
<1> QED
  BY <1>1, EndIs DEF At

\* Whoever is in for an attempt was so before, or has asked, or has accepted.
LEMMA AtWas ==
    ASSUME Types, Types', NEW p \in Player, EndMoves(p), NEW q \in Player, At(p, q)'
    PROVE  \/ At(p, q) /\ link'[p].nonce = link[p].nonce
           \/ Asks(p, q) /\ link'[p].nonce = turn + 1 /\ link'[p].phase = "requesting"
           \/ \E n \in 0..MaxTurns :
                Accepts(p, q, n) /\ link'[p].nonce = n /\ link'[p].phase = "holding"
<1>1. ASSUME Types, At(p, q)
      PROVE  /\ link[p] = Phase(link[p].phase, q, link[p].nonce)
             /\ link[p].phase \in Phases \ {"none"}
  BY <1>1, AtIs
<1>2. /\ link'[p] = Phase(link'[p].phase, q, link'[p].nonce)
      /\ link'[p].phase \in Phases \ {"none"}
  <2>1. link'[p] # NoLink /\ FrontTyped(p)'
    BY NoLinkIs DEF At, Types, Wired
  <2>2. link'[p] \in [phase : Phases \ {"none"}, peer : Player, nonce : 0..MaxTurns]
    BY <2>1 DEF FrontTyped, Linking
  <2>3. link'[p] = [phase |-> link'[p].phase, peer |-> link'[p].peer, nonce |-> link'[p].nonce]
    BY <2>2
  <2> QED
    BY <2>2, <2>3 DEF Phase, At
<1> DEFINE x == link'[p].phase
           n == link'[p].nonce
<1>3. PICK y, k : y = x /\ k = n
  OBVIOUS
<1>4. y \in Phases \ {"none"} /\ link'[p] = Phase(y, q, k) /\ y # "incoming"
  BY <1>2, <1>3 DEF At
<1>5. \/ link[p] = Phase(y, q, k)
      \/ /\ q # p /\ k \in 0..MaxTurns
         /\ \/ y = "requesting" /\ Asks(p, q) /\ k = turn + 1
            \/ y = "incoming" /\ Shows(p, q, k)
            \/ y = "holding" /\ (Accepts(p, q, k) \/ Agrees(p, q, k))
            \/ y = "starting" /\ Stops(p, q, k)
            \/ y = "plugged" /\ PlugsIn(p, q, k)
  BY <1>4, EndBecomes
<1>6. \A z \in Phases : \A b, i : Phase(z, b, i).phase = z /\ Phase(z, b, i).peer = b /\ Phase(z, b, i).nonce = i
  BY DEF Phase
<1>7. CASE link[p] = Phase(y, q, k)
  BY <1>3, <1>4, <1>6, <1>7 DEF At
<1>8. CASE Agrees(p, q, k) \/ Stops(p, q, k) \/ PlugsIn(p, q, k)
  <2>1. link[p].peer = q /\ link[p].nonce = k /\ link[p].phase \in {"requesting", "holding", "starting"}
    BY <1>6, <1>8 DEF Agrees, Stops, PlugsIn, Moves, Phases
  <2> QED
    BY <1>3, <2>1 DEF At
<1> QED
  BY <1>3, <1>4, <1>5, <1>7, <1>8

\* What opens an attempt is a request or an accept.
LEMMA OpeningAlong ==
    ASSUME Types, NEW p \in Player, NEW q \in Player, p # q, NEW n \in 0..MaxTurns
    PROVE  /\ Old(p, q, n) \in SUBSET Forward(p, q) /\ New(p, q, n) \in SUBSET Forward(p, q)
           /\ Old(p, q, n) \cap New(p, q, n) = {}
           /\ \A k \in 0..MaxTurns, kind \in {"request", "accept"} :
                Say(kind, p, q, k) \in IF k = n THEN New(p, q, n) ELSE Old(p, q, n)
           /\ \A m \in Opening(p, q) :
                /\ m.nonce \in 0..MaxTurns
                /\ m = Say("request", p, q, m.nonce) \/ m = Say("accept", p, q, m.nonce)
<1>1. ASSUME NEW k \in 0..MaxTurns, NEW kind \in {"request", "accept"}
      PROVE  Say(kind, p, q, k) \in Opening(p, q) /\ Say(kind, p, q, k).nonce = k
  BY OpeningIs DEF Opening, Say
<1>2. ASSUME NEW m \in Opening(p, q)
      PROVE  /\ m.nonce \in 0..MaxTurns
             /\ m = Say("request", p, q, m.nonce) \/ m = Say("accept", p, q, m.nonce)
  <2>1. /\ m \in [kind : UrgentKinds, from : Player, to : Player, nonce : 0..MaxTurns]
        /\ m.kind \in {"request", "accept"} /\ m.from = p /\ m.to = q
    BY DEF Opening, Forward, Mail, Letter
  <2>2. m = [kind |-> m.kind, from |-> m.from, to |-> m.to, nonce |-> m.nonce]
    BY <2>1
  <2> QED
    BY <2>1, <2>2 DEF Say
<1> QED
  BY <1>1, <1>2 DEF Old, New, Opening

\* Whoever goes in for an attempt has said nothing of it before, and the other is not in.
LEMMA NewFree ==
    ASSUME Types, Numbers, Attempts, NEW p \in Player, FrontMoves(p), EndMoves(p),
           NEW q \in Player, p # q, NEW n \in 0..MaxTurns, (Asks(p, q) /\ n = turn + 1) \/ Accepts(p, q, n)
    PROVE  /\ Along(p, q) \cap New(p, q, n) = {}
           /\ ~ Bound(q, p, n) /\ link[q] # Phase("incoming", p, n)
<1>1. CASE Asks(p, q) /\ n = turn + 1
  <2>1. n \notin 1..turn /\ ~ n <= turn
    BY <1>1, TurnIn
  <2>2. ~ Asked(Say("request", p, q, n)) /\ Say("accept", p, q, n) \notin Along(p, q)
    BY <2>1, OneWay
  <2>3. Say("request", p, q, n) \notin Along(p, q) /\ link[q] # Phase("incoming", p, n)
    BY <2>2, RequestIs
  <2>4. ~ Bound(q, p, n)
    BY <2>1 DEF Attempts, Dated
  <2> QED
    BY <2>2, <2>3, <2>4, OpeningAlong DEF New
<1>2. CASE Accepts(p, q, n)
  <2>1. Asked(Say("request", q, p, n))
    BY <1>2, Accepting DEF Attempts
  <2>2. ~ Asked(Say("request", p, q, n))
    BY <2>1, OneWay
  <2>3. Say("request", p, q, n) \notin Along(p, q) /\ link[q] # Phase("incoming", p, n)
    BY <2>2, RequestIs
  <2>4. ~ Told(Say("request", q, p, n))
    BY <2>1, OpeningIs DEF Attempts, Untold
  <2>5. Say("accept", p, q, n) \notin Along(p, q) /\ ~ Bound(q, p, n)
    BY <2>4, AlongIs
  <2> QED
    BY <2>3, <2>5, OpeningAlong DEF New
<1> QED
  BY <1>1, <1>2

\* Nothing is behind what is not there.
LEMMA LaneFree ==
    ASSUME NEW a, NEW b, NEW X, NEW Y, Along(a, b) \cap Y = {}
    PROVE  Lane(a, b, X, Y)
BY DEF Lane, Along, NotAfter, ToSet

\* What a frontend opens is of the attempt it is then in for, so nothing older comes behind.
LEMMA FrontLined ==
    ASSUME Types, Types', Numbers, Attempts, Lined, NEW p \in Player, FrontStep(p), EndMoves(p)
    PROVE  Lined'
<1> SUFFICES ASSUME NEW a \in Player, NEW b \in Player, a # b, At(a, b)'
             PROVE  Lane(a, b, Old(a, b, link[a].nonce), New(a, b, link[a].nonce))'
  BY DEF Lined
<1>1. PICK n : n = link'[a].nonce
  OBVIOUS
<1>2. FrontMoves(p)
  BY DEF FrontStep
<1>3. /\ n \in 0..MaxTurns
      /\ Lane(a, b, Old(a, b, n), New(a, b, n))
  <2>1. CASE a # p
    <3>1. link'[a] = link[a]
      BY <1>2, <2>1 DEF FrontMoves
    <3>2. At(a, b)
      BY <3>1 DEF At
    <3> QED
      BY <1>1, <3>1, <3>2, AtIs DEF Lined
  <2>2. CASE a = p /\ At(p, b) /\ n = link[p].nonce
    BY <2>2, AtIs DEF Lined
  <2>3. CASE a = p /\ ((Asks(p, b) /\ n = turn + 1) \/ \E k \in 0..MaxTurns : Accepts(p, b, k) /\ n = k)
    <3>1. n \in 0..MaxTurns
      BY <2>3, TurnIn DEF Asks
    <3> QED
      BY <1>2, <2>3, <3>1, NewFree, LaneFree
  <2> QED
    BY <1>1, <2>1, <2>2, <2>3, AtWas
<1>4. \A m \in Old(a, b, n) : ~ (p = a /\ Says(p, m))
  BY <1>1, OpeningSaid DEF Old
<1>5. Old(a, b, n) \in SUBSET Forward(a, b) /\ New(a, b, n) \in SUBSET Forward(a, b)
  BY <1>3, OpeningAlong
<1>6. Lane(a, b, Old(a, b, n), New(a, b, n))'
  BY <1>3, <1>4, <1>5, LaneFront
<1> QED
  BY <1>1, <1>6

\* So every step keeps what opens an attempt in line.
LEMMA LinedKept == Types /\ Numbers /\ Attempts /\ Lined /\ [Next]_vars => Lined'
<1> SUFFICES ASSUME Types, Numbers, Attempts, Lined, [Next]_vars PROVE Lined'
  OBVIOUS
<1>1. CASE UNCHANGED vars
  <2>1. UNCHANGED <<work, outbox, inbox, link>>
    BY <1>1 DEF vars, rosterVars, frontVars
  <2> QED
    BY <2>1 DEF Lined, At, Lane, Held, Carried, Recording
<1>2. CASE Next
  <2>1. Types'
    BY <1>2, TypesKept
  <2>2. ASSUME HostStep, NEW a \in Player, NEW b \in Player, a # b, At(a, b)'
        PROVE  Lane(a, b, Old(a, b, link[a].nonce), New(a, b, link[a].nonce))'
    <3>1. link' = link /\ At(a, b)
      BY <2>2, HostLanes DEF At
    <3>2. PICK n \in 0..MaxTurns : n = link[a].nonce
      BY <3>1, AtIs
    <3>3. Lane(a, b, Old(a, b, n), New(a, b, n))
      BY <2>2, <3>1, <3>2 DEF Lined
    <3>4. Old(a, b, n) \in SUBSET Forward(a, b) /\ New(a, b, n) \in SUBSET Forward(a, b)
      BY <2>2, OpeningAlong
    <3>5. Lane(a, b, Old(a, b, n), New(a, b, n))'
      BY <2>2, <3>3, <3>4, HostLanes
    <3> QED
      BY <3>1, <3>2, <3>5
  <2>3. HostStep => Lined'
    BY <2>2 DEF Lined
  <2>4. ASSUME NEW p \in Player, Frontend(p) PROVE Lined'
    BY <2>1, <2>4, FrontSteps, EndSteps, FrontLined
  <2> QED
    BY <1>2, <2>3, <2>4, HostSteps
<1> QED
  BY <1>1, <1>2

\* q goes in for attempt n of p by what is of n at the head of its inbox, and then nothing
\* of an earlier one is behind it.
LEMMA ForeLost ==
    ASSUME Types, Lined, NEW q \in Player, FrontStep(q), EndMoves(q), NEW p \in Player, p # q,
           At(p, q), NEW n \in 0..MaxTurns, n = link[p].nonce, Fore(p, q, n), ~ Fore(p, q, n)'
    PROVE  /\ ~ OldComes(p, q)
           /\ link[q] = NoLink \/ link[q] = Phase("requesting", p, n)
           /\ link'[q] = Phase("incoming", p, n) \/ link'[q] = Phase("holding", p, n)
<1>1. FrontMoves(q) /\ link'[p] = link[p]
  BY DEF FrontStep, FrontMoves
<1>2. Lane(p, q, Old(p, q, n), New(p, q, n))
  BY DEF Lined
<1>3. Bound(q, p, n)' \/ link'[q] = Phase("incoming", p, n)
  BY <1>1 DEF Fore
<1>4. ASSUME NEW kind \in {"request", "accept"}, HearsOf(q, kind, p, n) PROVE ~ OldComes(p, q)
  <2>1. inbox[q] # <<>> /\ Head(inbox[q]) \in New(p, q, n) /\ Head(inbox[q]) \notin Old(p, q, n)
    BY <1>4, OpeningAlong DEF HearsOf
  <2> QED
    BY <1>2, <2>1, LaneHeard DEF OldComes
<1>5. CASE Bound(q, p, n)'
  <2>1. Agrees(q, p, n) \/ Accepts(q, p, n)
    BY <1>1, <1>5, EndBound DEF Fore
  <2>2. ~ Accepts(q, p, n)
    BY DEF Fore, Accepts, Moves
  <2> QED
    BY <1>4, <2>1, <2>2 DEF Agrees, Moves
<1>6. CASE link'[q] = Phase("incoming", p, n)
  <2>1. Shows(q, p, n)
    BY <1>6, EndBecomes DEF Fore, Phases
  <2> QED
    BY <1>4, <1>6, <2>1 DEF Shows
<1> QED
  BY <1>3, <1>5, <1>6

\* Phases of different names or attempts differ.
LEMMA PhasesDiffer ==
    \A x, y \in Phases : \A a, b, k, i : Phase(x, a, k) = Phase(y, b, i) => x = y /\ a = b /\ k = i
BY DEF Phase

\* The steps of the one who is asked.
LEMMA AskedPasts ==
    ASSUME Types, Numbers, Views, Lined, NEW q \in Staying, FrontStep(q), EndMoves(q),
           NEW p \in Staying, p # q, At(p, q), Past(p, q)
    PROVE  Past(p, q)'
<1> DEFINE n == link[p].nonce
<1>1. /\ p \in Player /\ q \in Player /\ n \in 0..MaxTurns
  BY AtIs DEF Staying
<1>2. FrontMoves(q) /\ link'[p] = link[p] /\ requests' = requests
  BY <1>1 DEF FrontStep, FrontMoves, rosterVars
<1>3. ASSUME Fore(p, q, n), ~ Fore(p, q, n)'
      PROVE  /\ ~ OldComes(p, q)
             /\ link[q] = NoLink \/ link[q] = Phase("requesting", p, n)
             /\ link'[q] = Phase("incoming", p, n) \/ link'[q] = Phase("holding", p, n)
  <2>1. PICK k : k = n
    OBVIOUS
  <2>2. Fore(p, q, k) /\ ~ Fore(p, q, k)' /\ k \in 0..MaxTurns /\ k = link[p].nonce
    BY <1>1, <1>2, <1>3, <2>1
  <2> QED
    BY <1>1, <2>1, <2>2, ForeLost
<1>4. OldComes(p, q)' => OldComes(p, q)
  <2>1. outbox'[p] = outbox[p] /\ Held(p)' = Held(p) /\ ToSet(inbox'[q]) \subseteq ToSet(inbox[q])
    BY <1>1, <1>2, EndBoxes DEF FrontMoves, Held, Carried, Recording
  <2> QED
    BY <1>2, <2>1 DEF OldComes, Along
<1>5. ASSUME OldComes(p, q)' PROVE Fore(p, q, n)'
  BY <1>3, <1>4, <1>5 DEF Past
<1>6. ASSUME OldShown(p, q)' PROVE Fore(p, q, n)'
  <2>1. PICK k \in 0..MaxTurns : k # n /\ link'[q] = Phase("incoming", p, k)
    BY <1>2, <1>6 DEF OldShown
  <2>2. link'[q] # Phase("incoming", p, n) /\ link'[q] # Phase("holding", p, n)
    BY <2>1, PhasesDiffer DEF Phases
  <2>3. CASE link[q] = Phase("incoming", p, k)
    BY <1>3, <2>1, <2>2, <2>3 DEF Past, OldShown
  <2>4. CASE link[q] # Phase("incoming", p, k)
    <3>1. Shows(q, p, k)
      BY <1>1, <2>1, <2>4, EndBecomes DEF Phases
    <3>2. Head(inbox[q]) = Say("request", p, q, k) /\ Head(inbox[q]) \in ToSet(inbox[q])
      BY <1>1, <1>2, <3>1, EndBoxes DEF Shows, HearsOf
    <3>3. OldComes(p, q)
      BY <1>1, <2>1, <3>2, OpeningAlong DEF OldComes, Along
    <3> QED
      BY <1>3, <3>3 DEF Past
  <2> QED
    BY <2>3, <2>4
<1>7. ASSUME OldTaken(p, q)' PROVE Fore(p, q, n)' \/ Pulled(ToSet(outbox'[q]), q, p)
  <2>1. PICK k \in 0..MaxTurns :
          k # n /\ Say("accept", q, p, k) \in ToSet(outbox'[q]) /\ <<p, q, k>> \in requests
    BY <1>2, <1>7 DEF OldTaken
  <2>2. CASE Say("accept", q, p, k) \notin ToSet(outbox[q])
    <3>1. Accepts(q, p, k)
      <4>1. \A kind, b, i : Say("accept", q, p, k) = Say(kind, q, b, i) => kind = "accept" /\ b = p /\ i = k
        BY DEF Say
      <4>2. Say("accept", q, p, k).kind = "accept"
        BY DEF Say
      <4> QED
        BY <1>1, <1>2, <2>1, <2>2, <4>1, <4>2, EndSays
    <3>2. link[q] = Phase("incoming", p, k) /\ link'[q] = Phase("holding", p, k)
      BY <3>1 DEF Accepts, Moves
    <3>3. link'[q] # Phase("incoming", p, n) /\ link'[q] # Phase("holding", p, n)
      BY <2>1, <3>2, PhasesDiffer DEF Phases
    <3> QED
      BY <1>3, <2>1, <3>2, <3>3 DEF Past, OldShown
  <2>3. CASE Say("accept", q, p, k) \in ToSet(outbox[q])
    <3>1. Pulled(ToSet(outbox[q]), q, p) => Pulled(ToSet(outbox'[q]), q, p)
      <4>1. ToSet(outbox[q]) \subseteq ToSet(outbox'[q])
        BY <1>1, <1>2, EndBoxes DEF FrontStep
      <4> QED
        BY <4>1 DEF Pulled
    <3>2. ASSUME ~ Pulled(ToSet(outbox[q]), q, p)
          PROVE  Tied(link[q], p)
      <4>1. k \in 1..MaxTurns
        <5>1. k \in 1..turn
          BY <1>1, <2>1, OneWay
        <5>2. turn \in Nat /\ MaxTurns \in Nat /\ turn <= MaxTurns
          BY TurnIn
        <5> QED
          BY <5>1, <5>2
      <4>2. Sees(q, p)
        BY <3>2 DEF Views, View
      <4>3. SaidFine(q, p, link[q], ToSet(outbox[q]), inbox[q], Carried(q), Carried(p), k)
        BY <2>1, <4>1, <4>2 DEF Sees, Fine
      <4> QED
        BY <2>3, <4>3 DEF SaidFine
    <3>3. Tied(link[q], p) => link[q] # NoLink /\ link[q] # Phase("requesting", p, n)
      BY NoLinkIs DEF Tied, Phase
    <3>4. Fore(p, q, n) \/ Pulled(ToSet(outbox[q]), q, p)
      BY <2>1, <2>3 DEF Past, OldTaken
    <3> QED
      BY <1>3, <3>1, <3>2, <3>3, <3>4
  <2> QED
    BY <2>2, <2>3
<1> QED
  BY <1>2, <1>5, <1>6, <1>7 DEF Past

\* The steps of the one who asks, or accepted.
LEMMA AskerPasts ==
    ASSUME Types, Types', Numbers, Attempts, NEW p \in Staying, FrontStep(p), EndMoves(p),
           NEW q \in Staying, p # q, At(p, q) => Past(p, q), At(p, q)'
    PROVE  Past(p, q)'
<1>1. p \in Player /\ q \in Player
  BY DEF Staying
<1>2. FrontMoves(p) /\ link'[q] = link[q] /\ outbox'[q] = outbox[q] /\ requests' = requests
  BY <1>1 DEF FrontStep, FrontMoves, rosterVars
<1>3. PICK n : n = link'[p].nonce
  OBVIOUS
<1>4. n \in 0..MaxTurns => (Bound(q, p, n)' => Bound(q, p, n))
  BY <1>1, <1>2, EndBound
<1>5. CASE (Asks(p, q) /\ n = turn + 1) \/ \E k \in 0..MaxTurns : Accepts(p, q, k) /\ n = k
  <2>1. n \in 0..MaxTurns
    BY <1>5, TurnIn DEF Asks
  <2>2. ~ Bound(q, p, n) /\ link[q] # Phase("incoming", p, n)
    BY <1>1, <1>2, <1>5, <2>1, NewFree
  <2>3. link'[p].phase # "plugged"
    <3>1. \A k : Phase("requesting", q, k).phase # "plugged" /\ Phase("holding", q, k).phase # "plugged"
      BY DEF Phase
    <3> QED
      BY <1>5, <3>1 DEF Asks, Accepts, Moves
  <2>4. Fore(p, q, n)'
    BY <1>2, <1>4, <2>1, <2>2, <2>3 DEF Fore
  <2> QED
    BY <1>3, <2>4 DEF Past
<1>6. CASE At(p, q) /\ link'[p].nonce = link[p].nonce
  <2>1. n \in 0..MaxTurns /\ n = link[p].nonce
    BY <1>1, <1>3, <1>6, AtIs
  <2>2. Along(p, q)' \cap Old(p, q, n) # {} => OldComes(p, q)
    <3> SUFFICES ASSUME NEW m \in Old(p, q, n), m \in Along(p, q)', m \notin Along(p, q) PROVE FALSE
      BY <2>1 DEF OldComes
    <3>1. m \in Opening(p, q) /\ m.nonce # n /\ m \in Forward(p, q) /\ m.kind \in {"request", "accept"}
      BY DEF Old, Opening
    <3>2. Says(p, m)
      <4>1. \A k : Say("start", p, q, k).kind = "start"
        BY DEF Say
      <4>2. \/ Asks(p, q) /\ m = Say("request", p, q, turn + 1)
            \/ \E k \in 0..MaxTurns : Accepts(p, q, k) /\ m = Say("accept", p, q, k)
            \/ \E k \in 0..MaxTurns : Stops(p, q, k) /\ m = Say("start", p, q, k)
        BY <1>1, <1>2, <3>1, EndAlong
      <4> QED
        BY <3>1, <4>1, <4>2 DEF Asks, Accepts, Speaks
    <3> QED
      BY <1>1, <1>3, <3>1, <3>2, OpeningSaid
  <2>3. Fore(p, q, n) => Fore(p, q, n)'
    <3>1. ASSUME Fore(p, q, n), link'[p].phase = "plugged" PROVE FALSE
      <4>1. link'[p] = Phase(link'[p].phase, link'[p].peer, link'[p].nonce)
        <5>1. link'[p] # NoLink /\ FrontTyped(p)'
          BY <1>1, <3>1, NoLinkIs DEF Types, Wired
        <5>2. link'[p] \in [phase : Phases \ {"none"}, peer : Player, nonce : 0..MaxTurns]
          BY <5>1 DEF FrontTyped, Linking
        <5>3. link'[p] = [phase |-> link'[p].phase, peer |-> link'[p].peer, nonce |-> link'[p].nonce]
          BY <5>2
        <5> QED
          BY <5>3 DEF Phase
      <4>2. link'[p] = Phase("plugged", q, n) /\ link[p] # Phase("plugged", q, n)
        <5>1. link'[p] = Phase("plugged", q, n)
          BY <1>3, <3>1, <4>1 DEF At
        <5>2. Phase("plugged", q, n).phase = "plugged"
          BY DEF Phase
        <5> QED
          BY <3>1, <5>1, <5>2 DEF Fore
      <4>3. PlugsIn(p, q, n)
        BY <1>1, <4>2, EndBecomes DEF Phases
      <4>4. Head(inbox[p]) = Say("start", q, p, n) /\ Head(inbox[p]) \in ToSet(inbox[p])
        BY <1>1, <1>2, <4>3, EndBoxes DEF PlugsIn, HearsOf
      <4> QED
        BY <3>1, <4>4 DEF Fore, Bound, Flies
    <3> QED
      BY <1>2, <1>4, <2>1, <3>1 DEF Fore
  <2>4. OldShown(p, q)' => OldShown(p, q)
    BY <1>2, <1>6 DEF OldShown
  <2>5. OldTaken(p, q)' => OldTaken(p, q)
    BY <1>2, <1>6 DEF OldTaken
  <2>6. OldComes(p, q)' => OldComes(p, q)
    <3>1. ASSUME OldComes(p, q)' PROVE Along(p, q)' \cap Old(p, q, n) # {}
      BY <1>3, <3>1 DEF OldComes, Old, Opening, Forward, Mail
    <3> QED
      BY <2>2, <3>1
  <2>7. /\ OldComes(p, q)' \/ OldShown(p, q)' => Fore(p, q, n)'
        /\ OldTaken(p, q)' => Fore(p, q, n)' \/ Pulled(ToSet(outbox'[q]), q, p)
    BY <1>2, <1>6, <2>1, <2>3, <2>4, <2>5, <2>6 DEF Past
  <2> QED
    BY <1>3, <2>7 DEF Past
<1> QED
  BY <1>1, <1>3, <1>5, <1>6, AtWas

\* The steps of everybody else.
LEMMA OtherPasts ==
    ASSUME Types, NEW x \in Player, FrontStep(x), EndMoves(x),
           NEW p \in Staying, NEW q \in Staying, p # q, x # p, x # q, At(p, q), Past(p, q)
    PROVE  Past(p, q)'
<1>1. p \in Player /\ q \in Player
  BY DEF Staying
<1>2. /\ outbox'[p] = outbox[p] /\ inbox'[p] = inbox[p] /\ link'[p] = link[p]
      /\ outbox'[q] = outbox[q] /\ inbox'[q] = inbox[q] /\ link'[q] = link[q]
      /\ requests' = requests
  BY <1>1 DEF FrontStep, FrontMoves, rosterVars
<1>3. \A y \in Player : Carried(y)' = Carried(y) /\ Recording(y)' = Recording(y)
  BY EndBoxes DEF FrontStep
<1>4. Along(p, q)' = Along(p, q)
  BY <1>1, <1>2, <1>3 DEF Along, Held
<1>5. \A n : Fore(p, q, n)' <=> Fore(p, q, n)
  BY <1>1, <1>2, <1>3 DEF Fore, Bound, Flies
<1>6. /\ OldComes(p, q)' <=> OldComes(p, q)
      /\ OldShown(p, q)' <=> OldShown(p, q)
      /\ OldTaken(p, q)' <=> OldTaken(p, q)
  BY <1>2, <1>4 DEF OldComes, OldShown, OldTaken
<1> QED
  BY <1>2, <1>5, <1>6 DEF Past

\* The host takes an accept or a request from a place where the two cannot both be, and
\* an Unlink only as it forgets what the two asked.
LEMMA HostTaken ==
    ASSUME Types, Types', Numbers, HostStep, NEW p \in Player, NEW q \in Staying', p # q,
           NEW k \in 0..MaxTurns, Say("accept", q, p, k) \in ToSet(outbox'[q]), <<p, q, k>> \in requests'
    PROVE  /\ Say("accept", q, p, k) \in ToSet(outbox[q]) /\ <<p, q, k>> \in requests
           /\ Pulled(ToSet(outbox[q]), q, p) => Pulled(ToSet(outbox'[q]), q, p)
<1>1. q \in Player /\ q \notin closing'
  BY DEF Staying
<1>2. ASSUME NEW x \in Player, Route(x)
      PROVE  /\ Say("accept", q, p, k) \in ToSet(outbox[q]) /\ <<p, q, k>> \in requests
             /\ Pulled(ToSet(outbox[q]), q, p) => Pulled(ToSet(outbox'[q]), q, p)
  <2>1. /\ ToSet(outbox'[q]) \subseteq ToSet(outbox[q])
        /\ x # q => outbox'[q] = outbox[q]
    BY <1>1, <1>2, RoutePasses DEF RouteMoves
  <2>2. /\ <<p, q, k>> \in requests
           \/ \E o \in Ask : Waiting(o) /\ <<p, q, k>> = <<o.from, o.to, o.nonce>>
        /\ \/ \A b : StillPulled(x, b)
           \/ Grants(x) \/ Cuts(x)
    BY <1>2, RouteRecords
  <2>3. <<p, q, k>> \in requests
    <3> SUFFICES ASSUME NEW o \in Ask, Waiting(o), <<p, q, k>> = <<o.from, o.to, o.nonce>> PROVE FALSE
      BY <2>2
    <3>1. Answer(o, "accept") = Say("accept", q, p, k) /\ o.to = q
      BY DEF Answer
    <3>2. Arrived(o)
      BY <2>1, <3>1 DEF Arrived
    <3> QED
      BY <3>2 DEF Numbers, Fresh
  <2>4. StillPulled(x, p) => (Pulled(ToSet(outbox[x]), x, p) => Pulled(ToSet(outbox'[x]), x, p))
    BY DEF StillPulled
  <2>5. ASSUME x = q, Cuts(x) PROVE StillPulled(x, p)
    <3>1. PICK a \in Player :
            /\ \A b : b # a => StillPulled(x, b)
            /\ \A r \in requests' : {r[1], r[2]} # {x, a}
      BY <2>5 DEF Cuts
    <3>2. <<p, q, k>>[1] = p /\ <<p, q, k>>[2] = q
      OBVIOUS
    <3>3. a # p
      BY <2>5, <3>1, <3>2
    <3> QED
      BY <3>1, <3>3
  <2>6. x = q => StillPulled(x, p)
    BY <2>2, <2>5 DEF Grants
  <2>7. Pulled(ToSet(outbox[q]), q, p) => Pulled(ToSet(outbox'[q]), q, p)
    BY <2>1, <2>4, <2>6
  <2> QED
    BY <2>1, <2>3, <2>7
<1>3. CASE \E t \in Thread : \E m : Delivers(t, m)
  <2>1. outbox' = outbox /\ requests' = requests
    BY <1>3 DEF Delivers, rosterVars
  <2> QED
    BY <2>1
<1>4. CASE CloseStep
  <2>1. outbox'[q] = outbox[q] /\ requests' \subseteq requests
    BY <1>1, <1>4 DEF CloseStep
  <2> QED
    BY <2>1
<1> QED
  BY <1>2, <1>3, <1>4 DEF HostStep

\* The steps of the host and of the closers.
LEMMA HostPasts ==
    ASSUME Types, Types', Numbers, HostStep, NEW p \in Staying', NEW q \in Staying', p # q,
           At(p, q), Past(p, q)
    PROVE  Past(p, q)'
<1>1. p \in Player /\ q \in Player
  BY DEF Staying
<1>2. link' = link
  BY <1>1, HostLanes
<1>3. PICK n \in 0..MaxTurns : n = link[p].nonce
  BY <1>1, AtIs
<1>4. Fore(p, q, n) => Fore(p, q, n)'
  BY <1>1, <1>2, HostBound DEF Fore
<1>5. OldComes(p, q)' => OldComes(p, q)
  <2>1. Old(p, q, n) \in SUBSET Forward(p, q)
    BY <1>1, OpeningAlong
  <2>2. \A m \in Old(p, q, n) : m \in Along(p, q)' => m \in Along(p, q)
    BY <1>1, <2>1, HostLanes
  <2>3. ASSUME OldComes(p, q)' PROVE Along(p, q)' \cap Old(p, q, n) # {}
    BY <1>2, <1>3, <2>3 DEF OldComes, Old, Opening, Forward, Mail
  <2> QED
    BY <1>3, <2>2, <2>3 DEF OldComes
<1>6. OldShown(p, q)' => OldShown(p, q)
  BY <1>2 DEF OldShown
<1>7. OldTaken(p, q)' =>
        OldTaken(p, q) /\ (Pulled(ToSet(outbox[q]), q, p) => Pulled(ToSet(outbox'[q]), q, p))
  BY <1>1, <1>2, HostTaken DEF OldTaken
<1>8. /\ OldComes(p, q)' \/ OldShown(p, q)' => Fore(p, q, n)'
      /\ OldTaken(p, q)' => Fore(p, q, n)' \/ Pulled(ToSet(outbox'[q]), q, p)
  BY <1>3, <1>4, <1>5, <1>6, <1>7 DEF Past
<1> QED
  BY <1>2, <1>3, <1>8 DEF Past

\* Every step leaves earlier attempts behind.
LEMMA PastsKept == Types /\ Numbers /\ Attempts /\ Views /\ Lined /\ Pasts /\ [Next]_vars => Pasts'
<1> SUFFICES ASSUME Types, Numbers, Attempts, Views, Lined, Pasts, [Next]_vars PROVE Pasts'
  OBVIOUS
<1> SUFFICES ASSUME NEW p \in Staying', NEW q \in Staying', p # q, At(p, q)' PROVE Past(p, q)'
  BY DEF Pasts
<1>1. CASE UNCHANGED vars
  <2>1. UNCHANGED <<closing, requests, work, outbox, inbox, link>>
    BY <1>1 DEF vars, rosterVars, frontVars
  <2>2. p \in Staying /\ q \in Staying /\ At(p, q)
    BY <2>1 DEF At, Staying
  <2>3. Past(p, q)
    BY <2>2 DEF Pasts
  <2> QED
    BY <2>1, <2>3 DEF Past, Fore, Bound, Flies, OldComes, OldShown, OldTaken, Along, Held, Carried,
                      Recording
<1>2. CASE Next
  <2>1. Types'
    BY <1>2, TypesKept
  <2>2. p \in Player /\ q \in Player
    BY DEF Staying
  <2>3. CASE HostStep
    <3>1. link' = link /\ closing \subseteq closing'
      BY <2>2, <2>3, HostLanes
    <3>2. p \in Staying /\ q \in Staying /\ At(p, q)
      BY <3>1 DEF At, Staying
    <3> QED
      BY <2>1, <2>3, <3>2, HostPasts DEF Pasts
  <2>4. ASSUME NEW x \in Player, Frontend(x) PROVE Past(p, q)'
    <3>1. FrontStep(x) /\ EndMoves(x)
      BY <2>4, FrontSteps, EndSteps
    <3>2. closing' = closing /\ \A y \in Player : y # x => link'[y] = link[y]
      BY <3>1 DEF FrontStep, FrontMoves, rosterVars
    <3>3. p \in Staying /\ q \in Staying
      BY <3>2 DEF Staying
    <3>4. At(p, q) => Past(p, q)
      BY <3>3 DEF Pasts
    <3>5. x # p => At(p, q)
      BY <2>2, <3>2 DEF At
    <3>6. CASE x = p
      BY <2>1, <3>1, <3>3, <3>4, <3>6, AskerPasts
    <3>7. CASE x = q
      BY <3>1, <3>3, <3>4, <3>5, <3>7, AskedPasts
    <3>8. CASE x # p /\ x # q
      BY <3>1, <3>3, <3>4, <3>5, <3>8, OtherPasts
    <3> QED
      BY <3>6, <3>7, <3>8
  <2> QED
    BY <1>2, <2>3, <2>4, HostSteps
<1> QED
  BY <1>1, <1>2

\* Nobody is in for anything at first.
LEMMA PastsInit == Init => Lined /\ Pasts
<1>1. Init => \A p, q \in Player : ~ At(p, q)
  BY NoLinkIs DEF Init, At
<1> QED
  BY <1>1 DEF Lined, Pasts, Staying

-----------------------------------------------------------------------------
(* Both ends.                                                              *)

\* Whoever is that far is in for the attempt.
LEMMA FirmAt ==
    ASSUME Types, Attempts, NEW p \in Player, NEW q \in Player, p # q, Firm(p, q)
    PROVE  At(p, q)
<1>1. CASE link[p].phase = "plugged"
  BY <1>1 DEF Firm, At
<1>2. CASE Flies(q, p, link[p].nonce)
  <2>1. link[p].peer = q
    BY DEF Firm
  <2>2. link[p] # NoLink
    BY <2>1, NoLinkIs
  <2>3. PICK n \in 0..MaxTurns : n = link[p].nonce
    BY <2>2, EndIs
  <2>4. link[p].phase \in Phases \ {"none"} /\ link[p] = Phase(link[p].phase, q, n)
    BY <2>1, <2>2, <2>3, EndIs
  <2>5. link[p].phase # "incoming"
    <3> SUFFICES ASSUME link[p] = Phase("incoming", q, n) PROVE FALSE
      BY <2>4
    <3>1. PICK o \in Ask : o = Say("request", q, p, n) /\ o.from = q /\ o.to = p /\ o.nonce = n
      BY OpeningIs
    <3>2. Asked(o)
      BY <3>1, RequestIs
    <3>3. ~ Bound(q, p, n)
      BY <3>1, <3>2 DEF Attempts, Untold, Told
    <3> QED
      BY <1>2, <2>3, <3>3 DEF Bound
  <2> QED
    BY <2>1, <2>4, <2>5 DEF At, Phases
<1> QED
  BY <1>1, <1>2 DEF Firm

\* It is the last of the two, and no accept of p's is ahead of q.
LEMMA FirmLast ==
    ASSUME Types, Attempts, Lanes, Pasts, NEW p \in Staying, NEW q \in Staying, p # q, Firm(p, q),
           NEW n \in 0..MaxTurns, n = link[p].nonce
    PROVE  /\ ~ Fore(p, q, n) /\ At(p, q) /\ Past(p, q)
           /\ \A k \in 0..MaxTurns : Say("accept", p, q, k) \notin Along(p, q)
<1>1. p \in Player /\ q \in Player
  BY DEF Staying
<1>2. At(p, q)
  BY <1>1, FirmAt
<1>3. Past(p, q)
  BY <1>2 DEF Pasts
<1>4. Bound(q, p, n) \/ link[p].phase = "plugged"
  BY DEF Firm, Bound
<1>5. ~ Fore(p, q, n)
  BY <1>4 DEF Fore
<1>6. ASSUME NEW k \in 0..MaxTurns, Say("accept", p, q, k) \in Along(p, q) PROVE FALSE
  <2>1. CASE k = n
    <3>1. ~ Bound(q, p, n) /\ link[p] # Phase("plugged", q, n)
      BY <1>1, <1>6, <2>1 DEF Lanes, Unheard
    <3>2. link[p].phase = "plugged" => link[p] = Phase("plugged", q, n)
      BY <1>1, <1>2, AtIs
    <3> QED
      BY <1>4, <3>1, <3>2
  <2>2. CASE k # n
    <3>1. Say("accept", p, q, k) \in Old(p, q, n)
      BY <1>1, <2>2, OpeningAlong
    <3>2. OldComes(p, q)
      BY <1>6, <3>1 DEF OldComes
    <3> QED
      BY <1>3, <1>5, <3>2 DEF Past
  <2> QED
    BY <2>1, <2>2
<1> QED
  BY <1>2, <1>3, <1>5, <1>6

\* What is granted to the two while p is that far is what p is in for, and q has stopped.
LEMMA FirmGranted ==
    ASSUME Types, Numbers, Attempts, Views, Lanes, Pasts,
           NEW p \in Staying, NEW q \in Staying, p # q, Firm(p, q),
           NEW k \in 0..MaxTurns, Say("accept", q, p, k) \in ToSet(outbox[q]), <<p, q, k>> \in requests
    PROVE  StoppedFor(q, p, link[p].nonce) \/ Pulled(ToSet(outbox[q]), q, p)
<1>1. p \in Player /\ q \in Player
  BY DEF Staying
<1>2. PICK n \in 0..MaxTurns : n = link[p].nonce
  BY <1>1, FirmAt, AtIs
<1>3. ~ Fore(p, q, n) /\ At(p, q) /\ Past(p, q)
  BY <1>2, FirmLast
<1>4. CASE k # n
  BY <1>2, <1>3, <1>4 DEF Past, OldTaken
<1>5. CASE k = n /\ ~ Pulled(ToSet(outbox[q]), q, p)
  <2>1. k \in 1..MaxTurns
    <3>1. k \in 1..turn
      BY <1>1, OneWay
    <3>2. turn \in Nat /\ MaxTurns \in Nat /\ turn <= MaxTurns
      BY TurnIn
    <3> QED
      BY <3>1, <3>2
  <2>2. Sees(q, p)
    BY <1>5 DEF Views, View
  <2>3. SaidFine(q, p, link[q], ToSet(outbox[q]), inbox[q], Carried(q), Carried(p), k)
    BY <2>1, <2>2 DEF Sees, Fine
  <2>4. Tied(link[q], p) /\ link[q].nonce = n
    BY <1>5, <2>3 DEF SaidFine
  <2>5. link[q] # NoLink
    BY <2>4, NoLinkIs DEF Tied
  <2>6. link[q] = Phase(link[q].phase, p, n) /\ link[q].phase \in {"holding", "starting", "plugged"}
    BY <1>1, <2>4, <2>5, EndIs DEF Tied
  <2>7. link[q] # Phase("holding", p, n)
    <3>1. CASE Flies(q, p, n)
      BY <1>1, <3>1 DEF Lanes, Unheld
    <3>2. CASE link[p].phase = "plugged"
      <4>1. Say("accept", q, p, n) \in Along(q, p)
        BY <1>5 DEF Along
      <4>2. ~ Bound(p, q, n)
        BY <1>1, <4>1 DEF Lanes, Unheard
      <4> QED
        BY <1>2, <1>3, <3>2, <4>2 DEF Bound, Tied, At
    <3> QED
      BY <1>2, <3>1, <3>2 DEF Firm
  <2> QED
    BY <1>2, <2>6, <2>7 DEF StoppedFor
<1> QED
  BY <1>4, <1>5

\* The host relays a start for two players on record, grants what they are both in for, and
\* whose Unlink ends the record has said so to the other, or is noted.
LEMMA RouteMeets ==
    ASSUME Types, Types', Numbers, Attempts, Views, Lanes, Pasts, Meets, NEW x \in Player, Route(x),
           NEW p \in Staying, NEW q \in Staying, p # q, Joined(p, q)'
    PROVE  Met(p, q)'
<1>1. p \in Player /\ q \in Player
  BY DEF Staying
<1>2. /\ closing' = closing /\ inbox' = inbox /\ link' = link
      /\ \A y \in Player : y # x => outbox'[y] = outbox[y] /\ Carried(y)' = Carried(y)
  BY RoutePasses DEF RouteMoves
<1>3. /\ Carried(x) = {}
      /\ \A m \in Carried(x)' : m.kind = "start" => AreLinked(x, m.to)
      /\ \/ links' = links /\ endedBy' = endedBy /\ \A b : StillPulled(x, b)
         \/ Grants(x) \/ Cuts(x)
  BY RouteRecords
<1>4. PICK n : n = link[p].nonce
  OBVIOUS
<1>5. Firm(p, q)
  <2>1. link'[p].peer = q /\ (link'[p].phase = "plugged" \/ Flies(q, p, link[p].nonce)')
    BY DEF Joined, Firm
  <2>2. CASE link[p].phase = "plugged"
    BY <1>2, <2>1, <2>2 DEF Firm
  <2>3. CASE Flies(q, p, n)'
    <3>1. link[p] # NoLink
      BY <1>1, <1>2, <2>1, NoLinkIs
    <3>2. n \in 0..MaxTurns
      BY <1>1, <1>4, <3>1, EndIs
    <3>3. Flies(q, p, n)
      BY <1>1, <2>3, <3>2, HostBound DEF HostStep
    <3> QED
      BY <1>2, <1>4, <2>1, <3>3 DEF Firm
  <2> QED
    BY <1>2, <1>4, <2>1, <2>2, <2>3
<1>6. AreLinked(p, q) \/ (Plugs(p, q)' => Plugs(p, q))
  <2>1. Say("start", q, p, n).kind = "start" /\ Say("start", q, p, n).to = p
    BY DEF Say
  <2>2. Say("start", q, p, n) \in Carried(q)' => Say("start", q, p, n) \in Carried(q) \/ AreLinked(p, q)
    BY <1>1, <1>2, <1>3, <2>1 DEF AreLinked
  <2> QED
    BY <1>2, <1>4, <2>2 DEF Plugs
<1>7. AreLinked(p, q) \/ Plugs(p, q)' => Met(p, q)
  BY <1>5, <1>6 DEF Joined, Meets
<1>8. AreLinked(p, q)' \/ Plugs(p, q)'
  BY DEF Joined
<1>9. Owed(q, p) => Owed(q, p)'
  BY <1>1, <1>2, <1>3 DEF Owed
<1>10. StoppedFor(q, p, link[p].nonce)' <=> StoppedFor(q, p, link[p].nonce)
  BY <1>2 DEF StoppedFor
<1>11. q # x \/ StillPulled(x, p) =>
         (Pulled(ToSet(outbox[q]), q, p) => Pulled(ToSet(outbox'[q]), q, p))
  BY <1>1, <1>2 DEF StillPulled
<1>12. CASE links' = links /\ endedBy' = endedBy /\ \A b : StillPulled(x, b)
  <2>1. AreLinked(p, q)' <=> AreLinked(p, q)
    BY <1>12 DEF AreLinked
  <2>2. Met(p, q)
    BY <1>7, <1>8, <2>1
  <2> QED
    BY <1>9, <1>10, <1>11, <1>12, <2>1, <2>2 DEF Met
<1>13. CASE Grants(x)
  <2>1. PICK y \in Player, k \in 0..MaxTurns :
          /\ Say("accept", x, y, k) \in ToSet(outbox[x]) /\ <<y, x, k>> \in requests
          /\ \A b : StillPulled(x, b)
          /\ links' = links \union {<<y, x>>} /\ endedBy' = endedBy \ {<<x, y>>, <<y, x>>}
    BY <1>13 DEF Grants
  <2>2. CASE x = p /\ y = q
    <3>1. Say("accept", p, q, k) \in Along(p, q)
      BY <2>1, <2>2 DEF Along
    <3>2. n \in 0..MaxTurns
      BY <1>1, <1>4, <1>5, FirmAt, AtIs
    <3> QED
      BY <1>4, <1>5, <3>1, <3>2, FirmLast
  <2>3. CASE x = q /\ y = p
    <3>1. StoppedFor(q, p, link[p].nonce) \/ Pulled(ToSet(outbox[q]), q, p)
      BY <1>5, <2>1, <2>3, FirmGranted
    <3>2. AreLinked(p, q)'
      BY <2>1, <2>3 DEF AreLinked
    <3> QED
      BY <1>10, <1>11, <2>1, <2>3, <3>1, <3>2 DEF Met
  <2>4. CASE ~ (x = p /\ y = q) /\ ~ (x = q /\ y = p)
    <3>1. AreLinked(p, q)' <=> AreLinked(p, q)
      BY <2>1, <2>4 DEF AreLinked
    <3>2. <<p, q>> \in endedBy => <<p, q>> \in endedBy'
      BY <2>1, <2>4
    <3>3. Met(p, q)
      BY <1>7, <1>8, <3>1
    <3> QED
      BY <1>9, <1>10, <1>11, <2>1, <3>1, <3>2, <3>3 DEF Met
  <2> QED
    BY <2>2, <2>3, <2>4
<1>14. CASE Cuts(x)
  <2>1. PICK y \in Player, k \in 0..MaxTurns :
          /\ Say("unlink", x, y, k) \in ToSet(outbox[x])
          /\ links' = links \ {<<x, y>>, <<y, x>>}
          /\ endedBy' = IF AreLinked(x, y) THEN endedBy \union {<<x, y>>} ELSE endedBy
          /\ AreLinked(x, y) => Carried(x)' = {Say("unlink", x, y, k)}
          /\ \A b : b # y => StillPulled(x, b)
    BY <1>14 DEF Cuts
  <2>2. endedBy \subseteq endedBy'
    BY <2>1
  <2>3. CASE ~ AreLinked(p, q)
    <3>1. ~ AreLinked(p, q)'
      BY <2>1, <2>3 DEF AreLinked
    <3>2. Met(p, q)
      BY <1>7, <1>8, <3>1
    <3> QED
      BY <1>9, <2>2, <2>3, <3>2 DEF Met
  <2>4. CASE AreLinked(p, q) /\ x = p /\ y = q
    BY <2>1, <2>4 DEF Met
  <2>5. CASE AreLinked(p, q) /\ x = q /\ y = p
    <3>1. k = 0
      <4>1. Say("unlink", q, p, k).kind = "unlink" /\ Say("unlink", q, p, k).nonce = k
        BY DEF Say
      <4> QED
        BY <1>1, <2>1, <2>5, <4>1 DEF Attempts, ZeroUnlinks
    <3>2. AreLinked(q, p)
      BY <2>5 DEF AreLinked
    <3>3. Cut(q, p) \in Carried(q)'
      BY <2>1, <2>5, <3>1, <3>2 DEF Cut
    <3> QED
      BY <3>3 DEF Met, Owed
  <2>6. CASE AreLinked(p, q) /\ ~ (x = p /\ y = q) /\ ~ (x = q /\ y = p)
    <3>1. AreLinked(p, q)'
      BY <2>1, <2>6 DEF AreLinked
    <3>2. Met(p, q)
      BY <1>7, <2>6
    <3>3. q # x \/ StillPulled(x, p)
      BY <2>1, <2>6
    <3> QED
      BY <1>9, <1>10, <1>11, <2>2, <3>1, <3>2, <3>3 DEF Met
  <2> QED
    BY <2>3, <2>4, <2>5, <2>6
<1> QED
  BY <1>3, <1>12, <1>13, <1>14

\* A delivery brings what a reader carried, and loses no Unlink to a player that stays.
LEMMA DeliversMeets ==
    ASSUME Types, Types', Meets, NEW t \in Thread, NEW m, Delivers(t, m),
           NEW p \in Staying, NEW q \in Staying, p # q, Joined(p, q)'
    PROVE  Met(p, q)'
<1>1. p \in Player /\ q \in Player
  BY DEF Staying
<1>2. /\ links' = links /\ endedBy' = endedBy /\ outbox' = outbox /\ link' = link
      /\ \A y \in Player : y # m.to => inbox'[y] = inbox[y]
      /\ \/ inbox'[m.to] = inbox[m.to] /\ m.to \notin Staying
         \/ ToSet(inbox'[m.to]) = ToSet(inbox[m.to]) \union {m}
  BY DEF Delivers, rosterVars, frontVars
<1>3. /\ Carried(q)' \subseteq Carried(q)
      /\ \A o \in Carried(q) : o \in Carried(q)' \/ o = m
      /\ m.kind = "start" => m \in Carried(m.from)
  <2>1. \A c, d : Say("unlink", c, d, 0).kind = "unlink"
    BY DEF Say
  <2>2. CASE \E y \in Player :
               /\ Carried(y) = {m} /\ Carried(y)' = {}
               /\ \A z \in Player : z # y => Carried(z)' = Carried(z)
               /\ (m \in Mail(y) \/ (m \in News(y) /\ m.kind \in {"decline", "unlink"}))
    <3>1. PICK y \in Player :
            /\ Carried(y) = {m} /\ Carried(y)' = {}
            /\ \A z \in Player : z # y => Carried(z)' = Carried(z)
            /\ (m \in Mail(y) \/ (m \in News(y) /\ m.kind \in {"decline", "unlink"}))
      BY <2>2
    <3>2. m.kind = "start" => m.from = y
      BY <3>1 DEF Mail
    <3>3. m.kind = "start" => m \in Carried(m.from)
      BY <3>1, <3>2
    <3>4. /\ Carried(q)' \subseteq Carried(q)
          /\ \A o \in Carried(q) : o \in Carried(q)' \/ o = m
      BY <1>1, <3>1
    <3> QED
      BY <3>3, <3>4
  <2>3. CASE /\ \A z \in Player : Carried(z)' = Carried(z)
             /\ \E c \in Player \cap closing : \E d \in Player \ {c} : m = Say("unlink", c, d, 0)
    BY <1>1, <2>1, <2>3
  <2> QED
    BY <2>2, <2>3, DeliversCarries
<1>4. \A n : (Say("start", q, p, n) \in Carried(q)' \/ Say("start", q, p, n) \in ToSet(inbox'[p])) =>
         Say("start", q, p, n) \in Carried(q) \/ Say("start", q, p, n) \in ToSet(inbox[p])
  <2>1. \A n : Say("start", q, p, n).kind = "start" /\ Say("start", q, p, n).from = q
    BY DEF Say
  <2> QED
    BY <1>1, <1>2, <1>3, <2>1
<1>5. Joined(p, q)
  BY <1>2, <1>4 DEF Joined, Firm, Flies, Plugs, AreLinked
<1>6. Owed(q, p) => Owed(q, p)'
  <2>1. Cut(q, p).to = p
    BY DEF Cut, Say
  <2> QED
    BY <1>1, <1>2, <1>3, <2>1 DEF Owed
<1> QED
  BY <1>2, <1>5, <1>6 DEF Meets, Met, StoppedFor, AreLinked

\* A close takes no record of two players that stay.
LEMMA CloseMeets ==
    ASSUME Types, Types', Meets, CloseStep, NEW c \in Client,
           (c \in closing /\ AnnounceStep(c)) \/ BeginsClose(c) \/ Removes(c) \/ Departs(c),
           NEW p \in Staying', NEW q \in Staying', p # q, Joined(p, q)'
    PROVE  Met(p, q)'
<1>1. p \in Player /\ q \in Player /\ p \notin closing' /\ q \notin closing'
  BY DEF Staying
<1>2. /\ closing \subseteq closing' /\ link' = link /\ endedBy' = endedBy /\ outbox'[q] = outbox[q]
  BY <1>1 DEF CloseStep, AnnounceStep, BeginsClose, Removes, Departs, rosterVars
<1>3. p \in Staying /\ q \in Staying
  BY <1>1, <1>2 DEF Staying
<1>4. /\ Carried(q)' = Carried(q)
      /\ \/ inbox'[p] = inbox[p]
         \/ \E d \in closing : ToSet(inbox'[p]) = ToSet(inbox[p]) \union {Left(d)}
  BY <1>1, CloseBoxes
<1>5. /\ ToSet(inbox[p]) \subseteq ToSet(inbox'[p])
      /\ \A n : Say("start", q, p, n) \in ToSet(inbox'[p]) => Say("start", q, p, n) \in ToSet(inbox[p])
  <2>1. \A n, d : Say("start", q, p, n) # Left(d)
    BY DEF Left, Say
  <2> QED
    BY <1>4, <2>1
<1>6. AreLinked(p, q)' <=> AreLinked(p, q)
  <2>1. CASE ~ Departs(c)
    <3>1. links' = links
      BY <2>1 DEF AnnounceStep, BeginsClose, Removes, rosterVars
    <3> QED
      BY <3>1 DEF AreLinked
  <2>2. CASE Departs(c)
    <3>1. c \in closing
      BY <2>2, CloserLine DEF Departs, Player
    <3>2. c # p /\ c # q
      BY <1>1, <1>2, <3>1
    <3>3. <<p, q>>[1] = p /\ <<p, q>>[2] = q /\ <<q, p>>[1] = q /\ <<q, p>>[2] = p
      OBVIOUS
    <3> QED
      BY <2>2, <3>2, <3>3 DEF AreLinked, Departs
  <2> QED
    BY <2>1, <2>2
<1>7. Joined(p, q)
  BY <1>2, <1>4, <1>5, <1>6 DEF Joined, Firm, Flies, Plugs
<1>8. Met(p, q)
  BY <1>3, <1>7 DEF Meets
<1> QED
  BY <1>2, <1>4, <1>5, <1>6, <1>8 DEF Met, StoppedFor, Owed

\* The steps of the one who is plugged in, or will be: it is so before.
LEMMA PluggedMeets ==
    ASSUME Types, Types', Numbers, Attempts, Meets,
           NEW p \in Staying, FrontStep(p), EndMoves(p),
           NEW q \in Staying, p # q, Joined(p, q)'
    PROVE  Met(p, q)'
<1>1. p \in Player /\ q \in Player
  BY DEF Staying
<1>2. /\ FrontMoves(p) /\ link'[q] = link[q] /\ outbox'[q] = outbox[q] /\ Carried(q)' = Carried(q)
      /\ links' = links /\ endedBy' = endedBy /\ ToSet(inbox'[p]) \subseteq ToSet(inbox[p])
  BY <1>1, EndBoxes DEF FrontStep, FrontMoves, rosterVars
<1>3. link'[p].peer = q /\ (link'[p].phase = "plugged" \/ Flies(q, p, link[p].nonce)')
  BY DEF Joined, Firm
<1>4. PICK n : n = link'[p].nonce
  OBVIOUS
<1>5. link'[p].phase = "plugged" \/ Flies(q, p, n)
  <2>1. Flies(q, p, n)' => Flies(q, p, n)
    BY <1>2 DEF Flies
  <2> QED
    BY <1>3, <1>4, <2>1
<1>6. /\ link'[p] = [phase |-> link'[p].phase, peer |-> q, nonce |-> n]
      /\ link'[p].phase \in Phases \ {"none"} /\ n \in 0..MaxTurns
  <2>1. link'[p] # NoLink /\ FrontTyped(p)'
    BY <1>1, <1>3, NoLinkIs DEF Types, Wired
  <2>2. link'[p] \in [phase : Phases \ {"none"}, peer : Player, nonce : 0..MaxTurns]
    BY <2>1 DEF FrontTyped, Linking
  <2> QED
    BY <1>3, <1>4, <2>2
<1>7. At(p, q)'
  <2>1. ASSUME link'[p].phase = "incoming" PROVE FALSE
    <3>1. link'[p] = Phase("incoming", q, n) /\ n \in 0..MaxTurns
      BY <1>6, <2>1 DEF Phase
    <3>2. link[p] = Phase("incoming", q, n) \/ Shows(p, q, n)
      BY <1>1, <3>1, EndBecomes DEF Phases
    <3>3. Shows(p, q, n) => Say("request", q, p, n) \in ToSet(inbox[p])
      BY <1>1, <1>2, EndBoxes DEF Shows, HearsOf
    <3>4. PICK o \in Ask : o = Say("request", q, p, n) /\ o.from = q /\ o.to = p /\ o.nonce = n
      BY <1>1, <3>1, OpeningIs
    <3>5. Asked(o)
      BY <3>2, <3>3, <3>4 DEF Asked, Going
    <3>6. ~ Bound(q, p, n)
      BY <3>4, <3>5 DEF Attempts, Untold, Told
    <3> QED
      BY <1>5, <2>1, <3>6 DEF Bound
  <2> QED
    BY <1>3, <1>6, <2>1 DEF At, Phases
<1>8. ~ ((Asks(p, q) /\ n = turn + 1) \/ \E k \in 0..MaxTurns : Accepts(p, q, k) /\ n = k)
  <2> SUFFICES ASSUME (Asks(p, q) /\ n = turn + 1) \/ \E k \in 0..MaxTurns : Accepts(p, q, k) /\ n = k
               PROVE  FALSE
    OBVIOUS
  <2>1. n \in 0..MaxTurns
    BY TurnIn DEF Asks
  <2>2. ~ Bound(q, p, n)
    BY <1>1, <1>2, <2>1, NewFree
  <2>3. link'[p].phase # "plugged"
    <3>1. \A k : Phase("requesting", q, k).phase # "plugged" /\ Phase("holding", q, k).phase # "plugged"
      BY DEF Phase
    <3> QED
      BY <3>1 DEF Asks, Accepts, Moves
  <2> QED
    BY <1>5, <2>2, <2>3 DEF Bound
<1>9. At(p, q) /\ n = link[p].nonce
  BY <1>1, <1>4, <1>7, <1>8, AtWas
<1>10. Firm(p, q)
  <2>1. CASE Flies(q, p, n)
    BY <1>9, <2>1 DEF Firm, At
  <2>2. CASE link'[p].phase = "plugged"
    <3>1. link'[p] = Phase("plugged", q, n)
      BY <1>6, <2>2 DEF Phase
    <3>2. link[p] = Phase("plugged", q, n) \/ PlugsIn(p, q, n)
      BY <1>1, <3>1, EndBecomes DEF Phases
    <3>3. CASE link[p] = Phase("plugged", q, n)
      BY <3>3 DEF Firm, Phase
    <3>4. CASE PlugsIn(p, q, n)
      <4>1. Head(inbox[p]) = Say("start", q, p, n) /\ Head(inbox[p]) \in ToSet(inbox[p])
        BY <1>1, <1>2, <3>4, EndBoxes DEF PlugsIn, HearsOf
      <4> QED
        BY <1>9, <4>1 DEF Firm, Flies, At
    <3> QED
      BY <3>2, <3>3, <3>4
  <2> QED
    BY <1>5, <2>1, <2>2
<1>11. Met(p, q)
  <2>1. Plugs(p, q)' => Plugs(p, q)
    BY <1>1, <1>2, EndPlugs
  <2>2. AreLinked(p, q)' <=> AreLinked(p, q)
    BY <1>2 DEF AreLinked
  <2> QED
    BY <1>10, <2>1, <2>2 DEF Joined, Meets
<1>12. Cut(q, p) \in ToSet(inbox[p]) => Cut(q, p) \in ToSet(inbox'[p])
  <2>1. inbox'[p] = inbox[p] \/ (inbox[p] # <<>> /\ inbox'[p] = Tail(inbox[p]))
    BY <1>1, <1>2, EndBoxes
  <2>2. CASE inbox[p] # <<>> /\ inbox'[p] = Tail(inbox[p]) /\ Head(inbox[p]) = Cut(q, p)
    <3>1. Head(inbox[p]).kind = "unlink" /\ Head(inbox[p]).from = q
      BY <2>2 DEF Cut, Say
    <3>2. inbox'[p] # inbox[p]
      BY <1>1, <2>2 DEF Types, Wired, InTyped
    <3>3. Ends(p)
      <4>1. \A k, x, i : Head(inbox[p]) = Say(k, x, p, i) => k = "unlink"
        BY <3>1 DEF Say
      <4> QED
        BY <3>2, <4>1 DEF EndMoves, Asks, Shows, Accepts, Agrees, Stops, PlugsIn, HearsOf, Speaks
    <3> QED
      BY <1>3, <3>1, <3>2, <3>3 DEF Ends
  <2>3. CASE inbox[p] # <<>> /\ inbox'[p] = Tail(inbox[p]) /\ Head(inbox[p]) # Cut(q, p)
    <3>1. ToSet(inbox[p]) = {Head(inbox[p])} \union ToSet(Tail(inbox[p]))
      BY <1>1, <2>3, TailElements DEF Types, Wired, InTyped
    <3> QED
      BY <2>3, <3>1
  <2> QED
    BY <2>1, <2>2, <2>3
<1>13. /\ AreLinked(p, q)' <=> AreLinked(p, q)
       /\ StoppedFor(q, p, n)' <=> StoppedFor(q, p, n)
       /\ Owed(q, p) => Owed(q, p)'
  BY <1>2, <1>12 DEF AreLinked, StoppedFor, Owed
<1> QED
  BY <1>2, <1>4, <1>9, <1>11, <1>13 DEF Met

\* A player that has stopped goes on, or says Unlink; it does not hear the other's while
\* the two are on record, nor of the other's departure.
LEMMA StoppedStays ==
    ASSUME Types, Numbers, Views, Attempts, Lanes, Pasts, NEW q \in Staying, Frontend(q),
           NEW p \in Staying, p # q, Firm(p, q), AreLinked(p, q),
           NEW n \in 0..MaxTurns, n = link[p].nonce, StoppedFor(q, p, n)
    PROVE  StoppedFor(q, p, n)' \/ Pulled(ToSet(outbox[q]), q, p) \/ Says(q, Cut(q, p))
<1> SUFFICES ASSUME ~ Pulled(ToSet(outbox[q]), q, p)
             PROVE  StoppedFor(q, p, n)' \/ Says(q, Cut(q, p))
  OBVIOUS
<1>1. p \in Player /\ q \in Player /\ Wired
  BY DEF Staying, Types
<1>2. /\ link[q].phase \in {"starting", "plugged"} /\ link[q].peer = p /\ link[q].nonce = n
      /\ link[q] # NoLink
      /\ \A a, i : link[q] # Phase("requesting", a, i)
  BY NoLinkIs DEF StoppedFor, Phase
<1>3. link'[q] = link[q] => StoppedFor(q, p, n)'
  BY DEF StoppedFor
<1>4. SaysIfHeard(q, "unlink", p, 0) => Says(q, Cut(q, p))
  BY <1>1, Refusing DEF SaysIfHeard, Cut
<1>5. ASSUME NEW a \in Player, Request(q, a) PROVE FALSE
  BY <1>1, <1>2, <1>5, RequestDoes
<1>6. ~ Accept(q) /\ ~ Hold(q)
  BY <1>1, <1>2, AcceptDoes, HoldDoes
<1>7. CASE HearRequest(q) \/ HearAccept(q)
  BY <1>1, <1>2, <1>3, <1>7, HearRequestDoes, HearAcceptDoes
<1>8. CASE HearDecline(q)
  BY <1>1, <1>2, <1>3, <1>8, HearDeclineDoes
<1>9. CASE HearStart(q)
  <2> DEFINE m == Head(inbox[q])
  <2>1. \/ link'[q] = link[q]
        \/ /\ link[q] = Phase("starting", m.from, m.nonce)
           /\ \/ link'[q] = Phase("plugged", m.from, m.nonce)
              \/ SaysIfHeard(q, "unlink", m.from, 0)
    BY <1>1, <1>9, HearStartDoes
  <2>2. link[q] = Phase("starting", m.from, m.nonce) => m.from = p /\ m.nonce = n
    BY <1>2 DEF Phase
  <2> HIDE DEF m
  <2> QED
    BY <1>3, <1>4, <2>1, <2>2 DEF StoppedFor
<1>10. CASE HearUnlink(q)
  <2>1. inbox[q] # <<>> /\ Head(inbox[q]).kind = "unlink"
    BY <1>1, <1>10, HearUnlinkDoes DEF Listens
  <2>2. Head(inbox[q]).from # p
    <3> SUFFICES ASSUME Head(inbox[q]).from = p PROVE FALSE
      OBVIOUS
    <3>1. inbox[q][1] = Head(inbox[q]) /\ 1 \in DOMAIN inbox[q]
      BY <1>1, <2>1, TailPlaces DEF Types, Wired, InTyped
    <3>2. Head(inbox[q]).to = q
      <4>1. Head(inbox[q]) = Say("unlink", p, q, Head(inbox[q]).nonce)
        BY <1>1, <2>1, HeadNews DEF UrgentKinds
      <4> QED
        BY <4>1 DEF Say
    <3>3. Waits(inbox[q], q, p)
      BY <2>1, <3>1, <3>2 DEF Waits, IsUnlink
    <3>4. Fine(q, p, link[q], ToSet(outbox[q]), inbox[q], Carried(q), Carried(p), requests, links)
      BY DEF Views, View, Sees
    <3>5. \/ Has(q, p, link[q], inbox[q], Carried(q), Carried(p), requests)
          \/ Gets(q, p, link[q], inbox[q], Carried(q), Carried(p))
      BY <3>4 DEF Fine, AskerFine, AskedFine, AreLinked
    <3>6. Gets(q, p, link[q], inbox[q], Carried(q), Carried(p))
      BY <3>3, <3>5 DEF Has, Threat
    <3>7. \E m \in Carried(p) \union ToSet(inbox[q]) : IsAccept(m, p, q)
      <4>1. \A i \in DOMAIN inbox[q] : inbox[q][i] \in ToSet(inbox[q])
        BY DEF ToSet
      <4> QED
        BY <3>6, <4>1 DEF Gets
    <3>8. PICK m : m \in Carried(p) \union ToSet(inbox[q]) /\ IsAccept(m, p, q)
      BY <3>7
    <3>9. m = Say("accept", p, q, m.nonce) /\ m.nonce \in 0..MaxTurns
      BY <1>1, <3>8, AcceptNumbered DEF Letter
    <3>10. Say("accept", p, q, m.nonce) \in Along(p, q)
      BY <3>8, <3>9 DEF Along, Held
    <3> QED
      BY <3>9, <3>10, FirmLast
  <2> QED
    BY <1>1, <1>2, <1>3, <1>10, <2>2, HearUnlinkDoes
<1>11. CASE HearLeft(q)
  <2>1. inbox[q] # <<>> /\ Head(inbox[q]).kind = "left"
    BY <1>1, <1>11, HearLeftDoes DEF Listens
  <2>2. Head(inbox[q]).from # p
    BY <1>1, <2>1, HeadNews DEF Staying
  <2> QED
    BY <1>1, <1>2, <1>3, <1>11, <2>2, HearLeftDoes
<1>12. CASE Pull(q)
  BY <1>1, <1>2, <1>4, <1>12, PullDoes
<1> QED
  BY <1>5, <1>6, <1>7, <1>8, <1>9, <1>10, <1>11, <1>12 DEF Frontend

\* The steps of the other one: it says start as it stops.
LEMMA StoppedMeets ==
    ASSUME Types, Numbers, Attempts, Views, Lanes, Pasts, Meets, NEW q \in Staying, Frontend(q),
           FrontStep(q), EndMoves(q), NEW p \in Staying, p # q, Joined(p, q)'
    PROVE  Met(p, q)'
<1>1. p \in Player /\ q \in Player
  BY DEF Staying
<1>2. /\ FrontMoves(q) /\ link'[p] = link[p] /\ inbox'[p] = inbox[p] /\ Carried(q)' = Carried(q)
      /\ links' = links /\ endedBy' = endedBy /\ ToSet(outbox[q]) \subseteq ToSet(outbox'[q])
  <2>1. FrontMoves(q)
    BY DEF FrontStep
  <2>2. ToSet(outbox[q]) \subseteq ToSet(outbox'[q])
    BY <1>1, <2>1, EndBoxes DEF FrontStep
  <2> QED
    BY <1>1, <2>1, <2>2, EndBoxes DEF FrontMoves, rosterVars
<1>3. PICK n : n = link[p].nonce
  OBVIOUS
<1>4. /\ AreLinked(p, q)' <=> AreLinked(p, q)
      /\ Plugs(p, q)' <=> Plugs(p, q)
      /\ Owed(q, p)' <=> Owed(q, p)
      /\ Pulled(ToSet(outbox[q]), q, p) => Pulled(ToSet(outbox'[q]), q, p)
  BY <1>2 DEF AreLinked, Plugs, Owed, Pulled
<1>5. /\ link[p].peer = q /\ (link[p].phase = "plugged" \/ Flies(q, p, link[p].nonce)')
      /\ AreLinked(p, q) \/ Plugs(p, q)
  BY <1>2, <1>4 DEF Joined, Firm
<1>6. n \in 0..MaxTurns
  <2>1. link[p] # NoLink
    BY <1>1, <1>5, NoLinkIs
  <2> QED
    BY <1>1, <1>3, <2>1, EndIs
<1>7. CASE Flies(q, p, n)' /\ ~ Flies(q, p, n)
  <2>1. Say("start", q, p, n) \in ToSet(outbox'[q]) /\ Say("start", q, p, n) \notin ToSet(outbox[q])
    BY <1>2, <1>7 DEF Flies
  <2>2. Stops(q, p, n)
    <3>1. \A kind, b, i : Say("start", q, p, n) = Say(kind, q, b, i) => kind = "start" /\ b = p /\ i = n
      BY DEF Say
    <3>2. Say("start", q, p, n).kind = "start"
      BY DEF Say
    <3> QED
      BY <1>1, <1>2, <2>1, <3>1, <3>2, EndSays
  <2>3. StoppedFor(q, p, n)'
    BY <2>2 DEF Stops, Moves, StoppedFor
  <2>4. CASE AreLinked(p, q)
    BY <1>2, <1>3, <1>4, <2>3, <2>4 DEF Met
  <2>5. CASE Plugs(p, q)
    <3>1. Firm(p, q)
      BY <1>1, <2>5 DEF Plugs, Firm, Flies
    <3>2. Met(p, q)
      BY <2>5, <3>1 DEF Joined, Meets
    <3> QED
      BY <1>2, <1>3, <1>4, <2>3, <3>2 DEF Met
  <2> QED
    BY <1>5, <2>4, <2>5
<1>8. CASE Flies(q, p, n)' => Flies(q, p, n)
  <2>1. Firm(p, q)
    <3>1. n = link'[p].nonce
      BY <1>2, <1>3
    <3>2. link[p].phase = "plugged" \/ Flies(q, p, n)'
      BY <1>5, <3>1
    <3> QED
      BY <1>3, <1>5, <1>8, <3>2 DEF Firm
  <2>2. Met(p, q)
    BY <1>5, <2>1 DEF Joined, Meets
  <2>3. CASE AreLinked(p, q) /\ StoppedFor(q, p, n)
    <3>1. StoppedFor(q, p, n)' \/ Pulled(ToSet(outbox[q]), q, p) \/ Says(q, Cut(q, p))
      BY <1>3, <1>6, <2>1, <2>3, StoppedStays
    <3>2. Says(q, Cut(q, p)) => Pulled(ToSet(outbox'[q]), q, p)
      <4>1. Cut(q, p) \in Mail(q) /\ IsUnlink(Cut(q, p), q, p)
        <5>1. 0 \in 0..MaxTurns
          BY TurnIn
        <5> QED
          BY <1>1, <5>1, MailSaid DEF Cut, IsUnlink, UrgentKinds
      <4>2. Says(q, Cut(q, p)) => Cut(q, p) \in ToSet(outbox'[q])
        BY <1>1, <1>2, <4>1, EndBoxes
      <4> QED
        BY <4>1, <4>2 DEF Pulled
    <3> QED
      BY <1>2, <1>3, <1>4, <2>3, <3>1, <3>2 DEF Met
  <2>4. CASE ~ (AreLinked(p, q) /\ StoppedFor(q, p, n))
    BY <1>2, <1>3, <1>4, <2>2, <2>4 DEF Met
  <2> QED
    BY <2>3, <2>4
<1> QED
  BY <1>7, <1>8

\* The steps of everybody else.
LEMMA OtherMeets ==
    ASSUME Types, Meets, NEW x \in Player, FrontStep(x), EndMoves(x),
           NEW p \in Staying, NEW q \in Staying, p # q, x # p, x # q, Joined(p, q)'
    PROVE  Met(p, q)'
<1>1. p \in Player /\ q \in Player
  BY DEF Staying
<1>2. /\ link'[p] = link[p] /\ inbox'[p] = inbox[p] /\ outbox'[q] = outbox[q] /\ link'[q] = link[q]
      /\ links' = links /\ endedBy' = endedBy
  BY <1>1 DEF FrontStep, FrontMoves, rosterVars
<1>3. Carried(q)' = Carried(q)
  BY <1>1, EndBoxes DEF FrontStep
<1>4. Joined(p, q) /\ (Met(p, q) => Met(p, q)')
  BY <1>2, <1>3 DEF Joined, Firm, Flies, Plugs, AreLinked, Met, StoppedFor, Owed
<1> QED
  BY <1>4 DEF Meets

\* Every step lets the two meet.
LEMMA MeetsKept ==
    Types /\ Numbers /\ Attempts /\ Views /\ Lanes /\ Pasts /\ Meets /\ [Next]_vars => Meets'
<1> SUFFICES ASSUME Types, Numbers, Attempts, Views, Lanes, Pasts, Meets, [Next]_vars,
                    NEW p \in Staying', NEW q \in Staying', p # q, Joined(p, q)'
             PROVE  Met(p, q)'
  BY DEF Meets
<1>1. CASE UNCHANGED vars
  <2>1. UNCHANGED <<closing, links, endedBy, work, outbox, inbox, link>>
    BY <1>1 DEF vars, rosterVars, frontVars
  <2>2. p \in Staying /\ q \in Staying /\ Joined(p, q)
    BY <2>1 DEF Staying, Joined, Firm, Flies, Plugs, AreLinked, Carried
  <2>3. Met(p, q)
    BY <2>2 DEF Meets
  <2> QED
    BY <2>1, <2>3 DEF Met, StoppedFor, Owed, AreLinked, Carried
<1>2. p \in Player /\ q \in Player /\ p \notin closing' /\ q \notin closing'
  BY DEF Staying
<1>3. Types'
  BY TypesKept
<1>4. ASSUME closing \subseteq closing' PROVE p \in Staying /\ q \in Staying
  BY <1>2, <1>4 DEF Staying
<1>5. ASSUME NEW x \in Player, Route(x) PROVE Met(p, q)'
  <2>1. p \in Staying /\ q \in Staying
    BY <1>4, <1>5, RoutePasses DEF RouteMoves
  <2> QED
    BY <1>3, <1>5, <2>1, RouteMeets
<1>6. ASSUME NEW x \in Player, Frontend(x) PROVE Met(p, q)'
  <2>1. FrontStep(x) /\ EndMoves(x)
    BY <1>6, FrontSteps, EndSteps
  <2>2. p \in Staying /\ q \in Staying
    <3>1. closing' = closing
      BY <2>1 DEF FrontStep, FrontMoves, rosterVars
    <3> QED
      BY <1>4, <3>1
  <2>3. CASE x = p
    BY <1>3, <2>1, <2>2, <2>3, PluggedMeets
  <2>4. CASE x = q
    BY <1>6, <2>1, <2>2, <2>4, StoppedMeets
  <2>5. CASE x # p /\ x # q
    BY <2>1, <2>2, <2>5, OtherMeets
  <2> QED
    BY <2>3, <2>4, <2>5
<1>7. ASSUME NEW t \in Thread, Work(t) PROVE Met(p, q)'
  <2>1. CASE Delivering(t)
    <3>1. PICK m : Delivers(t, m)
      BY <2>1, DeliveringDoes
    <3>2. p \in Staying /\ q \in Staying
      BY <1>4, <3>1 DEF Delivers, rosterVars
    <3> QED
      BY <1>3, <3>1, <3>2, DeliversMeets
  <2>2. CASE Announced(t) \/ \E c \in Client : Announcing(t, c)
    <3>1. PICK c \in Client \cap closing : AnnounceStep(c)
      BY <2>2, AnnounceDoes
    <3>2. CloseStep
      BY <2>2, AnnounceTypes
    <3> QED
      BY <1>3, <3>1, <3>2, CloseMeets
  <2> QED
    BY <1>7, <2>1, <2>2 DEF Work
<1>8. ASSUME NEW c \in Client, Close(c) PROVE Met(p, q)'
  BY <1>3, <1>8, CloseDoes, CloseTypes, CloseMeets
<1> QED
  BY <1>1, <1>5, <1>6, <1>7, <1>8 DEF Next

\* Nobody is plugged in at first.
LEMMA MeetsInit == Init => Meets
<1> SUFFICES ASSUME Init, NEW p \in Staying, NEW q \in Staying, Firm(p, q) PROVE FALSE
  BY DEF Meets, Joined
<1>1. q \in Player /\ link[p] = NoLink
  BY DEF Init, Staying
<1> QED
  BY <1>1, NoLinkIs DEF Firm

\* What a reader carries to deliver is a job of its line.
LEMMA CarriedJob ==
    ASSUME Types, NEW q \in Player, NEW m \in Carried(q)
    PROVE  Deliver(m) \in ToSet(work[Reader(q)])
<1>1. work[Reader(q)] # <<>>
  BY JobCarries DEF Carried
<1>2. PICK j \in Task(q) : work[Reader(q)] = <<j>>
  BY <1>1 DEF Types, Wired, ReadTyped
<1>3. ToSet(work[Reader(q)]) = {j}
  BY <1>2, OneFirst
<1>4. j.do = "deliver" /\ j.message = m
  BY <1>3 DEF Carried, Carry
<1>5. j.do = "deliver" => j = Deliver(j.message)
  BY JobIs DEF Task
<1> QED
  BY <1>3, <1>4, <1>5

-----------------------------------------------------------------------------
\* A player plugs in once both have stopped for the same attempt, for any number of
\* clients: a plugged player's partner has stopped its game for it or is plugged in too, or
\* its Unlink is on its way, or the plugged player's own ended the record
\* (link.rs:16-18, 80-83).
THEOREM PlugsTogether == Spec => []PluggedTogether
<1> DEFINE Inv == Types /\ Numbers /\ Attempts /\ Views /\ Lanes /\ Lined /\ Pasts /\ Meets
<1>1. Init => Inv
  BY TypesInit, NumbersInit, AttemptsInit, ViewsInit, LanesInit, PastsInit, MeetsInit
<1>2. Inv /\ [Next]_vars => Inv'
  BY TypesKept, NumbersKeep, AttemptsKept, ViewsKept, LanesKept, LinedKept, PastsKept, MeetsKept
<1>3. Inv => PluggedTogether
  <2> SUFFICES ASSUME Types, Attempts, Meets,
                      NEW p \in Staying, NEW q \in Staying, PluggedInto(p, q)
               PROVE  LET unlink == Say("unlink", q, p, 0)
                      IN \/ link[q] \in {Phase(x, p, link[p].nonce) : x \in {"starting", "plugged"}}
                         \/ unlink \in ToSet(outbox[q])
                         \/ Deliver(unlink) \in ToSet(work[Reader(q)])
                         \/ unlink \in ToSet(inbox[p])
                         \/ <<p, q>> \in endedBy
    BY DEF PluggedTogether
  <2>1. p \in Player /\ q \in Player
    BY DEF Staying
  <2>2. p # q
    <3>1. link[p] # NoLink
      BY <2>1, NoLinkIs DEF PluggedInto
    <3> QED
      BY <2>1, <3>1, EndIs DEF PluggedInto
  <2>3. Met(p, q)
    BY <2>2 DEF PluggedInto, Plugs, Firm, Joined, Meets
  <2>4. StoppedFor(q, p, link[p].nonce) =>
          link[q] \in {Phase(x, p, link[p].nonce) : x \in {"starting", "plugged"}}
    BY DEF StoppedFor
  <2>5. Pulled(ToSet(outbox[q]), q, p) => Cut(q, p) \in ToSet(outbox[q])
    <3> SUFFICES ASSUME NEW m \in ToSet(outbox[q]), IsUnlink(m, q, p) PROVE Cut(q, p) \in ToSet(outbox[q])
      BY DEF Pulled
    <3>1. m.nonce = 0
      BY <2>1 DEF IsUnlink, Attempts, ZeroUnlinks
    <3>2. m \in Letter
      <4>1. outbox[q] \in Seq(Mail(q))
        BY <2>1 DEF Types, Wired, OutTyped
      <4>2. m \in Mail(q)
        BY <4>1 DEF ToSet
      <4> QED
        BY <4>2 DEF Mail
    <3>3. m = Cut(q, p)
      BY <3>1, <3>2, LetterIs DEF IsUnlink, Cut
    <3> QED
      BY <3>3
  <2>6. Cut(q, p) \in Carried(q) => Deliver(Cut(q, p)) \in ToSet(work[Reader(q)])
    BY <2>1, CarriedJob
  <2> QED
    BY <2>3, <2>4, <2>5, <2>6 DEF Met, Owed, Cut
<1> QED
  BY <1>1, <1>2, <1>3, PTL DEF Spec
=============================================================================
