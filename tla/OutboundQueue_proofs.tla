------------------------- MODULE OutboundQueue_proofs -------------------------
(***************************************************************************)
(* The outbound queue (OutboundQueue) counts its bytes exactly and keeps   *)
(* the promise of two lanes (TwoLanes), whatever is pushed, however large  *)
(* the caps, runs and merges are, and whenever the connection closes.      *)
(*                                                                         *)
(* What is counted and what is written of a batch are recursive functions  *)
(* of it; the first part shows what they do to a sequence that grows.      *)
(***************************************************************************)
EXTENDS OutboundQueue, WellFoundedInduction, TLAPS

-----------------------------------------------------------------------------
(* Induction.                                                              *)

\* A set of numbers has a least one.
LEMMA Least ==
    ASSUME NEW S \in SUBSET Nat, S # {}
    PROVE  \E m \in S : \A n \in S : m <= n
<1> DEFINE R == {ss \in Nat \X Nat : ss[1] < ss[2]}
<1>1. IsWellFoundedOn(R, Nat)
  BY NatLessThanWellFounded DEF OpToRel
<1> HIDE DEF R
<1>2. PICK x \in S : \A y \in S : ~ (<<y, x>> \in R)
  BY <1>1, WFMin
<1>3. ASSUME NEW y \in S PROVE x <= y
  <2>1. <<y, x>> \in R <=> y < x
    BY DEF R
  <2>2. QED
    BY <1>2, <2>1
<1>4. QED
  BY <1>3

LEMMA UpTo ==
    ASSUME NEW n \in Nat, NEW T, 0 \in T, \A i \in 1..n : i - 1 \in T => i \in T
    PROVE  \A i \in 0..n : i \in T
<1> SUFFICES ASSUME {i \in 0..n : i \notin T} # {}
             PROVE  FALSE
  OBVIOUS
<1>1. PICK m \in {i \in 0..n : i \notin T} : \A k \in {i \in 0..n : i \notin T} : m <= k
  <2>1. PICK out : out = {i \in 0..n : i \notin T}
    OBVIOUS
  <2>2. out \in SUBSET Nat /\ out # {}
    BY <2>1
  <2>3. QED
    BY <2>1, <2>2, Least
<1>2. m \in 1..n /\ m - 1 \in 0..n
  BY <1>1
<1>3. m - 1 \in T
  BY <1>1, <1>2
<1>4. QED
  BY <1>1, <1>2, <1>3

\* What holds of the empty sequence and of every sequence that grows holds of all.
LEMMA Growing ==
    ASSUME NEW S, NEW T, <<>> \in T,
           \A s \in Seq(S) : \A x \in S : s \in T => Append(s, x) \in T
    PROVE  Seq(S) \subseteq T
<1> DEFINE L == {i \in Nat : \A s \in Seq(S) : Len(s) = i => s \in T}
<1>1. 0 \in L
  <2>1. \A s \in Seq(S) : Len(s) = 0 => s = <<>>
    OBVIOUS
  <2>2. QED
    BY <2>1
<1>2. ASSUME NEW i \in Nat \ {0}, i - 1 \in L
      PROVE  i \in L
  <2> SUFFICES ASSUME NEW s \in Seq(S), Len(s) = i
               PROVE  s \in T
    OBVIOUS
  <2>1. PICK front : front = SubSeq(s, 1, i - 1)
    OBVIOUS
  <2>2. front \in Seq(S) /\ Len(front) = i - 1 /\ s[i] \in S /\ s = Append(front, s[i])
    BY <2>1
  <2>3. front \in T
    BY <1>2, <2>2
  <2>4. QED
    BY <2>2, <2>3
<1> HIDE DEF L
<1>3. ASSUME NEW s \in Seq(S)
      PROVE  s \in T
  <2>1. Len(s) \in Nat /\ \A i \in 1..Len(s) : i - 1 \in L => i \in L
    BY <1>2
  <2>2. \A i \in 0..Len(s) : i \in L
    BY <1>1, <2>1, UpTo
  <2>3. Len(s) \in L
    BY <2>1, <2>2
  <2>4. QED
    BY <2>3 DEF L
<1>4. QED
  BY <1>3

\* A function may be defined by what it is at 0 and how it goes on.
GoesOn(f, n, base, next) ==
    f[0] = base /\ \A i \in 1..n : f[i] = next[i][f[i - 1]]

LEMMA Recursion ==
    ASSUME NEW n \in Nat, NEW V, NEW base \in V, NEW next \in [1..n -> [V -> V]]
    PROVE  \E f \in [0..n -> V] : GoesOn(f, n, base, next)
<1> DEFINE Good(m, f) == f[0] = base /\ \A i \in 1..m : f[i] = next[i][f[i - 1]]
           T == {m \in 0..n : \E f \in [0..n -> V] : Good(m, f)}
<1>1. 0 \in T
  <2>1. PICK f : f = [i \in 0..n |-> base]
    OBVIOUS
  <2>2. f \in [0..n -> V] /\ Good(0, f)
    BY <2>1
  <2>3. QED
    BY <2>2
<1>2. ASSUME NEW m \in 1..n, m - 1 \in T
      PROVE  m \in T
  <2>1. PICK f \in [0..n -> V] : Good(m - 1, f)
    BY <1>2
  <2>2. PICK v \in V : v = next[m][f[m - 1]]
    BY <2>1
  <2>3. PICK g : g = [f EXCEPT ![m] = v]
    OBVIOUS
  <2>4. g \in [0..n -> V] /\ g[m] = v /\ \A i \in 0..n : i # m => g[i] = f[i]
    BY <2>3
  <2>5. Good(m, g)
    <3>1. g[0] = base
      BY <2>1, <2>4
    <3>2. ASSUME NEW i \in 1..m
          PROVE  g[i] = next[i][g[i - 1]]
      <4>1. g[i - 1] = f[i - 1]
        BY <2>4
      <4>2. CASE i = m
        BY <2>2, <2>4, <4>1, <4>2
      <4>3. CASE i \in 1..(m - 1)
        BY <2>1, <2>4, <4>1, <4>3
      <4>4. QED
        BY <4>2, <4>3
    <3>3. QED
      BY <3>1, <3>2
  <2>6. QED
    BY <2>4, <2>5
<1> HIDE DEF T
<1>3. n \in T
  <2>1. \A i \in 0..n : i \in T
    BY <1>1, <1>2, UpTo
  <2>2. QED
    BY <2>1
<1>4. PICK f \in [0..n -> V] : Good(n, f)
  BY <1>3 DEF T
<1>5. QED
  BY <1>4 DEF GoesOn

-----------------------------------------------------------------------------
(* What is counted.                                                        *)

\* f[i] is the bytes of the first i items of s.
Adds(s, f) ==
    /\ f \in [0..Len(s) -> Nat] /\ f[0] = 0
    /\ \A i \in 1..Len(s) : f[i] = f[i - 1] + Size(s[i])

LEMMA TotalIs ==
    ASSUME NEW s \in Seq(Item)
    PROVE  \E f : Adds(s, f) /\ Total(s) = f[Len(s)]
<1>1. PICK n \in Nat : n = Len(s)
  OBVIOUS
<1>2. \A i \in 1..n : Size(s[i]) \in Nat
  BY <1>1, SizeAssumption
<1>3. PICK next : next = [i \in 1..n |-> [v \in Nat |-> v + Size(s[i])]]
  OBVIOUS
<1>4. next \in [1..n -> [Nat -> Nat]]
  BY <1>2, <1>3
<1>5. PICK f \in [0..n -> Nat] : GoesOn(f, n, 0, next)
  <2>1. 0 \in Nat
    OBVIOUS
  <2>2. QED
    BY <1>4, <2>1, Recursion
<1>6. f = [i \in 0..Len(s) |-> IF i = 0 THEN 0 ELSE f[i - 1] + Size(s[i])]
  <2>1. ASSUME NEW i \in 1..n
        PROVE  f[i] = f[i - 1] + Size(s[i])
    <3>1. f[i - 1] \in Nat /\ f[i] = next[i][f[i - 1]]
      BY <1>5 DEF GoesOn
    <3>2. QED
      BY <1>3, <3>1
  <2>2. f[0] = 0
    BY <1>5 DEF GoesOn
  <2>3. QED
    BY <1>1, <1>5, <2>1, <2>2
<1>7. PICK g : g = CHOOSE h : h = [i \in 0..Len(s) |-> IF i = 0 THEN 0 ELSE h[i - 1] + Size(s[i])]
  OBVIOUS
<1>8. g = [i \in 0..Len(s) |-> IF i = 0 THEN 0 ELSE g[i - 1] + Size(s[i])]
  BY <1>6, <1>7, Zenon
<1>9. Total(s) = g[Len(s)]
  BY <1>7, Zenon DEF Total
<1>10. g[0] = 0 /\ \A i \in 1..n : g[i] = g[i - 1] + Size(s[i])
  BY <1>1, <1>8
<1>11. \A i \in 0..n : g[i] \in Nat
  <2>1. PICK T : T = {i \in 0..n : g[i] \in Nat}
    OBVIOUS
  <2>2. 0 \in T /\ \A i \in 1..n : i - 1 \in T => i \in T
    BY <1>2, <1>10, <2>1
  <2>3. QED
    BY <2>1, <2>2, UpTo
<1>12. g \in [0..n -> Nat]
  BY <1>1, <1>8, <1>11
<1>13. QED
  BY <1>1, <1>9, <1>10, <1>12 DEF Adds

LEMMA TotalGrows ==
    ASSUME NEW s \in Seq(Item)
    PROVE  /\ Total(s) \in Nat
           /\ \A x \in Item : Total(Append(s, x)) = Total(s) + Size(x)
<1>1. PICK f : Adds(s, f) /\ Total(s) = f[Len(s)]
  BY TotalIs
<1>2. ASSUME NEW x \in Item
      PROVE  Total(Append(s, x)) = Total(s) + Size(x)
  <2>1. PICK n \in Nat : n = Len(s)
    OBVIOUS
  <2>2. PICK t : t = Append(s, x)
    OBVIOUS
  <2>3. t \in Seq(Item) /\ Len(t) = n + 1 /\ t[n + 1] = x /\ \A i \in 1..n : t[i] = s[i]
    BY <2>1, <2>2
  <2>4. PICK g : Adds(t, g) /\ Total(t) = g[Len(t)]
    BY <2>3, TotalIs
  <2>5. \A i \in 0..n : g[i] = f[i]
    <3>1. PICK T : T = {i \in 0..n : g[i] = f[i]}
      OBVIOUS
    <3>2. 0 \in T
      BY <1>1, <2>4, <3>1 DEF Adds
    <3>3. \A i \in 1..n : i - 1 \in T => i \in T
      BY <1>1, <2>1, <2>3, <2>4, <3>1 DEF Adds
    <3>4. QED
      BY <3>1, <3>2, <3>3, UpTo
  <2>6. g[n + 1] = g[n] + Size(x)
    BY <2>3, <2>4 DEF Adds
  <2>7. QED
    BY <1>1, <2>1, <2>2, <2>3, <2>4, <2>5, <2>6
<1>3. Total(s) \in Nat
  BY <1>1 DEF Adds
<1>4. QED
  BY <1>2, <1>3

LEMMA TotalOfNone == Total(<<>>) = 0
<1>1. <<>> \in Seq(Item) /\ Len(<<>>) = 0
  OBVIOUS
<1>2. PICK s \in Seq(Item) : s = <<>>
  BY <1>1
<1>3. PICK f : Adds(s, f) /\ Total(s) = f[Len(s)]
  BY TotalIs
<1>4. QED
  BY <1>1, <1>2, <1>3 DEF Adds

-----------------------------------------------------------------------------
(* What is written.                                                        *)

\* f[i] is what is written of the first i items of s.
Writes(s, f) ==
    /\ f \in [0..Len(s) -> Seq(Item)] /\ f[0] = <<>>
    /\ \A i \in 1..Len(s) : f[i] = IF Fits(s[i]) THEN Append(f[i - 1], s[i]) ELSE f[i - 1]

LEMMA EncodedIs ==
    ASSUME NEW s \in Seq(Item)
    PROVE  \E f : Writes(s, f) /\ Encoded(s) = f[Len(s)]
<1>1. PICK n \in Nat : n = Len(s)
  OBVIOUS
<1>2. \A i \in 1..n : s[i] \in Item
  BY <1>1
<1>3. PICK next : next = [i \in 1..n |-> [v \in Seq(Item) |-> IF Fits(s[i]) THEN Append(v, s[i]) ELSE v]]
  OBVIOUS
<1>4. next \in [1..n -> [Seq(Item) -> Seq(Item)]]
  BY <1>2, <1>3
<1>5. PICK f \in [0..n -> Seq(Item)] : GoesOn(f, n, <<>>, next)
  <2>1. <<>> \in Seq(Item)
    OBVIOUS
  <2>2. QED
    BY <1>4, <2>1, Recursion
<1>6. f = [i \in 0..Len(s) |->
             IF i = 0 THEN <<>> ELSE IF Fits(s[i]) THEN Append(f[i - 1], s[i]) ELSE f[i - 1]]
  <2>1. ASSUME NEW i \in 1..n
        PROVE  f[i] = IF Fits(s[i]) THEN Append(f[i - 1], s[i]) ELSE f[i - 1]
    <3>1. f[i - 1] \in Seq(Item) /\ f[i] = next[i][f[i - 1]]
      BY <1>5 DEF GoesOn
    <3>2. QED
      BY <1>3, <3>1
  <2>2. f[0] = <<>>
    BY <1>5 DEF GoesOn
  <2>3. ASSUME NEW i \in 0..n
        PROVE  f[i] = IF i = 0 THEN <<>> ELSE IF Fits(s[i]) THEN Append(f[i - 1], s[i]) ELSE f[i - 1]
    <3>1. i = 0 \/ (i # 0 /\ i \in 1..n)
      OBVIOUS
    <3>2. QED
      BY <2>1, <2>2, <3>1, Zenon
  <2>4. QED
    BY <1>1, <1>5, <2>3, Zenon
<1>7. PICK g : g = CHOOSE h : h = [i \in 0..Len(s) |->
             IF i = 0 THEN <<>> ELSE IF Fits(s[i]) THEN Append(h[i - 1], s[i]) ELSE h[i - 1]]
  OBVIOUS
<1>8. g = [i \in 0..Len(s) |->
             IF i = 0 THEN <<>> ELSE IF Fits(s[i]) THEN Append(g[i - 1], s[i]) ELSE g[i - 1]]
  BY <1>6, <1>7, Zenon
<1>9. Encoded(s) = g[Len(s)]
  BY <1>7, Zenon DEF Encoded
<1>10. g[0] = <<>> /\ \A i \in 1..n : g[i] = IF Fits(s[i]) THEN Append(g[i - 1], s[i]) ELSE g[i - 1]
  <2>1. g[0] = <<>>
    BY <1>1, <1>8
  <2>2. ASSUME NEW i \in 1..n
        PROVE  g[i] = IF Fits(s[i]) THEN Append(g[i - 1], s[i]) ELSE g[i - 1]
    <3>1. i \in 0..Len(s) /\ i # 0
      BY <1>1
    <3>2. QED
      BY <1>8, <3>1
  <2>3. QED
    BY <2>1, <2>2
<1>11. \A i \in 0..n : g[i] \in Seq(Item)
  <2>1. PICK T : T = {i \in 0..n : g[i] \in Seq(Item)}
    OBVIOUS
  <2>2. 0 \in T /\ \A i \in 1..n : i - 1 \in T => i \in T
    <3>1. 0 \in T
      <4>1. <<>> \in Seq(Item) /\ 0 \in 0..n
        OBVIOUS
      <4>2. QED
        BY <1>10, <2>1, <4>1
    <3>2. ASSUME NEW i \in 1..n, i - 1 \in T
          PROVE  i \in T
      <4>1. g[i - 1] \in Seq(Item) /\ s[i] \in Item
        BY <1>2, <2>1, <3>2
      <4>2. Append(g[i - 1], s[i]) \in Seq(Item)
        BY <4>1
      <4>3. g[i] \in Seq(Item)
        BY <1>10, <4>1, <4>2
      <4>4. QED
        BY <2>1, <4>3
    <3>3. QED
      BY <3>1, <3>2
  <2>3. QED
    BY <2>1, <2>2, UpTo
<1>12. g \in [0..n -> Seq(Item)]
  BY <1>1, <1>8, <1>11
<1>13. QED
  BY <1>1, <1>9, <1>10, <1>12 DEF Writes

LEMMA EncodedGrows ==
    ASSUME NEW s \in Seq(Item)
    PROVE  /\ Encoded(s) \in Seq(Item)
           /\ \A x \in Item :
                 Encoded(Append(s, x)) = IF Fits(x) THEN Append(Encoded(s), x) ELSE Encoded(s)
<1>1. PICK f : Writes(s, f) /\ Encoded(s) = f[Len(s)]
  BY EncodedIs
<1>2. ASSUME NEW x \in Item
      PROVE  Encoded(Append(s, x)) = IF Fits(x) THEN Append(Encoded(s), x) ELSE Encoded(s)
  <2>1. PICK n \in Nat : n = Len(s)
    OBVIOUS
  <2>2. PICK t : t = Append(s, x)
    OBVIOUS
  <2>3. t \in Seq(Item) /\ Len(t) = n + 1 /\ t[n + 1] = x /\ \A i \in 1..n : t[i] = s[i]
    BY <2>1, <2>2
  <2>4. PICK g : Writes(t, g) /\ Encoded(t) = g[Len(t)]
    BY <2>3, EncodedIs
  <2>5. \A i \in 0..n : g[i] = f[i]
    <3>1. PICK T : T = {i \in 0..n : g[i] = f[i]}
      OBVIOUS
    <3>2. 0 \in T
      BY <1>1, <2>4, <3>1 DEF Writes
    <3>3. \A i \in 1..n : i - 1 \in T => i \in T
      BY <1>1, <2>1, <2>3, <2>4, <3>1 DEF Writes
    <3>4. QED
      BY <3>1, <3>2, <3>3, UpTo
  <2>6. g[n + 1] = IF Fits(x) THEN Append(g[n], x) ELSE g[n]
    BY <2>3, <2>4 DEF Writes
  <2>7. QED
    BY <1>1, <2>1, <2>2, <2>3, <2>4, <2>5, <2>6
<1>3. Encoded(s) \in Seq(Item)
  BY <1>1 DEF Writes
<1>4. QED
  BY <1>2, <1>3

LEMMA EncodedOfNone == Encoded(<<>>) = <<>>
<1>1. <<>> \in Seq(Item) /\ Len(<<>>) = 0
  OBVIOUS
<1>2. PICK s \in Seq(Item) : s = <<>>
  BY <1>1
<1>3. PICK f : Writes(s, f) /\ Encoded(s) = f[Len(s)]
  BY EncodedIs
<1>4. QED
  BY <1>1, <1>2, <1>3 DEF Writes

\* What is written of two batches, one after the other.
LEMMA EncodedConcat ==
    ASSUME NEW s \in Seq(Item), NEW t \in Seq(Item)
    PROVE  Encoded(s \o t) = Encoded(s) \o Encoded(t)
<1>1. PICK T : T = {u \in Seq(Item) : Encoded(s \o u) = Encoded(s) \o Encoded(u)}
  OBVIOUS
<1>2. <<>> \in T
  <2>1. \A u \in Seq(Item) : u \o <<>> = u
    OBVIOUS
  <2>2. s \o <<>> = s /\ Encoded(s) \o <<>> = Encoded(s)
    BY <2>1, EncodedGrows
  <2>3. <<>> \in Seq(Item)
    OBVIOUS
  <2>4. QED
    BY <1>1, <2>2, <2>3, EncodedOfNone
<1>3. ASSUME NEW u \in Seq(Item), NEW x \in Item, u \in T
      PROVE  Append(u, x) \in T
  <2>1. \A a, b \in Seq(Item) : a \o Append(b, x) = Append(a \o b, x) /\ a \o b \in Seq(Item)
    OBVIOUS
  <2>2. Encoded(s \o u) = Encoded(s) \o Encoded(u)
    BY <1>1, <1>3
  <2>3. Encoded(s) \in Seq(Item) /\ Encoded(u) \in Seq(Item) /\ s \o u \in Seq(Item)
    BY EncodedGrows
  <2>4. Encoded(s \o Append(u, x)) = IF Fits(x) THEN Append(Encoded(s \o u), x) ELSE Encoded(s \o u)
    <3>1. s \o Append(u, x) = Append(s \o u, x)
      BY <2>1
    <3>2. QED
      BY <2>3, <3>1, EncodedGrows
  <2>5. Encoded(Append(u, x)) = IF Fits(x) THEN Append(Encoded(u), x) ELSE Encoded(u)
    BY EncodedGrows
  <2>6. Encoded(s) \o Append(Encoded(u), x) = Append(Encoded(s) \o Encoded(u), x)
    BY <2>1, <2>3
  <2>7. Encoded(s \o Append(u, x)) = Encoded(s) \o Encoded(Append(u, x))
    BY <2>2, <2>4, <2>5, <2>6, Zenon
  <2>8. Append(u, x) \in Seq(Item)
    OBVIOUS
  <2>9. QED
    BY <1>1, <2>7, <2>8
<1>4. t \in T
  BY <1>2, <1>3, Growing
<1>5. QED
  BY <1>1, <1>4

-----------------------------------------------------------------------------
(* Merging, and where a run may end.                                       *)

\* m[i] is the size of the stream message that the i-th item of s leaves open.
Merges(s, m) ==
    /\ m \in [0..Len(s) -> 0..(MergeLimit - 1)] /\ m[0] = 0
    /\ \A i \in 1..Len(s) : s[i].kind # "stream" => m[i] = 0
    /\ \A i \in 1..Len(s) : m[i] # 0 => m[i] = m[i - 1] + Size(s[i])

LEMMA MergedIs ==
    ASSUME NEW s \in Seq(Item)
    PROVE  Merges(s, Merged(s))
<1>1. PICK n \in Nat : n = Len(s)
  OBVIOUS
<1>2. \A i \in 1..n : Size(s[i]) \in Nat
  BY <1>1, SizeAssumption
<1>3. PICK V : V = 0..(MergeLimit - 1)
  OBVIOUS
<1>4. 0 \in V /\ V \subseteq Nat
  BY <1>3, LimitsAssumption
<1> DEFINE On(i, v) == IF s[i].kind # "stream" THEN 0
                       ELSE IF v + Size(s[i]) >= MergeLimit THEN 0 ELSE v + Size(s[i])
<1>5. \A i \in 1..n : \A v \in V : On(i, v) \in V
  BY <1>2, <1>3, <1>4, LimitsAssumption
<1>6. PICK next : next = [i \in 1..n |-> [v \in V |-> On(i, v)]]
  OBVIOUS
<1>7. next \in [1..n -> [V -> V]] /\ \A i \in 1..n : \A v \in V : next[i][v] = On(i, v)
  BY <1>5, <1>6
<1>8. PICK f \in [0..n -> V] : GoesOn(f, n, 0, next)
  BY <1>4, <1>7, Recursion
<1>9. ASSUME NEW i \in 0..n
      PROVE  f[i] = IF i = 0 \/ s[i].kind # "stream" THEN 0
                    ELSE IF f[i - 1] + Size(s[i]) >= MergeLimit THEN 0 ELSE f[i - 1] + Size(s[i])
  <2>1. CASE i = 0
    BY <1>8, <2>1 DEF GoesOn
  <2>2. CASE i \in 1..n
    <3>1. f[i - 1] \in V /\ f[i] = next[i][f[i - 1]] /\ i # 0
      BY <1>8, <2>2 DEF GoesOn
    <3>2. f[i] = On(i, f[i - 1])
      BY <1>7, <2>2, <3>1
    <3>3. QED
      BY <3>1, <3>2
  <2>3. QED
    BY <2>1, <2>2
<1>10. f = [i \in 0..Len(s) |->
              IF i = 0 \/ s[i].kind # "stream" THEN 0
              ELSE IF f[i - 1] + Size(s[i]) >= MergeLimit THEN 0 ELSE f[i - 1] + Size(s[i])]
  BY <1>1, <1>8, <1>9, Zenon
<1>11. PICK g : g = CHOOSE h : h = [i \in 0..Len(s) |->
              IF i = 0 \/ s[i].kind # "stream" THEN 0
              ELSE IF h[i - 1] + Size(s[i]) >= MergeLimit THEN 0 ELSE h[i - 1] + Size(s[i])]
  OBVIOUS
<1>12. g = [i \in 0..Len(s) |->
              IF i = 0 \/ s[i].kind # "stream" THEN 0
              ELSE IF g[i - 1] + Size(s[i]) >= MergeLimit THEN 0 ELSE g[i - 1] + Size(s[i])]
  BY <1>10, <1>11, Zenon
<1>13. Merged(s) = g
  BY <1>11, Zenon DEF Merged
<1>14. g[0] = 0 /\ \A i \in 1..n : g[i] = On(i, g[i - 1])
  <2>1. g[0] = 0
    BY <1>1, <1>12
  <2>2. ASSUME NEW i \in 1..n
        PROVE  g[i] = On(i, g[i - 1])
    <3>1. i \in 0..Len(s) /\ i # 0
      BY <1>1
    <3>2. QED
      BY <1>12, <3>1
  <2>3. QED
    BY <2>1, <2>2
<1>15. \A i \in 0..n : g[i] \in V
  <2>1. PICK T : T = {i \in 0..n : g[i] \in V}
    OBVIOUS
  <2>2. 0 \in T
    BY <1>4, <1>14, <2>1
  <2>3. ASSUME NEW i \in 1..n, i - 1 \in T
        PROVE  i \in T
    <3>1. g[i - 1] \in V /\ g[i] = On(i, g[i - 1])
      BY <1>14, <2>1, <2>3
    <3> HIDE DEF On
    <3>2. g[i] \in V
      BY <1>5, <3>1
    <3>3. QED
      BY <2>1, <3>2
  <2>4. QED
    BY <2>1, <2>2, <2>3, UpTo
<1>16. g \in [0..Len(s) -> 0..(MergeLimit - 1)]
  BY <1>1, <1>3, <1>12, <1>15
<1>17. ASSUME NEW i \in 1..Len(s)
       PROVE  /\ s[i].kind # "stream" => g[i] = 0
              /\ g[i] # 0 => g[i] = g[i - 1] + Size(s[i])
  BY <1>1, <1>14
<1>18. QED
  BY <1>13, <1>14, <1>16, <1>17 DEF Merges

\* The first i items of a batch.
First(s, i) == SubSeq(s, 1, i)

LEMMA FirstGrows ==
    ASSUME NEW s \in Seq(Item), NEW i \in 1..Len(s)
    PROVE  /\ First(s, i) \in Seq(Item) /\ First(s, i - 1) \in Seq(Item) /\ s[i] \in Item
           /\ First(s, i) = Append(First(s, i - 1), s[i])
<1>1. First(s, i) \in Seq(Item) /\ First(s, i - 1) \in Seq(Item) /\ s[i] \in Item
  BY DEF First
<1>2. First(s, i) = Append(First(s, i - 1), s[i])
  <2>1. PICK a : a = First(s, i)
    OBVIOUS
  <2>2. PICK b : b = Append(First(s, i - 1), s[i])
    OBVIOUS
  <2>3. a \in Seq(Item) /\ Len(a) = i /\ \A j \in 1..i : a[j] = s[j]
    BY <2>1 DEF First
  <2>4. b \in Seq(Item) /\ Len(b) = i /\ \A j \in 1..i : b[j] = s[j]
    BY <1>1, <2>2 DEF First
  <2>5. a = b
    BY <2>3, <2>4
  <2>6. QED
    BY <2>1, <2>2, <2>5
<1>3. QED
  BY <1>1, <1>2

LEMMA FirstEncoded ==
    ASSUME NEW s \in Seq(Item), NEW i \in 1..Len(s)
    PROVE  /\ Encoded(First(s, i)) = IF Fits(s[i]) THEN Append(Encoded(First(s, i - 1)), s[i])
                                     ELSE Encoded(First(s, i - 1))
           /\ EncodedBytes(First(s, i)) = EncodedBytes(First(s, i - 1))
                                          + IF Fits(s[i]) THEN Size(s[i]) ELSE 0
           /\ EncodedBytes(First(s, i)) \in Nat /\ EncodedBytes(First(s, i - 1)) \in Nat
<1>1. PICK a \in Seq(Item) : a = First(s, i - 1)
  BY FirstGrows
<1>2. PICK x \in Item : x = s[i]
  BY FirstGrows
<1>3. First(s, i) = Append(a, x)
  BY <1>1, <1>2, FirstGrows
<1>4. Encoded(Append(a, x)) = IF Fits(x) THEN Append(Encoded(a), x) ELSE Encoded(a)
  BY EncodedGrows
<1>5. Encoded(a) \in Seq(Item)
  BY EncodedGrows
<1>6. Total(Encoded(a)) \in Nat /\ Total(Append(Encoded(a), x)) = Total(Encoded(a)) + Size(x)
  BY <1>5, TotalGrows
<1>7. Size(x) \in Nat
  BY SizeAssumption
<1>8. QED
  BY <1>1, <1>2, <1>3, <1>4, <1>6, <1>7 DEF EncodedBytes

\* Stream items all fit a message or none of them does.
LEMMA StreamFits ==
    ASSUME NEW x, NEW y, x.kind = "stream", y.kind = "stream", Fits(x)
    PROVE  Fits(y)
BY DEF Fits

\* An item that fits ends a message unless a stream message goes on after it.
LEMMA NoBoundary ==
    ASSUME NEW s \in Seq(Item), NEW i \in 1..Len(s), Fits(s[i]), i \notin Boundaries(s)
    PROVE  /\ i + 1 \in 1..Len(s) /\ Fits(s[i + 1])
           /\ Merged(s)[i] \in 1..(MergeLimit - 1)
           /\ Merged(s)[i] = Merged(s)[i - 1] + Size(s[i])
<1>1. PICK m : m = Merged(s)
  OBVIOUS
<1>2. Merges(s, m)
  BY <1>1, MergedIs
<1>3. i # Len(s) /\ m[i] # 0 /\ s[i + 1].kind = "stream"
  BY <1>1 DEF Boundaries
<1>4. s[i].kind = "stream"
  BY <1>2, <1>3 DEF Merges
<1>5. Fits(s[i + 1])
  BY <1>3, <1>4, StreamFits
<1>6. m[i] \in 1..(MergeLimit - 1) /\ m[i] = m[i - 1] + Size(s[i])
  BY <1>2, <1>3 DEF Merges
<1>7. QED
  BY <1>1, <1>3, <1>5, <1>6

\* Where no run can end there is nothing to write.
LEMMA NothingToWrite ==
    ASSUME NEW s \in Seq(Item), Boundaries(s) = {}
    PROVE  Encoded(s) = <<>>
<1>1. PICK n \in Nat : n = Len(s)
  OBVIOUS
<1>2. \A i \in 1..n : ~Fits(s[i])
  <2>1. PICK T : T = {k \in 0..n : \A i \in 1..n : i > n - k => ~Fits(s[i])}
    OBVIOUS
  <2>2. 0 \in T
    BY <2>1
  <2>3. ASSUME NEW k \in 1..n, k - 1 \in T
        PROVE  k \in T
    <3>1. PICK j \in 1..n : j = n - k + 1
      OBVIOUS
    <3>2. ~Fits(s[j])
      <4>1. j + 1 \in 1..n => ~Fits(s[j + 1])
        BY <2>1, <2>3, <3>1
      <4>2. QED
        BY <1>1, <4>1, NoBoundary
    <3>3. QED
      BY <2>1, <2>3, <3>1, <3>2
  <2>4. n \in T
    <3>1. \A k \in 0..n : k \in T
      BY <2>2, <2>3, UpTo
    <3>2. QED
      BY <3>1
  <2>5. QED
    BY <2>1, <2>4
<1>3. \A i \in 0..n : Encoded(First(s, i)) = <<>>
  <2>1. PICK T : T = {i \in 0..n : Encoded(First(s, i)) = <<>>}
    OBVIOUS
  <2>2. 0 \in T
    <3>1. First(s, 0) = <<>>
      BY DEF First
    <3>2. QED
      BY <2>1, <3>1, EncodedOfNone
  <2>3. ASSUME NEW i \in 1..n, i - 1 \in T
        PROVE  i \in T
    BY <1>1, <1>2, <2>1, <2>3, FirstEncoded
  <2>4. QED
    BY <2>1, <2>2, <2>3, UpTo
<1>4. First(s, n) = s
  BY <1>1 DEF First
<1>5. QED
  BY <1>3, <1>4

\* There is a first run, and no run could have ended before it.
LEMMA RunEndIs ==
    ASSUME NEW s \in Seq(Item), Boundaries(s) # {}
    PROVE  /\ RunEnd(s) \in Boundaries(s)
           /\ \A j \in Boundaries(s) : j < RunEnd(s) => EncodedBytes(First(s, j)) < WriteRun
<1>1. PICK B : B = Boundaries(s)
  OBVIOUS
<1>2. B # {} /\ \A j \in B : j \in Nat /\ j \in 1..Len(s)
  <2>1. \A j \in B : j \in 1..Len(s)
    BY <1>1 DEF Boundaries
  <2>2. Len(s) \in Nat
    OBVIOUS
  <2>3. QED
    BY <1>1, <2>1, <2>2
<1> DEFINE Ends(i) == /\ \/ EncodedBytes(First(s, i)) >= WriteRun
                         \/ \A j \in B : j <= i
                      /\ \A j \in B : j < i => EncodedBytes(First(s, j)) < WriteRun
<1>3. \A j \in B : EncodedBytes(First(s, j)) \in Nat
  BY <1>2, FirstEncoded
<1>4. \E i \in B : Ends(i)
  <2>1. PICK C : C = {i \in B : EncodedBytes(First(s, i)) >= WriteRun}
    OBVIOUS
  <2>2. CASE C # {}
    <3>1. C \in SUBSET Nat
      BY <1>2, <2>1
    <3>2. PICK i \in C : \A j \in C : i <= j
      BY <2>2, <3>1, Least
    <3>3. ASSUME NEW j \in B, j < i
          PROVE  EncodedBytes(First(s, j)) < WriteRun
      <4>1. j \notin C
        BY <1>2, <2>1, <3>2, <3>3
      <4>2. QED
        BY <1>3, <2>1, <4>1, LimitsAssumption
    <3>4. QED
      BY <2>1, <3>2, <3>3
  <2>3. CASE C = {}
    <3>1. PICK n \in Nat : n = Len(s)
      OBVIOUS
    <3>2. PICK D : D = {n - j : j \in B}
      OBVIOUS
    <3>3. D \in SUBSET Nat /\ D # {}
      <4>1. \A j \in B : n - j \in Nat
        BY <1>2, <3>1
      <4>2. QED
        BY <1>2, <3>2, <4>1
    <3>4. PICK d \in D : \A e \in D : d <= e
      BY <3>3, Least
    <3>5. PICK i \in B : d = n - i
      BY <3>2, <3>4
    <3>6. ASSUME NEW j \in B
          PROVE  j <= i
      <4>1. n - i <= n - j
        BY <3>2, <3>4, <3>5
      <4>2. i \in Nat /\ j \in Nat
        BY <1>2
      <4>3. QED
        BY <3>1, <4>1, <4>2
    <3>7. \A j \in B : EncodedBytes(First(s, j)) < WriteRun
      BY <1>3, <2>1, <2>3, LimitsAssumption
    <3>8. QED
      BY <3>6, <3>7
  <2>4. QED
    BY <2>2, <2>3
<1>5. RunEnd(s) = CHOOSE i \in B : Ends(i)
  BY <1>1, Zenon DEF RunEnd, First
<1>6. RunEnd(s) \in B /\ Ends(RunEnd(s))
  BY <1>4, <1>5, Zenon
<1>7. QED
  BY <1>1, <1>6

\* A run is below WRITE_RUN before its last message, and an item of that message
\* but the last leaves less than a merged message open.
LEMMA RunBound ==
    ASSUME NEW s \in Seq(Item), Boundaries(s) # {}
    PROVE  EncodedBytes(First(s, RunEnd(s) - 1)) < WriteRun + MergeLimit
<1>1. PICK end : end = RunEnd(s)
  OBVIOUS
<1>2. PICK B : B = Boundaries(s)
  OBVIOUS
<1>3. end \in B /\ \A j \in B : j < end => EncodedBytes(First(s, j)) < WriteRun
  BY <1>1, <1>2, RunEndIs
<1>4. end \in 1..Len(s)
  BY <1>2, <1>3 DEF Boundaries
<1>5. PICK m : m = Merged(s)
  OBVIOUS
<1>6. m \in [0..Len(s) -> 0..(MergeLimit - 1)]
  BY <1>5, MergedIs DEF Merges
<1> DEFINE Open(i) == IF i \in 1..Len(s) /\ Fits(s[i]) THEN m[i] ELSE 0
<1>7. PICK T : T = {i \in 0..(end - 1) : EncodedBytes(First(s, i)) < WriteRun + Open(i)}
  OBVIOUS
<1>8. EncodedBytes(First(s, 0)) = 0
  <2>1. First(s, 0) = <<>>
    BY DEF First
  <2>2. QED
    BY <2>1, EncodedOfNone, TotalOfNone DEF EncodedBytes
<1>9. 0 \in T
  BY <1>4, <1>7, <1>8, LimitsAssumption
<1>10. ASSUME NEW i \in 1..(end - 1), i - 1 \in T
       PROVE  i \in T
  <2>1. i \in 1..Len(s) /\ i - 1 \in 0..Len(s) /\ Size(s[i]) \in Nat
    <3>1. i \in 1..Len(s) /\ s[i] \in Item
      BY <1>4
    <3>2. QED
      BY <3>1, SizeAssumption
  <2>2. m[i] \in Nat /\ m[i - 1] \in Nat /\ WriteRun \in Nat
    BY <1>6, <2>1, LimitsAssumption
  <2>3. EncodedBytes(First(s, i - 1)) < WriteRun + Open(i - 1)
    BY <1>7, <1>10
  <2>4. /\ EncodedBytes(First(s, i)) = EncodedBytes(First(s, i - 1)) + IF Fits(s[i]) THEN Size(s[i]) ELSE 0
        /\ EncodedBytes(First(s, i)) \in Nat /\ EncodedBytes(First(s, i - 1)) \in Nat
    BY <2>1, FirstEncoded
  <2>5. CASE i \in B
    <3>1. EncodedBytes(First(s, i)) < WriteRun
      BY <1>3, <1>4, <2>5
    <3>2. QED
      BY <1>7, <2>1, <2>2, <2>4, <3>1
  <2>6. CASE i \notin B /\ Fits(s[i])
    <3>1. m[i] = m[i - 1] + Size(s[i])
      BY <1>2, <1>5, <2>1, <2>6, NoBoundary
    <3>2. EncodedBytes(First(s, i - 1)) < WriteRun + m[i - 1]
      BY <2>2, <2>3, <2>4
    <3>3. EncodedBytes(First(s, i)) < WriteRun + m[i]
      BY <2>1, <2>2, <2>4, <2>6, <3>1, <3>2
    <3>4. QED
      BY <1>7, <2>1, <2>6, <3>3
  <2>7. CASE ~Fits(s[i])
    <3>1. EncodedBytes(First(s, i)) = EncodedBytes(First(s, i - 1))
      BY <2>4, <2>7
    <3>2. EncodedBytes(First(s, i - 1)) < WriteRun
      <4>1. CASE i - 1 \in 1..Len(s) /\ Fits(s[i - 1])
        <5>1. i - 1 \in B
          <6>1. PICK j \in 1..Len(s) : j = i - 1
            BY <4>1
          <6>2. j + 1 = i
            BY <6>1, <2>1
          <6>3. QED
            BY <1>2, <2>7, <4>1, <6>1, <6>2, NoBoundary
        <5>2. QED
          BY <1>3, <1>4, <5>1
      <4>2. CASE ~(i - 1 \in 1..Len(s) /\ Fits(s[i - 1]))
        BY <2>2, <2>3, <2>4, <4>2
      <4>3. QED
        BY <4>1, <4>2
    <3>3. QED
      BY <1>7, <2>7, <3>1, <3>2, <2>2, <2>4
  <2>8. QED
    BY <2>5, <2>6, <2>7
<1>11. end - 1 \in T
  <2>1. PICK n \in Nat : n = end - 1
    BY <1>4
  <2>2. \A i \in 1..n : i - 1 \in T => i \in T
    BY <1>10, <2>1
  <2>3. \A i \in 0..n : i \in T
    BY <1>9, <2>2, UpTo
  <2>4. QED
    BY <2>1, <2>3
<1>12. EncodedBytes(First(s, end - 1)) < WriteRun + Open(end - 1)
  BY <1>7, <1>11
<1>13. Open(end - 1) \in 0..(MergeLimit - 1)
  BY <1>6, LimitsAssumption
<1>14. EncodedBytes(First(s, end - 1)) \in Nat
  BY <1>4, FirstEncoded
<1>15. QED
  BY <1>1, <1>12, <1>13, <1>14, LimitsAssumption

-----------------------------------------------------------------------------
(* The inductive invariant.                                                *)

\* The queue holds no more than was pushed.
Counted == Len(items) + Len(urgent) <= pushes

\* Closed by the first begin_close, which closes once.
ClosedOnce ==
    /\ closed <=> closer \in {"closed", "done"}
    /\ ~closing => closer = "open"

\* What the writer holds at each point of its loop: urgent messages only while it
\* writes them, ordinary ones only until the last run.
Holds ==
    /\ writer \in {"waiting", "run", "between", "flush"} => hot = <<>>
    /\ writer \in {"waiting", "flush"} => Encoded(batch) = <<>>
    /\ last => closed /\ items = <<>> /\ urgent = <<>>

\* The urgent messages a run has passed are pending; before the next run they are written.
Owes ==
    /\ ~Over => owed <= Len(hot) + Len(urgent)
    /\ writer = "urgent" => owed <= Len(hot)
    /\ writer = "run" => owed = 0

QueueInv == TypeOK /\ Counted /\ BytesExact /\ ClosedOnce /\ Holds /\ Owes

LEMMA Start == Init => QueueInv
<1> SUFFICES ASSUME Init
             PROVE  QueueInv
  OBVIOUS
<1>1. <<>> \in Seq(Item) /\ Len(<<>>) = 0
  OBVIOUS
<1>2. TypeOK
  <2>1. 0 \in 0..MaxBytes /\ 0 \in 0..MaxPushes /\ 0 \in 0..MaxPings
    BY CapsAssumption, PushBoundsAssumption
  <2>2. QED
    BY <1>1, <2>1, Zenon DEF Init, TypeOK
<1>3. BytesExact
  BY TotalOfNone, CapsAssumption DEF Init, BytesExact
<1>4. Counted /\ ClosedOnce
  BY <1>1 DEF Init, Counted, ClosedOnce
<1>5. Holds
  BY EncodedOfNone DEF Init, Holds
<1>6. Owes
  BY <1>1 DEF Init, Owes
<1>7. QED
  BY <1>2, <1>3, <1>4, <1>5, <1>6 DEF QueueInv

\* What the type invariant says of the byte count and of the lanes.
LEMMA Sums ==
    /\ Total(<<>>) = 0
    /\ \A s \in Seq(Item) : Total(s) \in Nat
    /\ \A s \in Seq(Item) : \A x \in Item : Total(Append(s, x)) = Total(s) + Size(x)
BY TotalOfNone, TotalGrows

LEMMA Lists ==
    ASSUME NEW S
    PROVE  /\ <<>> \in Seq(S) /\ Len(<<>>) = 0
           /\ \A s \in Seq(S) : Len(s) \in Nat
           /\ \A s \in Seq(S) : \A x \in S : Append(s, x) \in Seq(S) /\ Len(Append(s, x)) = Len(s) + 1
           /\ \A s, t \in Seq(S) : s \o t \in Seq(S) /\ Len(s \o t) = Len(s) + Len(t)
           /\ \A s \in Seq(S) : s # <<>> => /\ Head(s) \in S /\ Tail(s) \in Seq(S)
                                            /\ Len(s) > 0 /\ Len(Tail(s)) = Len(s) - 1
           /\ \A s \in Seq(S) : Len(s) = 0 => s = <<>>
           /\ \A s \in Seq(S) : s \o <<>> = s /\ <<>> \o s = s
<1>1. \A s \in Seq(S) : \A x \in S : Append(s, x) \in Seq(S) /\ Len(Append(s, x)) = Len(s) + 1
  OBVIOUS
<1>2. \A s, t \in Seq(S) : s \o t \in Seq(S) /\ Len(s \o t) = Len(s) + Len(t)
  OBVIOUS
<1>3. \A s \in Seq(S) : s # <<>> => /\ Head(s) \in S /\ Tail(s) \in Seq(S)
                                    /\ Len(s) > 0 /\ Len(Tail(s)) = Len(s) - 1
  OBVIOUS
<1>4. <<>> \in Seq(S) /\ Len(<<>>) = 0 /\ \A s \in Seq(S) : Len(s) \in Nat
  OBVIOUS
<1>5. \A s \in Seq(S) : Len(s) = 0 => s = <<>>
  OBVIOUS
<1>6. \A s \in Seq(S) : s \o <<>> = s /\ <<>> \o s = s
  OBVIOUS
<1>7. QED
  BY <1>1, <1>2, <1>3, <1>4, <1>5, <1>6

\* What is pushed is an item.
LEMMA Pushed ==
    ASSUME TypeOK, pushes < MaxPushes, NEW kind \in Kind \union {"link"}
    PROVE  [n |-> pushes + 1, kind |-> kind] \in Item
BY PushBoundsAssumption DEF TypeOK, Item

\* The queue part: each item is counted while it waits in the queue.
LEMMA CountStep ==
    ASSUME QueueInv, [Next]_vars
    PROVE  TypeOK' /\ Counted' /\ BytesExact'
<1> USE CapsAssumption, PushBoundsAssumption, Lists DEF QueueInv
<1>1. ASSUME NEW kind \in Kind, TryPush(kind)
      PROVE  TypeOK' /\ Counted' /\ BytesExact'
  <2>1. PICK x \in Item : x = [n |-> pushes + 1, kind |-> kind]
    BY <1>1, Pushed DEF TryPush
  <2>2. Size(x) \in Nat
    BY SizeAssumption
  <2>3. /\ items' = Append(items, x) /\ bytes' = bytes + Size(x) /\ pushes' = pushes + 1
        /\ bytes + Size(x) <= MaxBytes /\ pushes < MaxPushes
        /\ UNCHANGED <<urgent, closed, closeVars, writerVars, shut>>
    BY <1>1, <2>1 DEF TryPush, Room
  <2>4. TypeOK'
    BY <2>2, <2>3 DEF TypeOK, closeVars, writerVars
  <2>5. Counted'
    BY <2>3 DEF TypeOK, Counted
  <2>6. BytesExact'
    <3>1. Total(Append(items, x)) = Total(items) + Size(x) /\ Total(items) \in Nat /\ Total(urgent) \in Nat
      BY Sums DEF TypeOK
    <3>2. bytes = Total(items) + Total(urgent) /\ bytes' <= MaxBytes
      BY <2>3 DEF BytesExact
    <3>3. QED
      BY <2>2, <2>3, <3>1, <3>2 DEF BytesExact
  <2>7. QED
    BY <2>4, <2>5, <2>6
<1>2. ASSUME TryPushUrgent
      PROVE  TypeOK' /\ Counted' /\ BytesExact'
  <2>1. PICK x \in Item : x = [n |-> pushes + 1, kind |-> "link"]
    BY <1>2, Pushed DEF TryPushUrgent
  <2>2. Size(x) \in Nat
    BY SizeAssumption
  <2>3. /\ urgent' = Append(urgent, x) /\ bytes' = bytes + Size(x) /\ pushes' = pushes + 1
        /\ bytes + Size(x) <= MaxBytes /\ pushes < MaxPushes
        /\ UNCHANGED <<items, closed, closeVars, writerVars, shut>>
    BY <1>2, <2>1 DEF TryPushUrgent, Room
  <2>4. TypeOK'
    BY <2>2, <2>3 DEF TypeOK, closeVars, writerVars
  <2>5. Counted'
    BY <2>3 DEF TypeOK, Counted
  <2>6. BytesExact'
    <3>1. Total(Append(urgent, x)) = Total(urgent) + Size(x) /\ Total(items) \in Nat /\ Total(urgent) \in Nat
      BY Sums DEF TypeOK
    <3>2. bytes = Total(items) + Total(urgent) /\ bytes' <= MaxBytes
      BY <2>3 DEF BytesExact
    <3>3. QED
      BY <2>2, <2>3, <3>1, <3>2 DEF BytesExact
  <2>7. QED
    BY <2>4, <2>5, <2>6
<1>3. ASSUME NEW flushing \in BOOLEAN, BeginClose(flushing)
      PROVE  TypeOK' /\ Counted' /\ BytesExact'
  BY <1>3 DEF BeginClose, TypeOK, Counted, BytesExact, queueVars, writerVars
<1>4. ASSUME CloseQueue
      PROVE  TypeOK' /\ Counted' /\ BytesExact'
  <2>1. CASE flush
    BY <1>4, <2>1 DEF CloseQueue, TypeOK, Counted, BytesExact
  <2>2. CASE ~flush
    <3>1. TypeOK'
      BY <1>4, <2>2 DEF CloseQueue, TypeOK
    <3>2. Counted' /\ BytesExact'
      BY <1>4, <2>2, Sums DEF CloseQueue, TypeOK, Counted, BytesExact
    <3>3. QED
      BY <3>1, <3>2
  <2>3. QED
    BY <2>1, <2>2
<1>5. ASSUME CheckWriterDone
      PROVE  TypeOK' /\ Counted' /\ BytesExact'
  BY <1>5 DEF CheckWriterDone, TypeOK, Counted, BytesExact, queueVars, writerVars
<1>6. ASSUME NEW pinging \in BOOLEAN, Drain(pinging)
      PROVE  TypeOK' /\ Counted' /\ BytesExact'
  <2>1. TypeOK'
    BY <1>6 DEF Drain, TypeOK, closeVars
  <2>2. Counted' /\ BytesExact'
    BY <1>6, Sums DEF Drain, TypeOK, Counted, BytesExact
  <2>3. QED
    BY <2>1, <2>2
<1>7. ASSUME WriteUrgent
      PROVE  TypeOK' /\ Counted' /\ BytesExact'
  BY <1>7 DEF WriteUrgent, TypeOK, Counted, BytesExact, queueVars, closeVars
<1>8. ASSUME TurnToBatch
      PROVE  TypeOK' /\ Counted' /\ BytesExact'
  BY <1>8 DEF TurnToBatch, TypeOK, Counted, BytesExact, queueVars, closeVars
<1>9. ASSUME WriteNextRun
      PROVE  TypeOK' /\ Counted' /\ BytesExact'
  <2>1. PICK end : end = IF Boundaries(batch) = {} THEN 0 ELSE RunEnd(batch)
    OBVIOUS
  <2>2. end \in 0..Len(batch)
    <3>1. Boundaries(batch) # {} => RunEnd(batch) \in Boundaries(batch)
      BY RunEndIs DEF TypeOK
    <3>2. QED
      BY <2>1, <3>1 DEF TypeOK, Boundaries
  <2>3. PICK rest : rest = SubSeq(batch, end + 1, Len(batch))
    OBVIOUS
  <2>4. PICK head : head = SubSeq(batch, 1, end)
    OBVIOUS
  <2>5. rest \in Seq(Item) /\ head \in Seq(Item)
    BY <2>2, <2>3, <2>4 DEF TypeOK
  <2>6. Encoded(head) \in Seq(Item)
    BY <2>5, EncodedGrows
  <2>7. /\ wire' = wire \o Encoded(head)
        /\ batch' = IF Boundaries(rest) = {} THEN <<>> ELSE rest
        /\ owed' = IF end = 0 THEN owed ELSE Len(urgent)
    BY <1>9, <2>1, <2>3, <2>4 DEF WriteNextRun
  <2>8. wire' \in Seq(Item) /\ batch' \in Seq(Item) /\ owed' \in 0..MaxPushes
    BY <2>5, <2>6, <2>7 DEF TypeOK, Counted
  <2>9. /\ writer' \in {"flush", "between"} /\ ping' \in BOOLEAN
        /\ UNCHANGED <<queueVars, closeVars, hot, last, failed, writerDone, pings, shut, pushes>>
    BY <1>9 DEF WriteNextRun
  <2>10. TypeOK'
    BY <2>8, <2>9 DEF TypeOK, queueVars, closeVars
  <2>11. Counted' /\ BytesExact'
    BY <2>9 DEF Counted, BytesExact, queueVars
  <2>12. QED
    BY <2>10, <2>11
<1>10. ASSUME TakeUrgent
       PROVE  TypeOK' /\ Counted' /\ BytesExact'
  <2>1. UrgentBytes = Total(urgent) /\ Total(urgent) \in Nat /\ Total(items) \in Nat
    BY Sums DEF TypeOK, BytesExact, UrgentBytes
  <2>2. bytes' = Total(items) /\ bytes' \in 0..MaxBytes
    BY <1>10, <2>1 DEF TakeUrgent, TypeOK, BytesExact
  <2>3. TypeOK'
    BY <1>10, <2>2 DEF TakeUrgent, TypeOK, closeVars
  <2>4. Counted'
    BY <1>10 DEF TakeUrgent, TypeOK, Counted
  <2>5. BytesExact'
    <3>1. urgent' = <<>> /\ items' = items
      BY <1>10 DEF TakeUrgent
    <3>2. Total(urgent') = 0
      BY <3>1, Sums
    <3>3. QED
      BY <2>1, <2>2, <3>1, <3>2 DEF BytesExact
  <2>6. QED
    BY <2>3, <2>4, <2>5
<1>11. ASSUME EndBatch
       PROVE  TypeOK' /\ Counted' /\ BytesExact'
  BY <1>11 DEF EndBatch, TypeOK, Counted, BytesExact, queueVars, closeVars
<1>12. ASSUME WriteFails
       PROVE  TypeOK' /\ Counted' /\ BytesExact'
  BY <1>12 DEF WriteFails, TypeOK, Counted, BytesExact, queueVars, closeVars
<1>13. ASSUME StoreDone
       PROVE  TypeOK' /\ Counted' /\ BytesExact'
  BY <1>13 DEF StoreDone, TypeOK, Counted, BytesExact, queueVars, closeVars
<1>14. ASSUME CheckClosing
       PROVE  TypeOK' /\ Counted' /\ BytesExact'
  BY <1>14 DEF CheckClosing, TypeOK, Counted, BytesExact, queueVars, closeVars
<1>15. ASSUME ReportFailure
       PROVE  TypeOK' /\ Counted' /\ BytesExact'
  BY <1>15 DEF ReportFailure, TypeOK, Counted, BytesExact, queueVars
<1>16. ASSUME UNCHANGED vars
       PROVE  TypeOK' /\ Counted' /\ BytesExact'
  BY <1>16 DEF TypeOK, Counted, BytesExact, vars, queueVars, closeVars, writerVars
<1>17. QED
  BY <1>1, <1>2, <1>3, <1>4, <1>5, <1>6, <1>7, <1>8, <1>9, <1>10, <1>11, <1>12, <1>13, <1>14,
     <1>15, <1>16 DEF Next, CloserStep, WriterSteps, SocketSteps

\* The writer's part: what it holds and owes at each point of its loop.
LEMMA HoldStep ==
    ASSUME QueueInv, [Next]_vars
    PROVE  ClosedOnce' /\ Holds' /\ Owes'
<1> USE Lists DEF QueueInv
<1>1. ASSUME NEW kind \in Kind, TryPush(kind)
      PROVE  ClosedOnce' /\ Holds' /\ Owes'
  BY <1>1 DEF TryPush, ClosedOnce, Holds, Owes, Over, closeVars, writerVars
<1>2. ASSUME TryPushUrgent
      PROVE  ClosedOnce' /\ Holds' /\ Owes'
  <2>1. PICK x \in Item : x = [n |-> pushes + 1, kind |-> "link"]
    BY <1>2, Pushed DEF TryPushUrgent
  <2>2. urgent' = Append(urgent, x)
    BY <1>2, <2>1 DEF TryPushUrgent
  <2>3. Len(urgent') = Len(urgent) + 1 /\ Len(urgent) \in Nat /\ Len(hot) \in Nat
    BY <2>2 DEF TypeOK
  <2>4. ClosedOnce' /\ Holds'
    BY <1>2 DEF TryPushUrgent, ClosedOnce, Holds, closeVars, writerVars
  <2>5. Owes'
    BY <1>2, <2>3 DEF TryPushUrgent, TypeOK, Owes, Over, writerVars
  <2>6. QED
    BY <2>4, <2>5
<1>3. ASSUME NEW flushing \in BOOLEAN, BeginClose(flushing)
      PROVE  ClosedOnce' /\ Holds' /\ Owes'
  BY <1>3 DEF BeginClose, ClosedOnce, Holds, Owes, Over, queueVars, writerVars
<1>4. ASSUME CloseQueue
      PROVE  ClosedOnce' /\ Holds' /\ Owes'
  <2>1. ~closed /\ ~last /\ closing
    BY <1>4 DEF CloseQueue, ClosedOnce, Holds, TypeOK
  <2>2. ClosedOnce' /\ Holds'
    BY <1>4, <2>1 DEF CloseQueue, ClosedOnce, Holds
  <2>3. Owes'
    <3>1. Len(hot) \in Nat /\ Len(urgent) \in Nat /\ owed \in Nat
      BY DEF TypeOK
    <3>2. flush \/ (urgent' = <<>> /\ owed' <= Len(hot) /\ (owed = 0 => owed' = 0))
      BY <1>4, <3>1 DEF CloseQueue
    <3>3. (flush => urgent' = urgent /\ owed' = owed) /\ hot' = hot /\ writer' = writer
      BY <1>4 DEF CloseQueue
    <3>4. CASE flush
      BY <3>3, <3>4 DEF Owes, Over
    <3>5. CASE ~flush
      BY <3>1, <3>2, <3>3, <3>5 DEF Owes, Over
    <3>6. QED
      BY <3>4, <3>5
  <2>4. QED
    BY <2>2, <2>3
<1>5. ASSUME CheckWriterDone
      PROVE  ClosedOnce' /\ Holds' /\ Owes'
  BY <1>5 DEF CheckWriterDone, ClosedOnce, Holds, Owes, Over, queueVars, writerVars
<1>6. ASSUME NEW pinging \in BOOLEAN, Drain(pinging)
      PROVE  ClosedOnce' /\ Holds' /\ Owes'
  <2>1. hot = <<>> /\ owed <= Len(urgent)
    BY <1>6 DEF Drain, TypeOK, Holds, Owes, Over
  <2>2. ClosedOnce' /\ Holds'
    BY <1>6 DEF Drain, ClosedOnce, Holds, closeVars
  <2>3. Owes'
    BY <1>6, <2>1 DEF Drain, TypeOK, Owes, Over
  <2>4. QED
    BY <2>2, <2>3
<1>7. ASSUME WriteUrgent
      PROVE  ClosedOnce' /\ Holds' /\ Owes'
  <2>1. ClosedOnce' /\ Holds'
    BY <1>7 DEF WriteUrgent, ClosedOnce, Holds, queueVars, closeVars
  <2>2. /\ Len(hot') = Len(hot) - 1 /\ Len(hot) > 0 /\ Len(hot) \in Nat /\ Len(urgent) \in Nat
        /\ owed \in Nat /\ owed' = IF owed = 0 THEN 0 ELSE owed - 1
        /\ writer = "urgent" /\ writer' = "urgent" /\ urgent' = urgent
    BY <1>7 DEF WriteUrgent, TypeOK, queueVars
  <2>3. Owes'
    BY <2>2 DEF Owes, Over
  <2>4. QED
    BY <2>1, <2>3
<1>8. ASSUME TurnToBatch
      PROVE  ClosedOnce' /\ Holds' /\ Owes'
  <2>1. owed = 0
    BY <1>8 DEF TurnToBatch, TypeOK, Owes
  <2>2. ClosedOnce' /\ Holds'
    BY <1>8, NothingToWrite DEF TurnToBatch, TypeOK, ClosedOnce, Holds, queueVars, closeVars
  <2>3. Owes'
    BY <1>8, <2>1 DEF TurnToBatch, TypeOK, Owes, Over, queueVars
  <2>4. QED
    BY <2>2, <2>3
<1>9. ASSUME WriteNextRun
      PROVE  ClosedOnce' /\ Holds' /\ Owes'
  <2>1. /\ writer = "run" /\ hot = <<>> /\ hot' = <<>> /\ owed = 0
        /\ writer' = IF batch' = <<>> THEN "flush" ELSE "between"
        /\ UNCHANGED <<queueVars, closeVars, last>>
    BY <1>9 DEF WriteNextRun, Holds, Owes
  <2>2. owed' \in {0, Len(urgent)}
    BY <1>9, <2>1 DEF WriteNextRun
  <2>3. ClosedOnce' /\ Holds'
    BY <2>1, EncodedOfNone DEF ClosedOnce, Holds, queueVars, closeVars
  <2>4. Owes'
    BY <2>1, <2>2 DEF TypeOK, Owes, Over, queueVars
  <2>5. QED
    BY <2>3, <2>4
<1>10. ASSUME TakeUrgent
       PROVE  ClosedOnce' /\ Holds' /\ Owes'
  <2>1. hot = <<>> /\ owed <= Len(urgent)
    BY <1>10 DEF TakeUrgent, TypeOK, Holds, Owes, Over
  <2>2. ClosedOnce' /\ Holds'
    BY <1>10 DEF TakeUrgent, ClosedOnce, Holds, closeVars
  <2>3. Owes'
    BY <1>10, <2>1 DEF TakeUrgent, TypeOK, Owes, Over
  <2>4. QED
    BY <2>2, <2>3
<1>11. ASSUME EndBatch
       PROVE  ClosedOnce' /\ Holds' /\ Owes'
  BY <1>11 DEF EndBatch, ClosedOnce, Holds, Owes, Over, queueVars, closeVars
<1>12. ASSUME WriteFails
       PROVE  ClosedOnce' /\ Holds' /\ Owes'
  BY <1>12 DEF WriteFails, ClosedOnce, Holds, Owes, Over, queueVars, closeVars
<1>13. ASSUME StoreDone
       PROVE  ClosedOnce' /\ Holds' /\ Owes'
  BY <1>13 DEF StoreDone, ClosedOnce, Holds, Owes, Over, queueVars, closeVars
<1>14. ASSUME CheckClosing
       PROVE  ClosedOnce' /\ Holds' /\ Owes'
  BY <1>14 DEF CheckClosing, ClosedOnce, Holds, Owes, Over, queueVars, closeVars
<1>15. ASSUME ReportFailure
       PROVE  ClosedOnce' /\ Holds' /\ Owes'
  BY <1>15 DEF ReportFailure, ClosedOnce, Holds, Owes, Over, queueVars
<1>16. ASSUME UNCHANGED vars
       PROVE  ClosedOnce' /\ Holds' /\ Owes'
  BY <1>16 DEF ClosedOnce, Holds, Owes, Over, vars, queueVars, closeVars, writerVars
<1>17. QED
  BY <1>1, <1>2, <1>3, <1>4, <1>5, <1>6, <1>7, <1>8, <1>9, <1>10, <1>11, <1>12, <1>13, <1>14,
     <1>15, <1>16 DEF Next, CloserStep, WriterSteps, SocketSteps

\* The byte count that caps the queue is the cost of what waits in it, whatever is
\* pushed, drained, taken between two runs or discarded (conn.rs: try_push,
\* try_push_urgent, wait_drain, take_urgent, close).
THEOREM BytesCounted == Spec => [](TypeOK /\ BytesExact)
<1>1. Init => QueueInv
  BY Start
<1>2. QueueInv /\ [Next]_vars => QueueInv'
  BY CountStep, HoldStep DEF QueueInv
<1>3. QueueInv => TypeOK /\ BytesExact
  BY DEF QueueInv
<1>4. QED
  BY <1>1, <1>2, <1>3, PTL DEF Spec

-----------------------------------------------------------------------------
(* The promise of two lanes.                                               *)

\* The ordinary lane of TwoLanes as the writer goes on: what is in the batch, and
\* what was pushed since.
LEMMA OrdinaryLane ==
    ASSUME NEW b \in Seq(Item), NEW t \in Seq(Item)
    PROVE  /\ Encoded(b \o t) \in Seq(Item)
           /\ Encoded(b \o t) = Encoded(b) \o Encoded(t)
           /\ Encoded(b \o <<>>) = Encoded(b)
           /\ Encoded(<<>> \o t) = Encoded(t)
           /\ Encoded(b) = <<>> => Encoded(b \o t) = Encoded(t)
           /\ \A x \in Item : Encoded(b \o Append(t, x)) = IF Fits(x) THEN Append(Encoded(b \o t), x)
                                                           ELSE Encoded(b \o t)
<1>1. b \o t \in Seq(Item) /\ b \o <<>> = b /\ <<>> \o t = t
  BY Lists
<1>2. Encoded(b \o t) = Encoded(b) \o Encoded(t) /\ Encoded(t) \in Seq(Item)
  BY EncodedConcat, EncodedGrows
<1>3. Encoded(b \o t) \in Seq(Item)
  BY <1>1, EncodedGrows
<1>4. Encoded(b) = <<>> => Encoded(b \o t) = Encoded(t)
  BY <1>2, Lists
<1>5. ASSUME NEW x \in Item
      PROVE  Encoded(b \o Append(t, x)) = IF Fits(x) THEN Append(Encoded(b \o t), x)
                                          ELSE Encoded(b \o t)
  <2>1. b \o Append(t, x) = Append(b \o t, x)
    OBVIOUS
  <2>2. QED
    BY <1>1, <2>1, EncodedGrows
<1>6. QED
  BY <1>1, <1>2, <1>3, <1>4, <1>5

\* A sequence cut in two, and two sequences glued together.
LEMMA Cut ==
    ASSUME NEW S, NEW s \in Seq(S), NEW i \in 0..Len(s)
    PROVE  /\ SubSeq(s, 1, i) \in Seq(S) /\ SubSeq(s, i + 1, Len(s)) \in Seq(S)
           /\ s = SubSeq(s, 1, i) \o SubSeq(s, i + 1, Len(s))
<1>1. PICK n \in Nat : n = Len(s)
  OBVIOUS
<1>2. PICK a : a = SubSeq(s, 1, i)
  OBVIOUS
<1>3. PICK c : c = SubSeq(s, i + 1, n)
  OBVIOUS
<1>4. a \in Seq(S) /\ Len(a) = i /\ \A j \in 1..i : a[j] = s[j]
  BY <1>1, <1>2
<1>5. c \in Seq(S) /\ Len(c) = n - i /\ \A j \in 1..(n - i) : c[j] = s[i + j]
  BY <1>1, <1>3
<1>6. PICK g : g = a \o c
  OBVIOUS
<1>7. g \in Seq(S) /\ Len(g) = n
  <2>1. a \in Seq(S) /\ c \in Seq(S)
    BY <1>4, <1>5
  <2>2. g \in Seq(S) /\ Len(g) = Len(a) + Len(c)
    BY <1>6, <2>1, Lists
  <2>3. QED
    BY <1>1, <1>4, <1>5, <2>2
<1>8. ASSUME NEW j \in 1..n
      PROVE  g[j] = s[j]
  <2>1. CASE j \in 1..i
    BY <1>4, <1>5, <1>6, <2>1
  <2>2. CASE j \in (i + 1)..n
    <3>1. PICK m \in 1..(n - i) : j = i + m
      BY <1>1, <2>2
    <3>2. g[j] = c[m]
      BY <1>4, <1>5, <1>6, <3>1
    <3>3. QED
      BY <1>5, <3>1, <3>2
  <2>3. QED
    BY <1>1, <2>1, <2>2
<1>9. g = s
  BY <1>1, <1>7, <1>8
<1>10. QED
  BY <1>1, <1>2, <1>3, <1>4, <1>5, <1>6, <1>9

LEMMA InThree ==
    ASSUME NEW a \in Seq(Item), NEW b \in Seq(Item), NEW c \in Seq(Item)
    PROVE  (a \o b) \o c = a \o (b \o c)
OBVIOUS

LEMMA Glued ==
    ASSUME NEW S, NEW a \in Seq(S), NEW c \in Seq(S)
    PROVE  /\ Len(a \o c) = Len(a) + Len(c)
           /\ SubSeq(a \o c, 1, Len(a)) = a
           /\ SubSeq(a \o c, Len(a) + 1, Len(a \o c)) = c
<1>1. PICK k \in Nat : k = Len(a)
  OBVIOUS
<1>2. PICK m \in Nat : m = Len(c)
  OBVIOUS
<1>3. PICK g : g = a \o c
  OBVIOUS
<1>4. /\ g \in Seq(S) /\ Len(g) = k + m /\ \A j \in 1..k : g[j] = a[j]
      /\ \A j \in 1..m : g[k + j] = c[j]
  BY <1>1, <1>2, <1>3
<1>5. PICK p : p = SubSeq(g, 1, k)
  OBVIOUS
<1>6. PICK q : q = SubSeq(g, k + 1, k + m)
  OBVIOUS
<1>7. p \in Seq(S) /\ Len(p) = k /\ \A j \in 1..k : p[j] = g[j]
  BY <1>4, <1>5
<1>8. q \in Seq(S) /\ Len(q) = m /\ \A j \in 1..m : q[j] = g[k + j]
  BY <1>4, <1>6
<1>9. p = a
  BY <1>1, <1>4, <1>7
<1>10. q = c
  BY <1>2, <1>4, <1>8
<1>11. QED
  BY <1>1, <1>2, <1>3, <1>4, <1>5, <1>6, <1>9, <1>10

\* What a dropping close keeps of a lane: of s \o t, s.
Prefix(s, t) == s \in Lanes!Prefixes(s \o t)

LEMMA PrefixOf ==
    ASSUME NEW s \in Seq(Item), NEW t \in Seq(Item)
    PROVE  Prefix(s, t)
<1>1. Len(s \o t) = Len(s) + Len(t) /\ s = SubSeq(s \o t, 1, Len(s)) /\ Len(s) \in Nat /\ Len(t) \in Nat
  BY Glued, Lists
<1>2. Len(s) \in 0..Len(s \o t)
  BY <1>1
<1>3. QED
  BY <1>1, <1>2 DEF Prefix, Lanes!Prefixes

\* A run as TwoLanes sees it: the first messages of the ordinary lane, all but the
\* last of them below its limit.
SplitsOff(head, rest, lane) ==
    \E k \in 1..Len(lane) :
        /\ Total(SubSeq(lane, 1, k - 1)) < WriteRun + MergeLimit
        /\ head = SubSeq(lane, 1, k)
        /\ rest = SubSeq(lane, k + 1, Len(lane))

LEMMA RunIs ==
    ASSUME NEW b \in Seq(Item), NEW t \in Seq(Item), Boundaries(b) # {},
           NEW rest, rest = SubSeq(b, RunEnd(b) + 1, Len(b))
    PROVE  /\ rest \in Seq(Item)
           /\ SplitsOff(Encoded(First(b, RunEnd(b))), Encoded(rest \o t), Encoded(b \o t))
<1> PICK lane : lane = Encoded(b \o t)
  OBVIOUS
<1>1. PICK end : end = RunEnd(b)
  OBVIOUS
<1>2. end \in 1..Len(b) /\ Fits(b[end])
  BY <1>1, RunEndIs DEF Boundaries
<1>3. PICK a \in Seq(Item) : a = Encoded(First(b, end - 1))
  BY <1>2, FirstGrows, EncodedGrows
<1>4. PICK x \in Item : x = b[end]
  BY <1>2
<1>5. PICK head \in Seq(Item) : head = Encoded(First(b, end))
  BY <1>2, FirstGrows, EncodedGrows
<1>6. head = Append(a, x)
  BY <1>2, <1>3, <1>4, <1>5, FirstEncoded
<1>7. rest \in Seq(Item) /\ b = First(b, end) \o rest /\ First(b, end) \in Seq(Item)
  <2>1. end \in 0..Len(b)
    BY <1>2
  <2>2. QED
    BY <1>1, <2>1, Cut DEF First
<1>8. PICK tail \in Seq(Item) : tail = Encoded(rest \o t)
  BY <1>7, OrdinaryLane
<1>9. lane = head \o tail
  <2>1. b \o t = First(b, end) \o (rest \o t)
    <3>1. PICK u \in Seq(Item) : u = First(b, end)
      BY <1>7
    <3>2. b = u \o rest
      BY <1>7, <3>1
    <3>3. (u \o rest) \o t = u \o (rest \o t)
      <4>1. rest \in Seq(Item) /\ u \in Seq(Item) /\ t \in Seq(Item)
        BY <1>7
      <4>2. QED
        BY <4>1, InThree
    <3>4. QED
      BY <3>1, <3>2, <3>3
  <2>2. rest \o t \in Seq(Item)
    BY <1>7, Lists
  <2>3. PICK u \in Seq(Item) : u = First(b, end)
    BY <1>7
  <2>4. PICK v \in Seq(Item) : v = rest \o t
    BY <2>2
  <2>5. Encoded(u \o v) = Encoded(u) \o Encoded(v)
    BY EncodedConcat
  <2>6. QED
    BY <1>5, <1>8, <2>1, <2>3, <2>4, <2>5
<1>10. PICK k \in Nat : k = Len(head)
  OBVIOUS
<1>11. /\ k \in 1..Len(lane) /\ head = SubSeq(lane, 1, k)
       /\ tail = SubSeq(lane, k + 1, Len(lane)) /\ a = SubSeq(lane, 1, k - 1)
  <2>1. k = Len(a) + 1 /\ Len(a) \in Nat /\ Len(tail) \in Nat
    BY <1>6, <1>10, Lists
  <2>2. Len(lane) = k + Len(tail) /\ head = SubSeq(lane, 1, k) /\ tail = SubSeq(lane, k + 1, Len(lane))
    BY <1>9, <1>10, Glued
  <2>3. a = SubSeq(lane, 1, k - 1)
    <3>1. PICK one : one = <<x>> \o tail
      OBVIOUS
    <3> one \in Seq(Item)
      BY <3>1
    <3>2. Append(a, x) \o tail = a \o (<<x>> \o tail)
      OBVIOUS
    <3>3. lane = a \o one
      BY <1>6, <1>9, <3>1, <3>2
    <3>4. a = SubSeq(lane, 1, Len(a))
      BY <3>3, Glued
    <3>5. Len(a) = k - 1
      BY <2>1
    <3>6. QED
      BY <3>4, <3>5
  <2>4. k \in 1..Len(lane)
    <3>1. PICK n \in Nat : n = Len(lane)
      BY <1>9, Lists
    <3>2. k >= 1 /\ n >= k
      BY <2>1, <2>2, <3>1
    <3>3. QED
      BY <3>1, <3>2
  <2>5. QED
    BY <2>2, <2>3, <2>4
<1>12. Total(a) < WriteRun + MergeLimit
  BY <1>1, <1>3, RunBound DEF EncodedBytes
<1>13. SplitsOff(head, tail, lane)
  BY <1>11, <1>12 DEF SplitsOff
<1>14. QED
  BY <1>1, <1>5, <1>7, <1>8, <1>13

\* Steps TwoLanes does not see: once the writer has left its loop, and those that
\* only move messages from the queue to the writer.
LEMMA AfterTheEnd ==
    ASSUME Over, Over', wire' = wire
    PROVE  UNCHANGED Lanes!vars
BY DEF Lanes!vars

LEMMA Moved ==
    ASSUME ~Over, ~Over', closed' = closed, closed => flush' = flush,
           Encoded(batch' \o items') = Encoded(batch \o items),
           hot' \o urgent' = hot \o urgent, owed' = owed, wire' = wire
    PROVE  UNCHANGED Lanes!vars
BY DEF Lanes!vars

\* TwoLanes while the writer is in its loop.
LEMMA InTheLoop ==
    ASSUME TypeOK, ~Over
    PROVE  /\ Encoded(batch \o items) \in Seq(Item) /\ hot \o urgent \in Seq(Item)
           /\ closed \in BOOLEAN /\ flush \in BOOLEAN /\ owed \in Nat
<1>1. /\ batch \in Seq(Item) /\ items \in Seq(Item) /\ hot \in Seq(Item) /\ urgent \in Seq(Item)
      /\ closed \in BOOLEAN /\ flush \in BOOLEAN /\ owed \in Nat
  BY PushBoundsAssumption DEF TypeOK
<1>2. Encoded(batch \o items) \in Seq(Item)
  BY <1>1, OrdinaryLane
<1>3. hot \o urgent \in Seq(Item)
  BY <1>1, Lists
<1>4. QED
  BY <1>1, <1>2, <1>3

LEMMA PushStep ==
    ASSUME QueueInv, NEW kind \in Kind, TryPush(kind)
    PROVE  [Lanes!Next]_(Lanes!vars)
<1>1. PICK x \in Item : x = [n |-> pushes + 1, kind |-> kind]
  BY Pushed DEF TryPush, QueueInv
<1>2. /\ items' = Append(items, x) /\ ~closed
      /\ UNCHANGED <<urgent, closed, closing, flush, writer, hot, batch, wire, owed>>
  BY <1>1 DEF TryPush, closeVars, writerVars
<1>3. CASE Over
  BY <1>2, <1>3, AfterTheEnd DEF Over
<1>4. CASE ~Over /\ Fits(x)
  <2>1. Encoded(batch' \o items') = Append(Encoded(batch \o items), x)
    BY <1>2, <1>4, OrdinaryLane DEF QueueInv, TypeOK
  <2>2. ~Over' /\ hot' \o urgent' = hot \o urgent
    BY <1>2, <1>4 DEF Over
  <2>3. Lanes!Push(x)
    BY <1>2, <1>4, <2>1, <2>2 DEF Lanes!Push
  <2>4. QED
    BY <2>3 DEF Lanes!Next
<1>5. CASE ~Over /\ ~Fits(x)
  <2>1. Encoded(batch' \o items') = Encoded(batch \o items)
    BY <1>2, <1>5, OrdinaryLane DEF QueueInv, TypeOK
  <2>2. ~Over' /\ hot' \o urgent' = hot \o urgent
    BY <1>2, <1>5 DEF Over
  <2>3. UNCHANGED Lanes!vars
    BY <1>2, <1>5, <2>1, <2>2, Moved
  <2>4. QED
    BY <2>3
<1>6. QED
  BY <1>3, <1>4, <1>5

LEMMA PushUrgentStep ==
    ASSUME QueueInv, TryPushUrgent
    PROVE  [Lanes!Next]_(Lanes!vars)
<1>1. PICK x \in Item : x = [n |-> pushes + 1, kind |-> "link"]
  BY Pushed DEF TryPushUrgent, QueueInv
<1>2. /\ urgent' = Append(urgent, x) /\ ~closed
      /\ UNCHANGED <<items, closed, closing, flush, writer, hot, batch, wire, owed>>
  BY <1>1 DEF TryPushUrgent, closeVars, writerVars
<1>3. CASE Over
  BY <1>2, <1>3, AfterTheEnd DEF Over
<1>4. CASE ~Over
  <2>1. hot' \o urgent' = Append(hot \o urgent, x)
    <3>1. hot \in Seq(Item) /\ urgent \in Seq(Item)
      BY DEF QueueInv, TypeOK
    <3>2. \A s, t \in Seq(Item) : s \o Append(t, x) = Append(s \o t, x)
      OBVIOUS
    <3>3. QED
      BY <1>2, <3>1, <3>2
  <2>2. ~Over' /\ Encoded(batch' \o items') = Encoded(batch \o items)
    BY <1>2, <1>4 DEF Over
  <2>3. Lanes!PushUrgent(x)
    BY <1>2, <1>4, <2>1, <2>2 DEF Lanes!PushUrgent
  <2>4. QED
    BY <2>3 DEF Lanes!Next
<1>5. QED
  BY <1>3, <1>4

\* A dropping close keeps what the writer holds, a prefix of each lane.
LEMMA CloseStep ==
    ASSUME QueueInv, CloseQueue
    PROVE  [Lanes!Next]_(Lanes!vars)
<1>1. ~closed /\ closed' /\ UNCHANGED <<flush, writer, hot, batch, wire>>
  BY DEF CloseQueue, QueueInv, ClosedOnce, TypeOK
<1>2. CASE Over
  BY <1>1, <1>2, AfterTheEnd DEF Over
<1>3. CASE ~Over /\ flush
  <2>1. UNCHANGED <<items, urgent, owed>>
    BY <1>3 DEF CloseQueue
  <2>2. ~Over' /\ hot' \o urgent' = hot \o urgent /\ Encoded(batch' \o items') = Encoded(batch \o items)
    BY <1>1, <1>3, <2>1 DEF Over
  <2>3. Lanes!CloseFlushing
    BY <1>1, <1>3, <2>1, <2>2 DEF Lanes!CloseFlushing
  <2>4. QED
    BY <2>3 DEF Lanes!Next
<1>4. CASE ~Over /\ ~flush
  <2>1. /\ items' = <<>> /\ urgent' = <<>>
        /\ owed' = IF owed <= Len(hot) THEN owed ELSE Len(hot)
    BY <1>4 DEF CloseQueue
  <2>2. /\ batch \in Seq(Item) /\ items \in Seq(Item) /\ hot \in Seq(Item) /\ urgent \in Seq(Item)
    BY DEF QueueInv, TypeOK
  <2>3. Prefix(Encoded(batch), Encoded(items)) /\ Prefix(hot, urgent)
    BY <2>2, EncodedGrows, PrefixOf
  <2>4. Encoded(batch' \o items') \in Lanes!Prefixes(Encoded(batch \o items))
    BY <1>1, <2>1, <2>2, <2>3, OrdinaryLane DEF Prefix
  <2>5. hot' \o urgent' = hot' /\ hot' \in Lanes!Prefixes(hot \o urgent)
    BY <1>1, <2>1, <2>2, <2>3, Lists DEF Prefix
  <2>6. ~Over'
    BY <1>1, <1>4 DEF Over
  <2>7. owed' = IF owed <= Len(hot' \o urgent') THEN owed ELSE Len(hot' \o urgent')
    BY <1>1, <2>1, <2>5
  <2>8. hot' \o urgent' \in Lanes!Prefixes(hot \o urgent)
    BY <2>5
  <2>9. Lanes!CloseDropping
    BY <1>1, <1>4, <2>4, <2>6, <2>7, <2>8 DEF Lanes!CloseDropping
  <2>10. QED
    BY <2>9 DEF Lanes!Next
<1>5. QED
  BY <1>2, <1>3, <1>4

LEMMA DrainStep ==
    ASSUME QueueInv, NEW pinging \in BOOLEAN, Drain(pinging)
    PROVE  UNCHANGED Lanes!vars
<1>1. /\ writer = "waiting" /\ writer' = "urgent" /\ hot' = urgent /\ batch' = items
      /\ items' = <<>> /\ urgent' = <<>>
      /\ UNCHANGED <<closed, flush, wire, owed>>
  BY DEF Drain, closeVars
<1>2. hot = <<>> /\ Encoded(batch) = <<>>
  BY <1>1 DEF QueueInv, Holds
<1>3. Encoded(batch' \o items') = Encoded(batch \o items)
  <2>1. batch \in Seq(Item) /\ items \in Seq(Item)
    BY DEF QueueInv, TypeOK
  <2>2. Encoded(batch \o items) = Encoded(items) /\ Encoded(items \o <<>>) = Encoded(items)
    BY <1>2, <2>1, OrdinaryLane
  <2>3. QED
    BY <1>1, <2>2
<1>4. hot' \o urgent' = hot \o urgent
  BY <1>1, <1>2, Lists DEF QueueInv, TypeOK
<1>5. QED
  BY <1>1, <1>3, <1>4, Moved DEF Over

LEMMA SendUrgentStep ==
    ASSUME QueueInv, WriteUrgent
    PROVE  [Lanes!Next]_(Lanes!vars)
<1>1. /\ writer = "urgent" /\ hot # <<>> /\ wire' = Append(wire, Head(hot)) /\ hot' = Tail(hot)
      /\ owed' = IF owed = 0 THEN 0 ELSE owed - 1
      /\ UNCHANGED <<items, urgent, closed, flush, writer, batch>>
  BY DEF WriteUrgent, queueVars, closeVars
<1>2. ~Over /\ ~Over'
  BY <1>1 DEF Over
<1>3. hot \o urgent # <<>> /\ Head(hot \o urgent) = Head(hot) /\ hot' \o urgent' = Tail(hot \o urgent)
  <2>1. hot \in Seq(Item) /\ urgent \in Seq(Item)
    BY DEF QueueInv, TypeOK
  <2>2. \A s, t \in Seq(Item) : s # <<>> => /\ s \o t # <<>> /\ Head(s \o t) = Head(s)
                                            /\ Tail(s) \o t = Tail(s \o t)
    OBVIOUS
  <2>3. QED
    BY <1>1, <2>1, <2>2
<1>4. Encoded(batch' \o items') = Encoded(batch \o items)
  BY <1>1
<1>5. Lanes!SendUrgent
  BY <1>1, <1>2, <1>3, <1>4 DEF Lanes!SendUrgent
<1>6. QED
  BY <1>5 DEF Lanes!Next

LEMMA SendRunStep ==
    ASSUME QueueInv, WriteNextRun
    PROVE  [Lanes!Next]_(Lanes!vars)
<1>1. /\ writer = "run" /\ writer' \in {"flush", "between"}
      /\ UNCHANGED <<items, urgent, closed, flush, hot>>
  BY DEF WriteNextRun, queueVars, closeVars
<1>2. hot = <<>> /\ owed = 0
  BY <1>1 DEF QueueInv, Holds, Owes
<1>3. ~Over /\ ~Over' /\ hot' \o urgent' = hot \o urgent
  BY <1>1 DEF Over
<1>4. batch \in Seq(Item) /\ items \in Seq(Item) /\ hot \in Seq(Item) /\ urgent \in Seq(Item)
      /\ wire \in Seq(Item)
  BY DEF QueueInv, TypeOK
<1>5. CASE Boundaries(batch) = {}
  <2>1. wire' = wire \o Encoded(SubSeq(batch, 1, 0)) /\ owed' = owed
    BY <1>5 DEF WriteNextRun
  <2>2. SubSeq(batch, 1, 0) = <<>>
    OBVIOUS
  <2>3. wire' = wire
    <3>1. Encoded(SubSeq(batch, 1, 0)) = <<>>
      BY <2>2, EncodedOfNone
    <3>2. wire \o <<>> = wire
      BY <1>4, Lists
    <3>3. QED
      BY <2>1, <3>1, <3>2
  <2>4. SubSeq(batch, 0 + 1, Len(batch)) = batch
    BY <1>4
  <2>5. batch' = <<>>
    BY <1>5, <2>4 DEF WriteNextRun
  <2>6. Encoded(batch) = <<>>
    BY <1>4, <1>5, NothingToWrite
  <2>7. Encoded(batch \o items) = Encoded(items) /\ Encoded(<<>> \o items) = Encoded(items)
    BY <1>4, <2>6, OrdinaryLane
  <2>8. UNCHANGED Lanes!vars
    BY <1>1, <1>3, <2>1, <2>3, <2>5, <2>7, Moved
  <2>9. QED
    BY <2>8
<1>6. CASE Boundaries(batch) # {}
  <2>1. PICK rest : rest = SubSeq(batch, RunEnd(batch) + 1, Len(batch))
    OBVIOUS
  <2>2. PICK lane : lane = Encoded(batch \o items)
    OBVIOUS
  <2>3. PICK head : head = Encoded(First(batch, RunEnd(batch)))
    OBVIOUS
  <2>4. rest \in Seq(Item) /\ SplitsOff(head, Encoded(rest \o items), lane)
    BY <1>4, <1>6, <2>1, <2>2, <2>3, RunIs
  <2>5. RunEnd(batch) # 0
    BY <1>4, <1>6, RunEndIs DEF Boundaries
  <2>6. /\ wire' = wire \o head /\ owed' = Len(urgent)
        /\ batch' = IF Boundaries(rest) = {} THEN <<>> ELSE rest
    BY <1>6, <2>1, <2>3, <2>5 DEF WriteNextRun, First
  <2>7. Encoded(batch' \o items') = Encoded(rest \o items)
    <3>1. CASE Boundaries(rest) = {}
      <4>1. Encoded(rest) = <<>>
        BY <2>4, <3>1, NothingToWrite
      <4>2. Encoded(rest \o items) = Encoded(items) /\ Encoded(<<>> \o items) = Encoded(items)
        BY <1>4, <2>4, <4>1, OrdinaryLane
      <4>3. QED
        BY <1>1, <2>6, <3>1, <4>2
    <3>2. CASE Boundaries(rest) # {}
      BY <1>1, <2>6, <3>2
    <3>3. QED
      BY <3>1, <3>2
  <2>8. Len(hot \o urgent) = Len(urgent)
    BY <1>2, <1>4, Lists
  <2>9. PICK k \in 1..Len(lane) :
              /\ Total(SubSeq(lane, 1, k - 1)) < WriteRun + MergeLimit
              /\ head = SubSeq(lane, 1, k)
              /\ Encoded(rest \o items) = SubSeq(lane, k + 1, Len(lane))
    BY <2>4 DEF SplitsOff
  <2>10. Lanes!TotalSize(SubSeq(lane, 1, k - 1)) < WriteRun + MergeLimit
    BY <2>9, Zenon DEF Lanes!TotalSize, Total
  <2>11. Lanes!SendRun
    BY <1>1, <1>2, <1>3, <2>2, <2>6, <2>7, <2>8, <2>9, <2>10 DEF Lanes!SendRun
  <2>12. QED
    BY <2>11 DEF Lanes!Next
<1>7. QED
  BY <1>5, <1>6

LEMMA TakeStep ==
    ASSUME QueueInv, TakeUrgent
    PROVE  UNCHANGED Lanes!vars
<1>1. /\ writer = "between" /\ writer' = "urgent" /\ hot' = urgent /\ urgent' = <<>>
      /\ UNCHANGED <<items, closed, flush, batch, wire, owed>>
  BY DEF TakeUrgent, closeVars
<1>2. hot = <<>>
  BY <1>1 DEF QueueInv, Holds
<1>3. hot' \o urgent' = hot \o urgent
  BY <1>1, <1>2, Lists DEF QueueInv, TypeOK
<1>4. QED
  BY <1>1, <1>3, Moved DEF Over

\* The writer leaves its loop after the last batch, or because a write failed.
LEMMA EndStep ==
    ASSUME QueueInv, EndBatch
    PROVE  [Lanes!Next]_(Lanes!vars)
<1>1. /\ writer = "flush" /\ writer' = IF last THEN "ending" ELSE "waiting"
      /\ UNCHANGED <<items, urgent, closed, flush, hot, batch, wire, owed>>
  BY DEF EndBatch, queueVars, closeVars
<1>2. CASE last
  <2>1. closed /\ items = <<>> /\ urgent = <<>> /\ hot = <<>> /\ Encoded(batch) = <<>>
    BY <1>1, <1>2 DEF QueueInv, Holds
  <2>2. hot \o urgent = <<>> /\ Encoded(batch \o items) = <<>>
    BY <2>1, Lists, OrdinaryLane DEF QueueInv, TypeOK
  <2>3. owed = 0
    BY <1>1, <2>1, Lists, InTheLoop DEF QueueInv, Owes, Over
  <2>4. ~Over /\ Over'
    BY <1>1, <1>2 DEF Over
  <2>5. Lanes!Finish
    BY <1>1, <2>1, <2>2, <2>3, <2>4 DEF Lanes!Finish
  <2>6. QED
    BY <2>5 DEF Lanes!Next
<1>3. CASE ~last
  <2>1. ~Over /\ ~Over'
    BY <1>1, <1>3 DEF Over
  <2>2. UNCHANGED Lanes!vars
    BY <1>1, <2>1, Moved
  <2>3. QED
    BY <2>2
<1>4. QED
  BY <1>2, <1>3

LEMMA FailStep ==
    ASSUME QueueInv, WriteFails
    PROVE  [Lanes!Next]_(Lanes!vars)
<1>1. ~Over /\ Over' /\ wire' = wire
  BY DEF WriteFails, Over
<1>2. Lanes!Break
  BY <1>1 DEF Lanes!Break
<1>3. QED
  BY <1>2 DEF Lanes!Next

LEMMA LanesStep == QueueInv /\ [Next]_vars => [Lanes!Next]_(Lanes!vars)
<1> SUFFICES ASSUME QueueInv, [Next]_vars
             PROVE  [Lanes!Next]_(Lanes!vars)
  OBVIOUS
<1>1. ASSUME NEW flushing \in BOOLEAN, BeginClose(flushing)
      PROVE  UNCHANGED Lanes!vars
  <2>1. ~closed /\ UNCHANGED <<items, urgent, closed, writer, hot, batch, wire, owed>>
    BY <1>1 DEF BeginClose, QueueInv, ClosedOnce, queueVars, writerVars
  <2>2. QED
    BY <2>1, Moved, AfterTheEnd DEF Over
<1>2. ASSUME CheckWriterDone \/ TurnToBatch
      PROVE  UNCHANGED Lanes!vars
  <2>1. UNCHANGED <<items, urgent, closed, flush, hot, batch, wire, owed>> /\ (Over <=> Over')
    BY <1>2 DEF CheckWriterDone, TurnToBatch, queueVars, closeVars, writerVars, Over
  <2>2. QED
    BY <2>1, Moved, AfterTheEnd
<1>3. ASSUME StoreDone \/ CheckClosing \/ ReportFailure
      PROVE  UNCHANGED Lanes!vars
  <2>1. Over /\ Over' /\ wire' = wire
    BY <1>3 DEF StoreDone, CheckClosing, ReportFailure, Over
  <2>2. QED
    BY <2>1, AfterTheEnd
<1>4. ASSUME UNCHANGED vars
      PROVE  UNCHANGED Lanes!vars
  <2>1. UNCHANGED <<items, urgent, closed, flush, hot, batch, wire, owed>> /\ (Over <=> Over')
    BY <1>4 DEF vars, queueVars, closeVars, writerVars, Over
  <2>2. QED
    BY <2>1, Moved, AfterTheEnd
<1>5. QED
  BY <1>1, <1>2, <1>3, <1>4, PushStep, PushUrgentStep, CloseStep, DrainStep, SendUrgentStep,
     SendRunStep, TakeStep, EndStep, FailStep DEF Next, CloserStep, WriterSteps, SocketSteps

LEMMA LanesStart == Init => Lanes!Init
<1> SUFFICES ASSUME Init
             PROVE  Lanes!Init
  OBVIOUS
<1>1. <<>> \o <<>> = <<>>
  OBVIOUS
<1>2. hot \o urgent = <<>> /\ Encoded(batch \o items) = <<>>
  BY <1>1, EncodedOfNone DEF Init
<1>3. ~Over
  BY DEF Init, Over
<1>4. QED
  BY <1>2, <1>3 DEF Init, Lanes!Init

\* The queue, its writer and begin_close implement TwoLanes (conn.rs, the comments
\* on OutboundQueue, WRITE_RUN and begin_close): each lane in order, nothing lost
\* but what is too large or dropped on purpose, an urgent message overtaken by at
\* most one bounded run, and a flushing close that sends all that was accepted
\* unless the socket fails.
THEOREM LanesKept == Spec => KeepsLanes
<1>1. Init => QueueInv /\ Lanes!Init
  BY Start, LanesStart
<1>2. QueueInv /\ [Next]_vars => QueueInv'
  BY CountStep, HoldStep DEF QueueInv
<1>3. QueueInv /\ [Next]_vars => [Lanes!Next]_(Lanes!vars)
  BY LanesStep
<1>4. QED
  BY <1>1, <1>2, <1>3, PTL DEF Spec, KeepsLanes, Lanes!Spec

=============================================================================
