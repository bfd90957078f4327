-------------------------- MODULE Following_proofs --------------------------
(***************************************************************************)
(* What holds of Following for any number of followers, any queue size and *)
(* any number of frames, restarts, requests and faults.                    *)
(***************************************************************************)
EXTENDS Following, FiniteSetTheorems, SequenceTheorems, TLAPS

\* A finite set as a sequence has just the elements of the set.
LEMMA SequenceOfSet ==
    ASSUME NEW S, IsFiniteSet(S)
    PROVE  SetToSeq(S) \in Seq(S) /\ ToSet(SetToSeq(S)) = S
<1> DEFINE n == Cardinality(S)
<1>1. n \in Nat /\ ExistsBijection(1..n, S)
  BY FS_CardinalityType
<1>2. \E g \in [1..n -> S] : IsInjective(g)
  BY <1>1 DEF ExistsBijection, Bijection, Injection
<1>3. SetToSeq(S) \in [1..n -> S] /\ IsInjective(SetToSeq(S))
  BY <1>2 DEF SetToSeq
<1>4. SetToSeq(S) \in Injection(1..n, S)
  BY <1>3 DEF Injection
<1>5. Cardinality(1..n) = n
  BY <1>1, FS_Interval
<1>6. SetToSeq(S) \in Surjection(1..n, S)
  BY <1>4, <1>5, FS_Injection
<1>7. SetToSeq(S) \in Seq(S) /\ DOMAIN SetToSeq(S) = 1..n
  BY <1>1, <1>3
<1>8. QED
  BY <1>6, <1>7 DEF Surjection, ToSet

\* The elements of two sequences one after the other.
LEMMA SetOfConcatenation ==
    ASSUME NEW S, NEW s \in Seq(S), NEW t \in Seq(S)
    PROVE  ToSet(s \o t) = ToSet(s) \union ToSet(t)
<1>1. /\ Len(s) \in Nat /\ Len(t) \in Nat
      /\ DOMAIN s = 1..Len(s) /\ DOMAIN t = 1..Len(t)
      /\ DOMAIN (s \o t) = 1..(Len(s) + Len(t))
  BY LenProperties, ConcatProperties
<1>2. ToSet(s \o t) \subseteq ToSet(s) \union ToSet(t)
  BY <1>1, ConcatProperties DEF ToSet
<1>3. ASSUME NEW i \in DOMAIN s PROVE s[i] \in ToSet(s \o t)
  BY <1>1, ConcatProperties DEF ToSet
<1>4. ASSUME NEW i \in DOMAIN t PROVE t[i] \in ToSet(s \o t)
  <2>1. /\ Len(s) + i \in DOMAIN (s \o t)
        /\ (s \o t)[Len(s) + i] = t[i]
    BY <1>1, ConcatProperties
  <2>2. QED
    BY <2>1 DEF ToSet
<1>5. QED
  BY <1>2, <1>3, <1>4 DEF ToSet

-----------------------------------------------------------------------------
(* Types.                                                                  *)

\* The publisher's variables and the channels, after it has sent something.
LEMMA PublishTypes ==
    ASSUME PublisherTypes, LaneTypes,
           NEW streams \in Seq(Message), NEW snapped \in BOOLEAN, NEW at \in Nat,
           lineage' \in Nat, lineage' >= lineage,
           Publish(streams, snapped, at)
    PROVE  /\ channel' \in [Follower -> Seq(Message)]
           /\ published' \in 0..lineage'
           /\ requesters' \in Seq(Follower)
           /\ nextFirst' \in Nat
           /\ missed' \subseteq Follower
<1>1. ASSUME NEW f \in Follower
      PROVE  channel[f] \o streams
               \o (IF snapped /\ f \in Targets THEN <<Snapshot(at, lineage')>> ELSE <<>>)
             \in Seq(Message)
  <2>1. Snapshot(at, lineage') \in Message
    BY DEF Snapshot, Message
  <2>2. channel[f] \in Seq(Message)
    BY DEF LaneTypes
  <2>3. channel[f] \o streams \in Seq(Message)
    BY <2>2
  <2>4. <<Snapshot(at, lineage')>> \in Seq(Message) /\ <<>> \in Seq(Message)
    BY <2>1
  <2>5. QED
    BY <2>3, <2>4
<1>2. channel' \in [Follower -> Seq(Message)]
  BY <1>1 DEF Publish
<1>3. published' \in 0..lineage'
  BY DEF Publish, PublisherTypes
<1>4. requesters' \in Seq(Follower)
  BY DEF Publish, PublisherTypes
<1>5. nextFirst' \in Nat
  <2>1. Len(streams) \in Nat
    OBVIOUS
  <2>2. QED
    BY <2>1 DEF Publish, PublisherTypes
<1>6. missed' \subseteq Follower
  BY DEF Publish, Miss, PublisherTypes
<1>7. QED
  BY <1>2, <1>3, <1>4, <1>5, <1>6

\* A group of variables that stays as it is keeps its types.
LEMMA TypesKept ==
    ASSUME Types
    PROVE  /\ UNCHANGED publisherVars => PublisherTypes'
           /\ UNCHANGED <<hostVars, channel>> => LaneTypes'
           /\ UNCHANGED slotVars => SlotTypes'
           /\ UNCHANGED feederVars => FeederTypes'
           /\ UNCHANGED coreVars => CoreTypes'
<1> USE DEF Types
<1>1. UNCHANGED publisherVars => PublisherTypes'
  BY DEF publisherVars, PublisherTypes
<1>2. UNCHANGED <<hostVars, channel>> => LaneTypes'
  BY DEF hostVars, LaneTypes
<1>3. UNCHANGED slotVars => SlotTypes'
  BY DEF slotVars, SlotTypes
<1>4. UNCHANGED feederVars => FeederTypes'
  BY DEF feederVars, FeederTypes
<1>5. UNCHANGED coreVars => CoreTypes'
  BY DEF coreVars, CoreTypes
<1>6. QED
  BY <1>1, <1>2, <1>3, <1>4, <1>5

\* The same of a step of the publishing core.
LEMMA CoreStepTypes ==
    ASSUME Types, EmulateFrame \/ PublishPending \/ HandleCommand \/ StartRecording \/ ReplaceCore
    PROVE  PublisherTypes' /\ LaneTypes'
<1> USE DEF hostVars
<1>0. PublisherTypes /\ LaneTypes /\ <<>> \in Seq(Message)
  BY DEF Types
<1>1. CASE EmulateFrame
  <2>1. <<Stream(nextFirst, published)>> \in Seq(Message)
    BY DEF Types, PublisherTypes, Stream, Message
  <2>2. /\ frame' \in Nat /\ lineage' = lineage /\ lineage \in Nat /\ snapPending \in BOOLEAN
        /\ Publish(<<Stream(nextFirst, published)>>, snapPending, frame')
    BY <1>1 DEF EmulateFrame, Types, PublisherTypes
  <2>. lineage' \in Nat /\ lineage' >= lineage
    BY <2>2
  <2>3. /\ channel' \in [Follower -> Seq(Message)]
        /\ published' \in 0..lineage'
        /\ requesters' \in Seq(Follower)
        /\ nextFirst' \in Nat
        /\ missed' \subseteq Follower
    BY <1>0, <2>1, <2>2, PublishTypes
  <2>4. PublisherTypes'
    BY <1>1, <2>2, <2>3 DEF EmulateFrame, Types, PublisherTypes
  <2>5. LaneTypes'
    BY <1>1, <2>3 DEF EmulateFrame, Types, LaneTypes
  <2>6. QED
    BY <2>4, <2>5
<1>2. CASE PublishPending
  <2>1. /\ frame \in Nat /\ frame' = frame /\ lineage' = lineage /\ lineage \in Nat
        /\ Publish(<<>>, TRUE, frame)
    BY <1>0, <1>2 DEF PublishPending, PublisherTypes
  <2>. lineage' \in Nat /\ lineage' >= lineage
    BY <2>1
  <2>2. /\ channel' \in [Follower -> Seq(Message)]
        /\ published' \in 0..lineage'
        /\ requesters' \in Seq(Follower)
        /\ nextFirst' \in Nat
        /\ missed' \subseteq Follower
    BY <1>0, <2>1, PublishTypes
  <2>3. PublisherTypes'
    BY <1>0, <1>2, <2>1, <2>2 DEF PublishPending, PublisherTypes
  <2>4. LaneTypes'
    BY <1>2, <2>2 DEF PublishPending, Types, LaneTypes
  <2>5. QED
    BY <2>3, <2>4
<1>3. CASE ReplaceCore
  <2>0. Publish(<<>>, TRUE, 0)
    BY <1>3 DEF ReplaceCore
  <2>1. lineage' \in Nat /\ lineage' >= lineage
    BY <1>0, <1>3 DEF ReplaceCore, PublisherTypes
  <2>2. /\ channel' \in [Follower -> Seq(Message)]
        /\ published' \in 0..lineage'
        /\ requesters' \in Seq(Follower)
        /\ nextFirst' \in Nat
        /\ missed' \subseteq Follower
    BY <1>0, <2>0, <2>1, PublishTypes
  <2>3. PublisherTypes'
    <3>1. frame' = 0 /\ snapPending' = FALSE /\ commands' = 0
      BY <1>3 DEF ReplaceCore
    <3>2. QED
      BY <2>1, <2>2, <3>1 DEF PublisherTypes
  <2>4. LaneTypes'
    BY <1>3, <2>2 DEF ReplaceCore, Types, LaneTypes
  <2>5. QED
    BY <2>3, <2>4
<1>4. CASE HandleCommand
  <2>1. PublisherTypes'
    BY <1>4 DEF HandleCommand, Types, PublisherTypes
  <2>2. QED
    BY <1>4, <2>1, TypesKept DEF HandleCommand
<1>5. CASE StartRecording
  <2>1. PublisherTypes'
    BY <1>5 DEF StartRecording, Types, PublisherTypes
  <2>2. QED
    BY <1>5, <2>1, TypesKept DEF StartRecording
<1>6. QED
  BY <1>1, <1>2, <1>3, <1>4, <1>5

\* The same of a Stream message.
LEMMA StreamTypes ==
    ASSUME Types, NEW f \in Follower, NEW k \in 1..MaxTurns, ReceiveStream(f, k)
    PROVE  Types'
<1>1. /\ channel[f] \in Seq(Message) /\ Len(channel[f]) \in Nat
      /\ k \in Nat /\ 1 <= k /\ k <= Len(channel[f])
  BY BoundsAssumption DEF ReceiveStream, Types, LaneTypes
<1>2. /\ SubSeq(channel[f], 1, k) \in Seq(Message)
      /\ SubSeq(channel[f], k + 1, Len(channel[f])) \in Seq(Message)
  BY <1>1
<1>3. channel[f][1].first \in Nat
  <2>1. channel[f][1] \in Message
    BY <1>1
  <2>2. QED
    BY <2>1 DEF Message
<1>4. LaneTypes'
  BY <1>2 DEF ReceiveStream, Types, LaneTypes, hostVars
<1>5. SlotTypes'
  <2>1. live' \in [Follower -> Nat \union {Awaiting}]
    BY <1>1, <1>3 DEF ReceiveStream, Types, SlotTypes, slotVars
  <2>2. asked' \in [Follower -> BOOLEAN]
    BY DEF ReceiveStream, Types, SlotTypes, AskHost, slotVars
  <2>3. requests' \in [Follower -> Nat]
    <3>1. CASE UNCHANGED requests
      BY <3>1 DEF Types, SlotTypes
    <3>2. CASE requests' = [requests EXCEPT ![f] = @ + 1]
      BY <3>2 DEF Types, SlotTypes
    <3>3. QED
      BY <3>1, <3>2 DEF ReceiveStream, AskHost, slotVars
  <2>4. QED
    BY <2>1, <2>2, <2>3 DEF SlotTypes
<1>6. FeederTypes'
  <2> USE DEF ReceiveStream, Types, FeederTypes, Feed, Discard, AskUpstream, feederVars
  <2>1. queue' \in [Follower -> Seq(Message)]
    <3>1. queue[f] \o SubSeq(channel[f], 1, k) \in Seq(Message)
      BY <1>2
    <3>2. \/ queue' = queue
          \/ queue' = [queue EXCEPT ![f] = <<>>]
          \/ queue' = [queue EXCEPT ![f] = @ \o SubSeq(channel[f], 1, k)]
      OBVIOUS
    <3>3. queue \in [Follower -> Seq(Message)] /\ <<>> \in Seq(Message)
      OBVIOUS
    <3>4. QED
      BY ONLY <3>1, <3>2, <3>3
  <2>2. have' \in [Follower -> BOOLEAN]
    OBVIOUS
  <2>3. held' \in [Follower -> BOOLEAN]
    OBVIOUS
  <2>4. upstream' \in [Follower -> BOOLEAN]
    OBVIOUS
  <2>5. fed' \in [Follower -> Nat]
    OBVIOUS
  <2>6. QED
    BY <2>1, <2>2, <2>3, <2>4, <2>5
<1>7. QED
  BY <1>4, <1>5, <1>6, TypesKept DEF ReceiveStream, Types

\* Every variable keeps to its type.
THEOREM FollowingTypes == Spec => []Types
<1>1. Init => Types
  <2> SUFFICES ASSUME Init PROVE Types
    OBVIOUS
  <2> USE FrameAssumption DEF Init
  <2>0. <<>> \in Seq(Follower) /\ <<>> \in Seq(Message)
    OBVIOUS
  <2>1. PublisherTypes
    <3>1. published \in 0..lineage /\ lineage \in Nat
      OBVIOUS
    <3>2. requesters \in Seq(Follower)
      BY <2>0
    <3>3. frame \in Nat /\ nextFirst \in Nat /\ commands \in Nat /\ snapPending \in BOOLEAN
      OBVIOUS
    <3>4. missed \subseteq Follower
      OBVIOUS
    <3>5. QED
      BY ONLY <3>1, <3>2, <3>3, <3>4 DEF PublisherTypes
  <2>2. LaneTypes
    BY <2>0 DEF LaneTypes
  <2>3. SlotTypes
    BY DEF SlotTypes
  <2>4. FeederTypes
    BY DEF FeederTypes
  <2>5. CoreTypes
    BY DEF CoreTypes
  <2>6. QED
    BY <2>1, <2>2, <2>3, <2>4, <2>5 DEF Types
<1>2. Types /\ [Next]_vars => Types'
  <2> SUFFICES ASSUME Types, [Next]_vars PROVE Types'
    OBVIOUS
  <2>1. CASE EmulateFrame \/ PublishPending \/ HandleCommand \/ StartRecording \/ ReplaceCore
    <3>1. UNCHANGED <<slotVars, feederVars, coreVars>>
      BY <2>1 DEF EmulateFrame, PublishPending, HandleCommand, StartRecording, ReplaceCore
    <3>2. QED
      BY <2>1, <3>1, CoreStepTypes, TypesKept DEF Types
  <2>2. CASE NoteRequesters
    <3>1. SetToSeq(coalescer) \in Seq(Follower)
      <4>1. coalescer \subseteq Follower /\ IsFiniteSet(coalescer)
        BY FollowerAssumption, FS_Subset DEF Types, LaneTypes
      <4>2. QED
        BY <4>1, SequenceOfSet, SeqMonotonic
    <3>2. requesters \o SetToSeq(coalescer) \in Seq(Follower)
      BY <3>1 DEF Types, PublisherTypes
    <3>3. PublisherTypes'
      BY <2>2, <3>2 DEF NoteRequesters, Types, PublisherTypes
    <3>4. LaneTypes'
      BY <2>2 DEF NoteRequesters, Types, LaneTypes
    <3>5. QED
      BY <2>2, <3>3, <3>4, TypesKept DEF NoteRequesters, Types
  <2>3. CASE CommandSnapshot
    <3>1. PublisherTypes'
      BY <2>3 DEF CommandSnapshot, Types, PublisherTypes
    <3>2. LaneTypes'
      BY <2>3 DEF CommandSnapshot, Types, LaneTypes
    <3>3. QED
      BY <2>3, <3>1, <3>2, TypesKept DEF CommandSnapshot, Types
  <2>4. ASSUME NEW f \in Follower, RequestArrives(f) PROVE Types'
    <3>1. LaneTypes'
      BY <2>4 DEF RequestArrives, Types, LaneTypes
    <3>2. SlotTypes'
      BY <2>4 DEF RequestArrives, Types, SlotTypes
    <3>3. QED
      BY <2>4, <3>1, <3>2, TypesKept DEF RequestArrives, Types
  <2>5. ASSUME NEW f \in Follower, NEW k \in 1..MaxTurns, ReceiveStream(f, k) PROVE Types'
    BY <2>5, StreamTypes
  <2>6. ASSUME NEW f \in Follower, ReceiveSnapshot(f) PROVE Types'
    <3>1. channel[f] \in Seq(Message) /\ channel[f] # <<>>
      BY <2>6 DEF ReceiveSnapshot, Types, LaneTypes
    <3>2. /\ Head(channel[f]) \in Message /\ Tail(channel[f]) \in Seq(Message)
          /\ <<Head(channel[f])>> \in Seq(Message)
      BY <3>1
    <3>3. Head(channel[f]).first \in Nat /\ Head(channel[f]).lineage \in Nat
      BY <3>2 DEF Message
    <3>4. LaneTypes'
      BY <2>6, <3>2 DEF ReceiveSnapshot, Types, LaneTypes, hostVars
    <3>5. SlotTypes'
      BY <2>6, <3>3 DEF ReceiveSnapshot, Types, SlotTypes, ClearAsked
    <3>6. FeederTypes'
      BY <2>6, <3>2, <3>3 DEF ReceiveSnapshot, Types, FeederTypes
    <3>7. QED
      BY <2>6, <3>4, <3>5, <3>6, TypesKept DEF ReceiveSnapshot, Types
  <2>7. ASSUME NEW f \in Follower, Pop(f) PROVE Types'
    <3>1. queue[f] \in Seq(Message) /\ queue[f] # <<>>
      BY <2>7 DEF Pop, Types, FeederTypes
    <3>2. Tail(queue[f]) \in Seq(Message)
      BY <3>1
    <3>3. FeederTypes'
      BY <2>7, <3>2 DEF Pop, Types, FeederTypes
    <3>4. CoreTypes'
      BY <2>7 DEF Pop, Types, CoreTypes
    <3>5. QED
      BY <2>7, <3>3, <3>4, TypesKept DEF Pop, Types
  <2>8. ASSUME NEW f \in Follower, Loaded(f) PROVE Types'
    <3>1. CoreTypes'
      BY <2>8 DEF Loaded, Types, CoreTypes
    <3>2. QED
      BY <2>8, <3>1, TypesKept DEF Loaded, Types
  <2>9. ASSUME NEW f \in Follower, LoadFails(f) PROVE Types'
    <3>1. FeederTypes'
      BY <2>9 DEF LoadFails, Discard, AskUpstream, Types, FeederTypes
    <3>2. CoreTypes'
      BY <2>9 DEF LoadFails, Types, CoreTypes
    <3>3. QED
      BY <2>9, <3>1, <3>2, TypesKept DEF LoadFails, Types
  <2>10. ASSUME NEW f \in Follower, CoreAsks(f) PROVE Types'
    <3>1. FeederTypes'
      BY <2>10 DEF CoreAsks, AskUpstream, Types, FeederTypes
    <3>2. QED
      BY <2>10, <3>1, TypesKept DEF CoreAsks, Types
  <2>11. ASSUME NEW f \in Follower, Forward(f) PROVE Types'
    <3>1. FeederTypes'
      BY <2>11 DEF Forward, Types, FeederTypes
    <3>2. SlotTypes'
      BY <2>11 DEF Forward, AskHost, Types, SlotTypes
    <3>3. QED
      BY <2>11, <3>1, <3>2, TypesKept DEF Forward, Types
  <2>12. ASSUME NEW f \in Follower, AskAgain(f) PROVE Types'
    <3>1. SlotTypes'
      BY <2>12 DEF AskAgain, AskHost, Types, SlotTypes
    <3>2. QED
      BY <2>12, <3>1, TypesKept DEF AskAgain, Types
  <2>13. ASSUME NEW f \in Follower, IntervalPasses(f) PROVE Types'
    <3>1. SlotTypes'
      BY <2>13 DEF IntervalPasses, Types, SlotTypes
    <3>2. FeederTypes'
      BY <2>13 DEF IntervalPasses, Types, FeederTypes
    <3>3. QED
      BY <2>13, <3>1, <3>2, TypesKept DEF IntervalPasses, Types
  <2>14. CASE UNCHANGED vars
    BY <2>14, TypesKept DEF vars, Types
  <2>15. QED
    BY <2>1, <2>2, <2>3, <2>4, <2>5, <2>6, <2>7, <2>8, <2>9, <2>10, <2>11, <2>12, <2>13,
       <2>14 DEF Next
<1>3. QED
  BY <1>1, <1>2, PTL DEF Spec

-----------------------------------------------------------------------------
(* Requesters are served.                                                  *)

\* While anybody waits in pending_requesters a snapshot is still to come: the
\* list is emptied only by a snapshot, and a command follows every addition.
THEOREM RequestersAreServed == Spec => []RequestersServed
<1>1. Init => RequestersServed
  BY DEF Init, RequestersServed
<1>2. Types /\ RequestersServed /\ [Next]_vars => RequestersServed'
  <2> SUFFICES ASSUME Types, RequestersServed, [Next]_vars PROVE RequestersServed'
    OBVIOUS
  <2>0. commands \in Nat
    BY DEF Types, PublisherTypes
  <2> USE DEF RequestersServed, publisherVars, hostVars
  <2>1. CASE EmulateFrame \/ PublishPending \/ ReplaceCore
    BY <2>1 DEF EmulateFrame, PublishPending, ReplaceCore, Publish
  <2>2. CASE HandleCommand \/ StartRecording
    BY <2>2 DEF HandleCommand, StartRecording
  <2>3. CASE NoteRequesters \/ CommandSnapshot
    BY <2>0, <2>3 DEF NoteRequesters, CommandSnapshot
  <2>4. ASSUME NEW f \in Follower, NEW k \in 1..MaxTurns, ReceiveStream(f, k)
        PROVE  RequestersServed'
    BY <2>4 DEF ReceiveStream
  <2>5. ASSUME NEW f \in Follower,
               \/ RequestArrives(f) \/ ReceiveSnapshot(f)
               \/ Pop(f) \/ Loaded(f) \/ LoadFails(f) \/ CoreAsks(f)
               \/ Forward(f) \/ AskAgain(f) \/ IntervalPasses(f)
        PROVE  RequestersServed'
    BY <2>5 DEF RequestArrives, ReceiveSnapshot, Pop, Loaded, LoadFails, CoreAsks, Forward,
                AskAgain, IntervalPasses
  <2>6. CASE UNCHANGED vars
    BY <2>6 DEF vars
  <2>7. QED
    BY <2>1, <2>2, <2>3, <2>4, <2>5, <2>6 DEF Next
<1>3. QED
  BY <1>1, <1>2, FollowingTypes, PTL DEF Spec

-----------------------------------------------------------------------------
(* Nobody is forgotten.                                                    *)

\* The publisher owes f a snapshot, or has sent one.
Due(f) ==
    \/ f \in ToSet(requesters)
    \/ \E i \in DOMAIN channel[f] : channel[f][i].kind = "snapshot"

\* Neither rate limit holds a request back unless another one stands.
Remembered(f) ==
    /\ asked[f] => Asking(f)
    /\ held[f] \/ live[f] = Awaiting \/ ~have[f] => upstream[f] \/ Asking(f)

\* What the publisher owes it sends, to the lone requester or to everyone.
LEMMA PublishDue ==
    ASSUME Types,
           NEW streams \in Seq(Message), NEW snapped \in BOOLEAN, NEW at \in Nat,
           lineage' \in Nat, Publish(streams, snapped, at),
           NEW f \in Follower, Due(f)
    PROVE  Due(f)'
<1> DEFINE before == channel[f] \o streams
           sent   == IF snapped /\ f \in Targets THEN <<Snapshot(at, lineage')>> ELSE <<>>
<1>1. channel[f] \in Seq(Message) /\ requesters \in Seq(Follower)
  BY DEF Types, LaneTypes, PublisherTypes
<1>2. channel'[f] = before \o sent
  BY DEF Publish
<1>3. Snapshot(at, lineage') \in Message /\ Snapshot(at, lineage').kind = "snapshot"
  BY DEF Snapshot, Message
<1>4. sent \in Seq(Message)
  BY <1>3
<1>5. /\ before \in Seq(Message)
      /\ DOMAIN channel[f] \subseteq DOMAIN before
      /\ \A i \in DOMAIN channel[f] : before[i] = channel[f][i]
  BY <1>1, ConcatProperties
<1>6. /\ DOMAIN before \subseteq DOMAIN (before \o sent)
      /\ \A i \in DOMAIN before : (before \o sent)[i] = before[i]
  <2> HIDE DEF before, sent
  <2>1. QED
    BY <1>4, <1>5, ConcatProperties
<1>7. CASE \E i \in DOMAIN channel[f] : channel[f][i].kind = "snapshot"
  BY <1>2, <1>5, <1>6, <1>7 DEF Due
<1>8. CASE f \in ToSet(requesters) /\ ~snapped
  BY <1>8 DEF Publish, Due
<1>9. CASE f \in ToSet(requesters) /\ snapped
  <2>1. f \in Targets
    <3>1. CASE Len(requesters) = 1
      BY <1>1, <1>9, <3>1 DEF Targets, ToSet
    <3>2. CASE Len(requesters) # 1
      BY <3>2 DEF Targets
    <3>3. QED
      BY <3>1, <3>2
  <2>2. sent = <<Snapshot(at, lineage')>>
    BY <1>9, <2>1
  <2>3. /\ Len(before) + 1 \in DOMAIN (before \o sent)
        /\ (before \o sent)[Len(before) + 1] = Snapshot(at, lineage')
    <3> HIDE DEF before, sent
    <3>1. QED
      BY <1>3, <1>4, <1>5, <2>2, ConcatProperties
  <2>4. QED
    BY <1>2, <1>3, <2>3 DEF Due
<1>10. QED
  BY <1>7, <1>8, <1>9 DEF Due

\* A request stands until its follower receives a snapshot.
LEMMA AskingKept ==
    ASSUME Types, [Next]_vars, NEW e \in Follower, ~ReceiveSnapshot(e), Asking(e)
    PROVE  Asking(e)'
<1>0. /\ requests \in [Follower -> Nat] /\ channel \in [Follower -> Seq(Message)]
      /\ PublisherTypes /\ LaneTypes
  BY DEF Types, SlotTypes, LaneTypes
<1>1. Asking(e) <=> requests[e] > 0 \/ e \in coalescer \/ Due(e)
  BY DEF Asking, Due
<1>2. Asking(e)' <=> requests'[e] > 0 \/ e \in coalescer' \/ Due(e)'
  BY DEF Asking, Due
<1>3. UNCHANGED <<requesters, channel>> /\ Due(e) => Due(e)'
  BY DEF Due
<1> USE DEF publisherVars, hostVars, slotVars
<1>4. ASSUME Due(e) => Due(e)', UNCHANGED <<requests, coalescer>> PROVE Asking(e)'
  BY <1>1, <1>2, <1>4
<1>5. CASE EmulateFrame
  <2>1. <<Stream(nextFirst, published)>> \in Seq(Message)
    BY <1>0 DEF PublisherTypes, Stream, Message
  <2>2. /\ frame' \in Nat /\ lineage' \in Nat /\ snapPending \in BOOLEAN
        /\ Publish(<<Stream(nextFirst, published)>>, snapPending, frame')
    BY <1>0, <1>5 DEF EmulateFrame, PublisherTypes
  <2>3. Due(e) => Due(e)'
    BY <2>1, <2>2, PublishDue
  <2>4. QED
    BY <1>4, <1>5, <2>3 DEF EmulateFrame
<1>6. CASE PublishPending
  <2>1. Publish(<<>>, TRUE, frame)
    BY <1>6 DEF PublishPending
  <2>2. frame \in Nat /\ lineage' \in Nat /\ <<>> \in Seq(Message)
    BY <1>0, <1>6 DEF PublishPending, PublisherTypes
  <2>3. Due(e) => Due(e)'
    BY <2>1, <2>2, PublishDue
  <2>4. QED
    BY <1>4, <1>6, <2>3 DEF PublishPending
<1>7. CASE ReplaceCore
  <2>1. Publish(<<>>, TRUE, 0)
    BY <1>7 DEF ReplaceCore
  <2>2. lineage' \in Nat /\ <<>> \in Seq(Message)
    BY <1>0, <1>7 DEF ReplaceCore, PublisherTypes
  <2>3. Due(e) => Due(e)'
    BY <2>1, <2>2, PublishDue
  <2>4. QED
    BY <1>4, <1>7, <2>3 DEF ReplaceCore
<1>8. CASE HandleCommand \/ StartRecording \/ CommandSnapshot
  BY <1>3, <1>4, <1>8 DEF HandleCommand, StartRecording, CommandSnapshot
<1>9. CASE NoteRequesters
  <2>1. coalescer \subseteq Follower /\ IsFiniteSet(coalescer)
    BY <1>0, FollowerAssumption, FS_Subset DEF LaneTypes
  <2>2. SetToSeq(coalescer) \in Seq(Follower) /\ ToSet(SetToSeq(coalescer)) = coalescer
    BY <2>1, SequenceOfSet, SeqMonotonic
  <2>3. ToSet(requesters') = ToSet(requesters) \union coalescer
    BY <1>0, <1>9, <2>2, SetOfConcatenation DEF NoteRequesters, PublisherTypes
  <2>4. QED
    BY <1>1, <1>2, <1>9, <2>3 DEF NoteRequesters, Due
<1>10. ASSUME NEW f \in Follower, RequestArrives(f) PROVE Asking(e)'
  <2>1. Due(e) => Due(e)'
    BY <1>3, <1>10 DEF RequestArrives
  <2>2. QED
    BY <1>0, <1>1, <1>2, <1>10, <2>1 DEF RequestArrives
<1>11. ASSUME NEW f \in Follower, NEW k \in 1..MaxTurns, ReceiveStream(f, k) PROVE Asking(e)'
  <2>1. requests'[e] = requests[e] \/ requests'[e] = requests[e] + 1
    BY <1>0, <1>11 DEF ReceiveStream, AskHost
  <2>2. UNCHANGED <<requesters, coalescer>>
    BY <1>11 DEF ReceiveStream
  <2>3. CASE e # f
    <3>1. channel'[e] = channel[e]
      BY <1>11, <2>3 DEF ReceiveStream
    <3>2. QED
      BY <1>0, <1>1, <1>2, <2>1, <2>2, <3>1 DEF Due
  <2>4. CASE e = f
    <3> DEFINE rest == SubSeq(channel[e], k + 1, Len(channel[e]))
    <3>1. /\ channel[e] \in Seq(Message) /\ Len(channel[e]) \in Nat
          /\ k \in Nat /\ k <= Len(channel[e]) /\ channel'[e] = rest
          /\ \A i \in 1..k : channel[e][i].kind = "stream"
      BY <1>0, <1>11, <2>4, BoundsAssumption DEF ReceiveStream
    <3>2. /\ DOMAIN rest = 1..(Len(channel[e]) - k)
          /\ \A i \in 1..(Len(channel[e]) - k) : rest[i] = channel[e][i + k]
      BY <3>1
    <3>3. ASSUME NEW i \in DOMAIN channel[e], channel[e][i].kind = "snapshot"
          PROVE  Due(e)'
      <4>1. i \in (k + 1)..Len(channel[e])
        BY <3>1, <3>3
      <4>2. i - k \in DOMAIN rest /\ rest[i - k] = channel[e][i]
        BY <3>1, <3>2, <4>1
      <4>3. QED
        BY <3>1, <3>3, <4>2 DEF Due
    <3>4. QED
      BY <1>0, <1>1, <1>2, <2>1, <2>2, <3>3 DEF Due
  <2>5. QED
    BY <2>3, <2>4
<1>12. ASSUME NEW f \in Follower, ReceiveSnapshot(f) PROVE Asking(e)'
  <2>1. e # f
    BY <1>12
  <2>2. channel'[e] = channel[e] /\ UNCHANGED <<requesters, requests, coalescer>>
    BY <1>0, <1>12, <2>1 DEF ReceiveSnapshot
  <2>3. QED
    BY <1>4, <2>2 DEF Due
<1>13. ASSUME NEW f \in Follower,
              Pop(f) \/ Loaded(f) \/ LoadFails(f) \/ CoreAsks(f) \/ IntervalPasses(f)
       PROVE  Asking(e)'
  BY <1>3, <1>4, <1>13 DEF Pop, Loaded, LoadFails, CoreAsks, IntervalPasses
<1>14. ASSUME NEW f \in Follower, Forward(f) \/ AskAgain(f) PROVE Asking(e)'
  <2>1. Due(e) => Due(e)'
    BY <1>3, <1>14 DEF Forward, AskAgain
  <2>2. requests'[e] = requests[e] \/ requests'[e] = requests[e] + 1
    BY <1>0, <1>14 DEF Forward, AskAgain, AskHost
  <2>3. coalescer' = coalescer
    BY <1>14 DEF Forward, AskAgain
  <2>4. QED
    BY <1>0, <1>1, <1>2, <2>1, <2>2, <2>3
<1>15. CASE UNCHANGED vars
  BY <1>3, <1>4, <1>15 DEF vars
<1>16. QED
  BY <1>5, <1>6, <1>7, <1>8, <1>9, <1>10, <1>11, <1>12, <1>13, <1>14, <1>15 DEF Next

LEMMA RememberedStep ==
    ASSUME Types, [Next]_vars, NEW e \in Follower, Remembered(e)
    PROVE  Remembered(e)'
<1>0. /\ requests \in [Follower -> Nat]
      /\ channel \in [Follower -> Seq(Message)]
      /\ asked \in [Follower -> BOOLEAN]
      /\ live \in [Follower -> Nat \union {Awaiting}]
      /\ held \in [Follower -> BOOLEAN]
      /\ upstream \in [Follower -> BOOLEAN]
      /\ have \in [Follower -> BOOLEAN]
  BY DEF Types, SlotTypes, LaneTypes, FeederTypes
<1>1. CASE ReceiveSnapshot(e)
  <2>1. channel[e] \in Seq(Message) /\ channel[e] # <<>>
    BY <1>0, <1>1 DEF ReceiveSnapshot
  <2>2. Head(channel[e]).first \in Nat
    <3>1. Head(channel[e]) \in Message
      BY <2>1
    <3>2. QED
      BY <3>1 DEF Message
  <2>3. live'[e] # Awaiting
    BY <1>0, <1>1, <2>2 DEF ReceiveSnapshot, Awaiting
  <2>4. ~asked'[e] /\ ~held'[e] /\ have'[e]
    BY <1>0, <1>1 DEF ReceiveSnapshot, ClearAsked
  <2>5. QED
    BY <2>3, <2>4 DEF Remembered
<1>2. CASE ~ReceiveSnapshot(e)
  <2>1. Asking(e) => Asking(e)'
    BY <1>2, AskingKept
  <2>2. ASSUME asked'[e] => asked[e],
               held'[e] => held[e],
               (upstream'[e] = upstream[e]) \/ Asking(e)',
               UNCHANGED <<live[e], have[e]>>
        PROVE  Remembered(e)'
    BY <2>1, <2>2 DEF Remembered
  <2>3. ASSUME AskHost(e) PROVE Asking(e)'
    <3>1. requests[e] \in Nat
      BY <1>0
    <3>2. CASE asked[e]
      BY <2>1, <3>2 DEF Remembered
    <3>3. CASE ~asked[e]
      <4>1. requests'[e] = requests[e] + 1
        BY <1>0, <2>3, <3>3 DEF AskHost
      <4>2. QED
        BY <3>1, <4>1 DEF Asking
    <3>4. QED
      BY <3>2, <3>3
  <2>4. ASSUME AskUpstream(e) PROVE upstream'[e] \/ Asking(e)'
    BY <1>0, <2>1, <2>4 DEF AskUpstream, Remembered
  <2> USE DEF publisherVars, hostVars, slotVars, feederVars
  <2>5. CASE \/ EmulateFrame \/ PublishPending \/ HandleCommand \/ StartRecording
             \/ ReplaceCore \/ NoteRequesters \/ CommandSnapshot
    BY <2>2, <2>5 DEF EmulateFrame, PublishPending, HandleCommand, StartRecording, ReplaceCore,
                      NoteRequesters, CommandSnapshot
  <2>6. ASSUME NEW f \in Follower, RequestArrives(f) \/ Pop(f) \/ Loaded(f) PROVE Remembered(e)'
    BY <2>2, <2>6 DEF RequestArrives, Pop, Loaded
  <2>7. ASSUME NEW f \in Follower, NEW k \in 1..MaxTurns, ReceiveStream(f, k)
        PROVE  Remembered(e)'
    <3>1. CASE f # e
      <4>1. UNCHANGED <<asked[e], held[e], upstream[e], live[e], have[e]>>
        BY <1>0, <2>7, <3>1 DEF ReceiveStream, AskHost, Feed, Discard, AskUpstream
      <4>2. QED
        BY <2>2, <4>1
    <3>2. CASE f = e /\ UNCHANGED <<slotVars, feederVars>>
      BY <2>2, <3>2
    <3>3. CASE f = e /\ AskHost(e)
      BY <2>3, <3>3 DEF Remembered
    <3>4. CASE f = e /\ live[e] = channel[e][1].first /\ UNCHANGED <<asked, requests>>
      <4>1. live'[e] # Awaiting
        <5>1. channel[e] \in Seq(Message) /\ k \in Nat /\ 1 <= k /\ k <= Len(channel[e])
          BY <1>0, <2>7, <3>4, BoundsAssumption DEF ReceiveStream
        <5>2. channel[e][1].first \in Nat
          <6>1. channel[e][1] \in Message
            BY <5>1
          <6>2. QED
            BY <6>1 DEF Message
        <5>3. live'[e] = channel[e][1].first + k
          BY <1>0, <2>7, <3>4, <5>2 DEF ReceiveStream, Awaiting
        <5>4. QED
          BY <5>1, <5>2, <5>3 DEF Awaiting
      <4>2. asked'[e] => Asking(e)'
        BY <2>1, <3>4 DEF Remembered
      <4>3. \/ UNCHANGED <<have, held, upstream>>
            \/ AskUpstream(e)
        BY <2>7, <3>4, <1>0 DEF ReceiveStream, Feed, Discard, Awaiting, AskHost
      <4>4. QED
        BY <2>1, <2>4, <4>1, <4>2, <4>3 DEF Remembered
    <3>5. QED
      BY <2>7, <3>1, <3>2, <3>3, <3>4 DEF ReceiveStream
  <2>8. ASSUME NEW f \in Follower, ReceiveSnapshot(f) PROVE Remembered(e)'
    <3>1. f # e
      BY <1>2, <2>8
    <3>2. UNCHANGED <<asked[e], held[e], upstream[e], live[e], have[e]>>
      BY <1>0, <2>8, <3>1 DEF ReceiveSnapshot, ClearAsked
    <3>3. QED
      BY <2>2, <3>2
  <2>9. ASSUME NEW f \in Follower, LoadFails(f) \/ CoreAsks(f) PROVE Remembered(e)'
    <3>1. CASE f = e
      <4>1. AskUpstream(e) /\ UNCHANGED <<asked, live>>
        BY <2>9, <3>1 DEF LoadFails, CoreAsks, Discard
      <4>2. QED
        BY <2>1, <2>4, <4>1 DEF Remembered
    <3>2. CASE f # e
      <4>1. UNCHANGED <<asked[e], held[e], upstream[e], live[e], have[e]>>
        BY <1>0, <2>9, <3>2 DEF LoadFails, CoreAsks, Discard, AskUpstream
      <4>2. QED
        BY <2>2, <4>1
    <3>3. QED
      BY <3>1, <3>2
  <2>10. ASSUME NEW f \in Follower, Forward(f) \/ AskAgain(f) PROVE Remembered(e)'
    <3>1. CASE f = e
      BY <2>3, <2>10, <3>1 DEF Forward, AskAgain, Remembered
    <3>2. CASE f # e
      <4>1. UNCHANGED <<asked[e], held[e], upstream[e], live[e], have[e]>>
        BY <1>0, <2>10, <3>2 DEF Forward, AskAgain, AskHost
      <4>2. QED
        BY <2>2, <4>1
    <3>3. QED
      BY <3>1, <3>2
  <2>11. ASSUME NEW f \in Follower, IntervalPasses(f) PROVE Remembered(e)'
    <3>1. /\ asked'[e] => asked[e]
          /\ held'[e] => held[e]
          /\ UNCHANGED <<upstream, live, have>>
      BY <1>0, <2>11 DEF IntervalPasses
    <3>2. QED
      BY <2>2, <3>1
  <2>12. CASE UNCHANGED vars
    BY <2>2, <2>12 DEF vars
  <2>13. QED
    BY <2>5, <2>6, <2>7, <2>8, <2>9, <2>10, <2>11, <2>12 DEF Next
<1>3. QED
  BY <1>1, <1>2

\* Whoever has nothing to play has asked, with any number of followers: the
\* follower's two rate limits, the coalescer and pending_requesters lose no
\* request unless a snapshot for that follower makes up for it.
THEOREM NobodyIsForgotten == Spec => []NobodyForgotten
<1> DEFINE Inv == \A f \in Follower : Remembered(f)
<1>1. Init => Inv
  BY DEF Init, Remembered, Asking
<1>2. Types /\ Inv /\ [Next]_vars => Inv'
  BY RememberedStep
<1>3. Inv => NobodyForgotten
  BY DEF Remembered, NobodyForgotten
<1>4. QED
  BY <1>1, <1>2, <1>3, FollowingTypes, PTL DEF Spec

-----------------------------------------------------------------------------
(* A gap is noticed.                                                       *)

\* The number the publisher gives next is its frame; no less than the frame while a
\* restart has not been published, whose number may be smaller.
Numbered ==
    \/ published = lineage /\ nextFirst = frame
    \/ published < lineage /\ nextFirst >= frame

\* A count that has come to n in lineage l, with m frames to add: in the lineage p that
\* is published it arrives at the publisher's next number, in one before at least e
\* past it.
Abreast(n, l, m, p, next, e) ==
    \/ n = Awaiting
    \/ l = p /\ n + m = next
    \/ l < p /\ n + m >= next + e

\* Position s of a channel is where the count of what follows starts: its last
\* snapshot, or 0 when it has none and the follower's own count goes on.
Restarts(c, s) ==
    /\ s = 0 \/ c[s].kind = "snapshot"
    /\ \A i \in s + 1..Len(c) : c[i].kind = "stream"

Counts(c, n, l, p, next, e) ==
    \A s \in 0..Len(c) : Restarts(c, s) =>
        IF s = 0 THEN Abreast(n, l, Len(c), p, next, e)
        ELSE Abreast(c[s].first, c[s].lineage, Len(c) - s, p, next, e)

\* Only who was not shown a restart may be abreast of it.
Past(f) == IF f \in missed THEN 0 ELSE 1

Counted(f) == Counts(channel[f], live[f], fed[f], published, nextFirst, Past(f))

LEMMA PastType ==
    ASSUME NEW f PROVE Past(f) \in Int /\ Past(f) \in {0, 1} /\ Past(f)' \in Int /\ Past(f)' \in {0, 1}
BY DEF Past

\* A frame that is sent moves both ends, one that is counted moves neither.
LEMMA AbreastMoves ==
    ASSUME NEW l \in Int, NEW p \in Int, NEW e \in Int,
           NEW n \in Int, NEW m \in Int, NEW next \in Int,
           NEW n1 \in Int, NEW m1 \in Int, NEW next1 \in Int,
           Abreast(n, l, m, p, next, e),
           n1 = Awaiting \/ (n # Awaiting /\ (n1 + m1) - next1 = (n + m) - next)
    PROVE  Abreast(n1, l, m1, p, next1, e)
<1>1. CASE n1 = Awaiting
  BY <1>1 DEF Abreast
<1>2. CASE n # Awaiting /\ (n1 + m1) - next1 = (n + m) - next
  <2>1. (l = p /\ n + m = next) \/ (l < p /\ n + m >= next + e)
    BY <1>2 DEF Abreast
  <2>2. (l = p /\ n1 + m1 = next1) \/ (l < p /\ n1 + m1 >= next1 + e)
    BY <1>2, <2>1
  <2>3. QED
    BY <2>2 DEF Abreast
<1>3. QED
  BY <1>1, <1>2

\* Stream messages keep every count abreast.
LEMMA StreamsCounted ==
    ASSUME NEW c \in Seq(Message), NEW streams \in Seq(Message),
           \A i \in DOMAIN streams : streams[i].kind = "stream",
           NEW n \in Nat \union {Awaiting}, NEW l \in Nat, NEW p \in Nat, NEW next \in Nat,
           NEW e \in Int,
           Counts(c, n, l, p, next, e)
    PROVE  Counts(c \o streams, n, l, p, next + Len(streams), e)
<1> DEFINE d == c \o streams
<1>1. /\ Len(c) \in Nat /\ Len(streams) \in Nat /\ Len(d) = Len(c) + Len(streams)
      /\ DOMAIN streams = 1..Len(streams)
      /\ \A i \in 1..Len(c) : d[i] = c[i] /\ c[i] \in Message
      /\ \A i \in 1..Len(streams) : d[Len(c) + i] = streams[i]
  BY LenProperties, ConcatProperties
<1> HIDE DEF d
<1>2. SUFFICES ASSUME NEW s \in 0..Len(d), Restarts(d, s)
               PROVE  IF s = 0 THEN Abreast(n, l, Len(d), p, next + Len(streams), e)
                      ELSE Abreast(d[s].first, d[s].lineage, Len(d) - s, p,
                                   next + Len(streams), e)
  BY DEF Counts, d
<1>3. s \in 0..Len(c)
  <2>1. SUFFICES ASSUME s > Len(c) PROVE FALSE
    BY <1>1
  <2>2. s - Len(c) \in 1..Len(streams) /\ s = Len(c) + (s - Len(c))
    BY <1>1, <2>1
  <2>3. d[s].kind = "stream"
    BY <1>1, <2>2, ZenonT(30)
  <2>4. QED
    BY <1>1, <1>2, <2>1, <2>3 DEF Restarts
<1>4. Restarts(c, s)
  <2>1. s = 0 \/ c[s].kind = "snapshot"
    BY <1>1, <1>2, <1>3 DEF Restarts
  <2>2. ASSUME NEW i \in s + 1..Len(c) PROVE c[i].kind = "stream"
    <3>1. i \in 1..Len(c) /\ i \in s + 1..Len(d)
      BY <1>1, <1>3
    <3>2. QED
      BY <1>1, <1>2, <3>1 DEF Restarts
  <2>3. QED
    BY <2>1, <2>2 DEF Restarts
<1>5. IF s = 0 THEN Abreast(n, l, Len(c), p, next, e)
      ELSE Abreast(c[s].first, c[s].lineage, Len(c) - s, p, next, e)
  BY <1>3, <1>4 DEF Counts
<1>6. CASE s = 0
  <2>1. Abreast(n, l, Len(c), p, next, e) /\ n \in Int
    BY <1>5, <1>6 DEF Awaiting
  <2>2. Abreast(n, l, Len(c) + Len(streams), p, next + Len(streams), e)
    <3>1. /\ l \in Int /\ p \in Int /\ next \in Int /\ next + Len(streams) \in Int
          /\ Len(c) \in Int /\ Len(c) + Len(streams) \in Int
          /\ (n + (Len(c) + Len(streams))) - (next + Len(streams)) = (n + Len(c)) - next
      BY <1>1, <2>1
    <3>2. QED
      BY <2>1, <3>1, AbreastMoves
  <2>3. QED
    BY <1>1, <1>6, <2>2
<1>7. CASE s # 0
  <2>1. d[s] = c[s] /\ c[s].first \in Nat /\ c[s].lineage \in Nat
    BY <1>1, <1>3, <1>7 DEF Message
  <2>2. Abreast(c[s].first, c[s].lineage, Len(c) - s, p, next, e)
    BY <1>5, <1>7
  <2>3. Abreast(c[s].first, c[s].lineage, (Len(c) - s) + Len(streams), p, next + Len(streams), e)
    <3>1. /\ p \in Int /\ next \in Int /\ next + Len(streams) \in Int
          /\ Len(c) - s \in Int /\ (Len(c) - s) + Len(streams) \in Int
          /\ c[s].first \in Int /\ c[s].lineage \in Int /\ c[s].first # Awaiting
          /\ (c[s].first + ((Len(c) - s) + Len(streams))) - (next + Len(streams))
               = (c[s].first + (Len(c) - s)) - next
      BY <1>1, <1>3, <2>1, SMTT(30) DEF Awaiting
    <3>2. QED
      BY <2>2, <3>1, AbreastMoves
  <2>4. (Len(c) - s) + Len(streams) = Len(d) - s
    BY <1>1, <1>3
  <2>5. QED
    BY <1>7, <2>1, <2>3, <2>4
<1>8. QED
  BY <1>6, <1>7

\* A snapshot at the end of a channel restarts its count.
LEMMA SnapshotCounted ==
    ASSUME NEW c \in Seq(Message), NEW snap \in Message, snap.kind = "snapshot",
           NEW n, NEW l, NEW e
    PROVE  Counts(c \o <<snap>>, n, l, snap.lineage, snap.first, e)
<1> DEFINE d == c \o <<snap>>
<1>1. Len(c) \in Nat /\ Len(d) = Len(c) + 1 /\ d[Len(d)] = snap
  OBVIOUS
<1> HIDE DEF d
<1>2. SUFFICES ASSUME NEW s \in 0..Len(d), Restarts(d, s)
               PROVE  /\ s = Len(d)
                      /\ Abreast(d[s].first, d[s].lineage, Len(d) - s, snap.lineage, snap.first, e)
  BY <1>1 DEF Counts, d
<1>3. s = Len(d)
  BY <1>1, <1>2 DEF Restarts
<1>4. snap.first \in Nat
  BY DEF Message
<1>5. QED
  BY <1>1, <1>3, <1>4 DEF Abreast

\* A count of another lineage is never abreast of a restart, unless the restart goes on
\* at the number that was due.
LEMMA RestartCounted ==
    ASSUME NEW c \in Seq(Message), NEW n \in Nat \union {Awaiting}, NEW l \in Nat,
           NEW p \in Nat, NEW next \in Nat, NEW q \in Nat, NEW at \in Nat,
           NEW e \in Int, NEW d \in Int, 0 <= e, d <= 1,
           \/ p = q /\ next = at /\ d = e
           \/ p < q /\ next = at /\ d = 0
           \/ p < q /\ next > at,
           Counts(c, n, l, p, next, e)
    PROVE  Counts(c, n, l, q, at, d)
<1>1. SUFFICES ASSUME NEW s \in 0..Len(c), Restarts(c, s)
               PROVE  IF s = 0 THEN Abreast(n, l, Len(c), q, at, d)
                      ELSE Abreast(c[s].first, c[s].lineage, Len(c) - s, q, at, d)
  BY DEF Counts
<1>2. IF s = 0 THEN Abreast(n, l, Len(c), p, next, e)
      ELSE Abreast(c[s].first, c[s].lineage, Len(c) - s, p, next, e)
  BY <1>1 DEF Counts
<1>3. CASE s = 0
  BY <1>2, <1>3 DEF Abreast, Awaiting
<1>4. CASE s # 0
  <2>1. c[s] \in Message /\ Len(c) \in Nat
    BY <1>4
  <2>2. c[s].first \in Nat /\ c[s].lineage \in Nat /\ Len(c) - s \in Nat
    BY <2>1 DEF Message
  <2>3. Abreast(c[s].first, c[s].lineage, Len(c) - s, q, at, d)
    <3> DEFINE n1 == c[s].first
               l1 == c[s].lineage
               m1 == Len(c) - s
    <3>1. Abreast(n1, l1, m1, p, next, e) /\ n1 \in Nat /\ l1 \in Nat /\ m1 \in Nat
      BY <1>2, <1>4, <2>2
    <3> HIDE DEF n1, l1, m1
    <3>2. Abreast(n1, l1, m1, q, at, d)
      BY <3>1 DEF Abreast, Awaiting
    <3>3. QED
      BY <3>2 DEF n1, l1, m1
  <2>4. QED
    BY <1>4, <2>3
<1>5. QED
  BY <1>3, <1>4

\* A follower that receives the next k frames counts them or gives up.
LEMMA ReceivedCounted ==
    ASSUME NEW c \in Seq(Message), NEW k \in 1..Len(c),
           \A i \in 1..k : c[i].kind = "stream",
           NEW n \in Nat \union {Awaiting}, NEW l \in Nat, NEW p \in Nat, NEW next \in Nat,
           NEW m \in Nat \union {Awaiting},
           m = Awaiting \/ (n # Awaiting /\ m = n + k),
           NEW e \in Int,
           Counts(c, n, l, p, next, e)
    PROVE  Counts(SubSeq(c, k + 1, Len(c)), m, l, p, next, e)
<1> DEFINE d == SubSeq(c, k + 1, Len(c))
<1>1. /\ Len(c) \in Nat /\ k \in Nat /\ k <= Len(c) /\ Len(d) = Len(c) - k
      /\ \A i \in 1..Len(d) : d[i] = c[i + k]
  <2>1. Len(c) \in Nat /\ k \in Nat /\ 1 <= k /\ k <= Len(c)
    OBVIOUS
  <2>2. k + 1 \in Int /\ Len(c) \in Int /\ \A i \in k + 1..Len(c) : c[i] \in Message
    BY <2>1
  <2>3. /\ Len(d) = IF k + 1 <= Len(c) THEN Len(c) - (k + 1) + 1 ELSE 0
        /\ \A i \in 1..Len(c) - (k + 1) + 1 : d[i] = c[(k + 1) + i - 1]
    BY <2>2, SubSeqProperties
  <2> HIDE DEF d
  <2>4. Len(d) = Len(c) - k
    BY <2>1, <2>3
  <2>5. ASSUME NEW i \in 1..Len(d) PROVE d[i] = c[i + k]
    <3>1. i \in 1..Len(c) - (k + 1) + 1 /\ (k + 1) + i - 1 = i + k
      BY <2>1, <2>4
    <3>2. QED
      BY <2>3, <3>1
  <2>6. QED
    BY <2>1, <2>4, <2>5
<1> HIDE DEF d
<1>2. SUFFICES ASSUME NEW s \in 0..Len(d), Restarts(d, s)
               PROVE  IF s = 0 THEN Abreast(m, l, Len(d), p, next, e)
                      ELSE Abreast(d[s].first, d[s].lineage, Len(d) - s, p, next, e)
  BY DEF Counts, d
<1>3. ASSUME NEW i \in (s + k) + 1..Len(c) PROVE c[i].kind = "stream"
  <2>1. i - k \in 1..Len(d) /\ i - k \in s + 1..Len(d) /\ (i - k) + k = i
    BY <1>1
  <2>2. d[i - k].kind = "stream"
    BY <1>2, <2>1 DEF Restarts
  <2>3. QED
    BY <1>1, <2>1, <2>2
<1>4. CASE s = 0
  <2>1. Restarts(c, 0)
    <3>1. ASSUME NEW i \in 1..Len(c) PROVE c[i].kind = "stream"
      <4>1. i \in 1..k \/ i \in (s + k) + 1..Len(c)
        BY <1>1, <1>4
      <4>2. QED
        BY <1>3, <4>1
    <3>2. QED
      BY <3>1 DEF Restarts
  <2>2. Abreast(n, l, Len(c), p, next, e)
    BY <1>1, <2>1, SMTT(30) DEF Counts
  <2>3. CASE m = Awaiting
    BY <1>4, <2>3 DEF Abreast
  <2>4. CASE n # Awaiting /\ m = n + k
    <3>1. n \in Int
      BY DEF Awaiting
    <3>2. Abreast(n + k, l, Len(c) - k, p, next, e)
      <4>1. /\ l \in Int /\ p \in Int /\ next \in Int
            /\ n + k \in Int /\ Len(c) \in Int /\ Len(c) - k \in Int
            /\ ((n + k) + (Len(c) - k)) - next = (n + Len(c)) - next
        BY <1>1, <3>1
      <4>2. QED
        BY <2>2, <2>4, <3>1, <4>1, AbreastMoves
    <3>3. QED
      BY <1>1, <1>4, <2>4, <3>2
  <2>5. QED
    BY <2>3, <2>4
<1>5. CASE s # 0
  <2>1. s \in 1..Len(d) /\ d[s] = c[s + k] /\ s + k \in 1..Len(c)
    BY <1>1, <1>5
  <2>2. Restarts(c, s + k)
    BY <1>2, <1>3, <1>5, <2>1 DEF Restarts
  <2>3. Abreast(c[s + k].first, c[s + k].lineage, Len(c) - (s + k), p, next, e)
    BY <1>1, <2>1, <2>2 DEF Counts
  <2>4. Len(c) - (s + k) = Len(d) - s
    BY <1>1, <2>1
  <2>5. QED
    BY <1>5, <2>1, <2>3, <2>4
<1>6. QED
  BY <1>4, <1>5

\* A follower that receives a snapshot counts from there.
LEMMA LoadedCounted ==
    ASSUME NEW c \in Seq(Message), c # <<>>, Head(c).kind = "snapshot",
           NEW n, NEW l, NEW p, NEW next, NEW e,
           Counts(c, n, l, p, next, e)
    PROVE  Counts(Tail(c), Head(c).first, Head(c).lineage, p, next, e)
<1> DEFINE d == Tail(c)
<1>1. /\ Len(c) \in Nat \ {0} /\ Len(d) = Len(c) - 1 /\ Head(c) = c[1]
      /\ \A i \in 1..Len(d) : d[i] = c[i + 1]
  OBVIOUS
<1> HIDE DEF d
<1>2. SUFFICES ASSUME NEW s \in 0..Len(d), Restarts(d, s)
               PROVE  IF s = 0 THEN Abreast(c[1].first, c[1].lineage, Len(d), p, next, e)
                      ELSE Abreast(d[s].first, d[s].lineage, Len(d) - s, p, next, e)
  BY <1>1 DEF Counts, d
<1>3. ASSUME NEW i \in (s + 1) + 1..Len(c) PROVE c[i].kind = "stream"
  <2>1. i - 1 \in 1..Len(d) /\ i - 1 \in s + 1..Len(d) /\ (i - 1) + 1 = i
    BY <1>1
  <2>2. d[i - 1].kind = "stream"
    BY <1>2, <2>1 DEF Restarts
  <2>3. QED
    BY <1>1, <2>1, <2>2
<1>4. c[s + 1].kind = "snapshot"
  BY <1>1, <1>2 DEF Restarts
<1>5. /\ s + 1 \in 0..Len(c) /\ s + 1 # 0 /\ Restarts(c, s + 1)
      /\ Len(c) - (s + 1) = Len(d) - s
  BY <1>1, <1>3, <1>4 DEF Restarts
<1>6. Abreast(c[s + 1].first, c[s + 1].lineage, Len(d) - s, p, next, e)
  BY <1>5 DEF Counts
<1>7. CASE s = 0
  BY <1>1, <1>6, <1>7
<1>8. CASE s # 0
  BY <1>1, <1>6, <1>8
<1>9. QED
  BY <1>7, <1>8

\* What the publisher sends keeps every count.
LEMMA PublishCounted ==
    ASSUME Types, NEW f \in Follower, Counted(f), UNCHANGED <<live, fed>>,
           NEW streams \in Seq(Message),
           \A i \in DOMAIN streams : streams[i].kind = "stream",
           NEW snapped \in BOOLEAN, NEW at \in Nat, lineage' \in Nat,
           snapped => \/ published = lineage' /\ nextFirst + Len(streams) = at
                      \/ published < lineage' /\ nextFirst + Len(streams) >= at,
           Publish(streams, snapped, at)
    PROVE  Counted(f)'
<1> DEFINE c == channel[f] \o streams
           snap == Snapshot(at, lineage')
           next == nextFirst + Len(streams)
<1>1. /\ channel[f] \in Seq(Message) /\ c \in Seq(Message) /\ Len(streams) \in Nat
      /\ live[f] \in Nat \union {Awaiting} /\ fed[f] \in Nat
      /\ published \in Nat /\ nextFirst \in Nat /\ next \in Nat
  BY SMTT(30) DEF Types, LaneTypes, SlotTypes, FeederTypes, PublisherTypes
<1>2. Counts(c, live[f], fed[f], published, next, Past(f))
  BY <1>1, PastType, StreamsCounted DEF Counted
<1>3. /\ snap \in Message /\ snap.kind = "snapshot"
      /\ snap.first = at /\ snap.lineage = lineage'
  BY DEF Snapshot, Message
<1> HIDE DEF snap
<1>4. CASE snapped /\ f \in Targets
  <2>1. channel'[f] = c \o <<snap>> /\ published' = snap.lineage /\ nextFirst' = snap.first
    BY <1>3, <1>4 DEF Publish, snap
  <2>2. Counts(c \o <<snap>>, live[f], fed[f], snap.lineage, snap.first, Past(f)')
    BY <1>1, <1>3, SnapshotCounted
  <2>3. QED
    BY <2>1, <2>2 DEF Counted
<1>5. CASE ~(snapped /\ f \in Targets)
  <2>1. channel'[f] = c
    <3>1. channel'[f] = c \o <<>>
      BY <1>5 DEF Publish
    <3>2. QED
      BY <1>1, <3>1, ConcatEmptySeq
  <2>2. CASE snapped
    <3>1. published' = lineage' /\ nextFirst' = at
      BY <2>2 DEF Publish
    <3>2. \/ published = lineage' /\ next = at /\ Past(f)' = Past(f)
          \/ published < lineage' /\ next = at /\ Past(f)' = 0
          \/ published < lineage' /\ next > at
      <4>1. f \notin Targets /\ Miss(at, next)
        BY <1>5, <2>2 DEF Publish
      <4>2. CASE published = lineage' /\ next = at
        <5>1. missed' = missed \ Targets
          BY <4>1, <4>2 DEF Miss
        <5>2. QED
          BY <4>1, <4>2, <5>1 DEF Past
      <4>3. CASE published < lineage' /\ next = at
        <5>1. missed' = Follower \ Targets
          BY <1>1, <4>1, <4>3 DEF Miss
        <5>2. QED
          BY <4>1, <4>3, <5>1 DEF Past
      <4>4. CASE published < lineage' /\ next > at
        BY <4>4
      <4>5. QED
        BY <1>1, <2>2, <4>2, <4>3, <4>4
    <3>3. Counts(c, live[f], fed[f], lineage', at, Past(f)')
      <4> DEFINE e == Past(f)
                 d == Past(f)'
      <4> HIDE DEF next, c, e, d
      <4>1. /\ e \in Int /\ d \in Int /\ 0 <= e /\ d <= 1
            /\ Counts(c, live[f], fed[f], published, next, e)
        BY <1>2, PastType DEF e, d
      <4>2. \/ published = lineage' /\ next = at /\ d = e
            \/ published < lineage' /\ next = at /\ d = 0
            \/ published < lineage' /\ next > at
        BY <3>2 DEF e, d
      <4>3. Counts(c, live[f], fed[f], lineage', at, d)
        BY <1>1, <4>1, <4>2, RestartCounted
      <4>4. QED
        BY <4>3 DEF d
    <3>4. QED
      BY <2>1, <3>1, <3>3 DEF Counted
  <2>3. CASE ~snapped
    <3>1. published' = published /\ nextFirst' = next /\ Past(f)' = Past(f)
      BY <2>3 DEF Publish, Past
    <3>2. QED
      BY <1>2, <2>1, <3>1 DEF Counted
  <2>4. QED
    BY <2>2, <2>3
<1>6. QED
  BY <1>4, <1>5

\* A step keeps the numbers as they are related.
LEMMA NumberedStep == Types /\ Numbered /\ [Next]_vars => Numbered'
<1> SUFFICES ASSUME Types, Numbered, [Next]_vars PROVE Numbered'
  OBVIOUS
<1>0. /\ published \in Nat /\ lineage \in Nat /\ nextFirst \in Nat /\ frame \in Nat
      /\ snapPending \in BOOLEAN
  BY DEF Types, PublisherTypes
<1>1. UNCHANGED <<frame, lineage, published, nextFirst>> => Numbered'
  BY DEF Numbered
<1> USE DEF publisherVars
<1>2. CASE EmulateFrame
  <2> DEFINE one == <<Stream(nextFirst, published)>>
  <2>1. Len(one) = 1
    OBVIOUS
  <2> HIDE DEF one
  <2>2. frame' = frame + 1 /\ lineage' = lineage /\ Publish(one, snapPending, frame')
    BY <1>2 DEF EmulateFrame, one
  <2>3. CASE snapPending
    BY <2>2, <2>3 DEF Publish, Numbered
  <2>4. CASE ~snapPending
    BY <1>0, <2>1, <2>2, <2>4 DEF Publish, Numbered
  <2>5. QED
    BY <2>3, <2>4
<1>3. CASE PublishPending
  BY <1>3 DEF PublishPending, Publish, Numbered
<1>4. CASE ReplaceCore
  BY <1>4 DEF ReplaceCore, Publish, Numbered
<1>5. CASE StartRecording
  BY <1>0, <1>5 DEF StartRecording, Numbered
<1>6. CASE HandleCommand \/ NoteRequesters \/ CommandSnapshot \/ UNCHANGED vars
  BY <1>1, <1>6 DEF HandleCommand, NoteRequesters, CommandSnapshot, vars
<1>7. ASSUME NEW e \in Follower, NEW k \in 1..MaxTurns, ReceiveStream(e, k) PROVE Numbered'
  BY <1>1, <1>7 DEF ReceiveStream
<1>8. ASSUME NEW e \in Follower,
             \/ RequestArrives(e) \/ ReceiveSnapshot(e) \/ Pop(e) \/ Loaded(e) \/ LoadFails(e)
             \/ CoreAsks(e) \/ Forward(e) \/ AskAgain(e) \/ IntervalPasses(e)
      PROVE  Numbered'
  BY <1>1, <1>8 DEF RequestArrives, ReceiveSnapshot, Pop, Loaded, LoadFails, CoreAsks, Forward,
                    AskAgain, IntervalPasses
<1>9. QED
  BY <1>2, <1>3, <1>4, <1>5, <1>6, <1>7, <1>8 DEF Next

\* A step keeps a follower's count.
LEMMA CountedStep ==
    ASSUME Types, Numbered, NEW f \in Follower, Counted(f), [Next]_vars
    PROVE  Counted(f)'
<1>0. /\ channel[f] \in Seq(Message) /\ Len(channel[f]) \in Nat
      /\ channel \in [Follower -> Seq(Message)]
      /\ live \in [Follower -> Nat \union {Awaiting}] /\ fed \in [Follower -> Nat]
      /\ live[f] \in Nat \union {Awaiting} /\ fed[f] \in Nat
      /\ published \in Nat /\ lineage \in Nat /\ nextFirst \in Nat /\ frame \in Nat
      /\ snapPending \in BOOLEAN
  BY DEF Types, LaneTypes, SlotTypes, FeederTypes, PublisherTypes
<1>1. UNCHANGED <<published, missed, nextFirst>> /\ UNCHANGED <<channel[f], live[f], fed[f]>>
        => Counted(f)'
  BY DEF Counted, Past
<1> USE DEF publisherVars, slotVars, feederVars
<1>2. CASE EmulateFrame
  <2> DEFINE one == <<Stream(nextFirst, published)>>
  <2>1. /\ one \in Seq(Message) /\ Len(one) = 1
        /\ \A i \in DOMAIN one : one[i].kind = "stream"
    BY <1>0 DEF Stream, Message
  <2> HIDE DEF one
  <2>2. /\ frame' = frame + 1 /\ lineage' = lineage
        /\ UNCHANGED <<live, fed>> /\ Publish(one, snapPending, frame')
    BY <1>2 DEF EmulateFrame, one
  <2>3. \/ published = lineage' /\ nextFirst + Len(one) = frame'
        \/ published < lineage' /\ nextFirst + Len(one) >= frame'
    BY <1>0, <2>1, <2>2 DEF Numbered
  <2>4. frame' \in Nat /\ lineage' \in Nat
    BY <1>0, <2>2
  <2>5. QED
    BY <1>0, <2>1, <2>2, <2>3, <2>4, PublishCounted
<1>3. CASE PublishPending
  <2>1. /\ UNCHANGED <<frame, lineage, live, fed>> /\ Publish(<<>>, TRUE, frame)
    BY <1>3 DEF PublishPending
  <2>2. /\ <<>> \in Seq(Message) /\ Len(<<>>) = 0 /\ DOMAIN <<>> = {}
        /\ lineage' \in Nat
    BY <1>0, <2>1
  <2>3. \/ published = lineage' /\ nextFirst + Len(<<>>) = frame
        \/ published < lineage' /\ nextFirst + Len(<<>>) >= frame
    BY <1>0, <2>1, <2>2 DEF Numbered
  <2>4. QED
    BY <1>0, <2>1, <2>2, <2>3, PublishCounted
<1>4. CASE ReplaceCore
  <2>1. /\ frame' = 0 /\ lineage' = lineage + 1
        /\ UNCHANGED <<live, fed>> /\ Publish(<<>>, TRUE, 0)
    BY <1>4 DEF ReplaceCore
  <2>2. /\ <<>> \in Seq(Message) /\ Len(<<>>) = 0 /\ DOMAIN <<>> = {}
        /\ lineage' \in Nat
    BY <1>0, <2>1
  <2>3. published < lineage' /\ nextFirst + Len(<<>>) >= 0
    BY <1>0, <2>1, <2>2 DEF Numbered
  <2>4. QED
    BY <1>0, <2>1, <2>2, <2>3, PublishCounted
<1>5. CASE HandleCommand \/ StartRecording \/ NoteRequesters \/ CommandSnapshot
  BY <1>1, <1>5 DEF HandleCommand, StartRecording, NoteRequesters, CommandSnapshot
<1>6. ASSUME NEW e \in Follower, NEW k \in 1..MaxTurns, ReceiveStream(e, k)
      PROVE  Counted(f)'
  <2>1. UNCHANGED <<frame, lineage, published, missed, nextFirst>> /\ fed' = fed
    BY <1>6 DEF ReceiveStream, Feed, Discard, AskUpstream
  <2>2. CASE e # f
    <3>1. UNCHANGED <<channel[f], live[f], fed[f]>>
      BY <1>0, <1>6, <2>1, <2>2 DEF ReceiveStream
    <3>2. QED
      BY <1>1, <2>1, <3>1
  <2>3. CASE e = f
    <3>1. /\ k \in 1..Len(channel[f])
          /\ \A i \in 1..k : channel[f][i].kind = "stream"
          /\ channel'[f] = SubSeq(channel[f], k + 1, Len(channel[f]))
      BY <1>0, <1>6, <2>3, BoundsAssumption DEF ReceiveStream
    <3>2. /\ live'[f] \in Nat \union {Awaiting}
          /\ live'[f] = Awaiting \/ (live[f] # Awaiting /\ live'[f] = live[f] + k)
      <4>1. channel[f][1].first \in Nat
        <5>1. channel[f][1] \in Message
          BY <1>0, <3>1
        <5>2. QED
          BY <5>1 DEF Message
      <4>2. \/ live'[f] = Awaiting
            \/ live[f] # Awaiting /\ live[f] \in Nat /\ live'[f] = live[f] + k
        BY <1>0, <1>6, <2>3, <4>1 DEF ReceiveStream, Awaiting
      <4>3. QED
        BY <1>0, <3>1, <4>2
    <3>3. Counts(SubSeq(channel[f], k + 1, Len(channel[f])), live'[f], fed[f], published,
                 nextFirst, Past(f))
      BY <1>0, <3>1, <3>2, PastType, ReceivedCounted DEF Counted
    <3>4. QED
      BY <2>1, <3>1, <3>3 DEF Counted, Past
  <2>4. QED
    BY <2>2, <2>3
<1>7. ASSUME NEW e \in Follower, ReceiveSnapshot(e) PROVE Counted(f)'
  <2>1. UNCHANGED <<frame, lineage, published, missed, nextFirst>>
    BY <1>7 DEF ReceiveSnapshot
  <2>2. CASE e # f
    <3>1. UNCHANGED <<channel[f], live[f], fed[f]>>
      BY <1>0, <1>7, <2>2 DEF ReceiveSnapshot
    <3>2. QED
      BY <1>1, <2>1, <3>1
  <2>3. CASE e = f
    <3>1. /\ channel[f] # <<>> /\ Head(channel[f]).kind = "snapshot"
          /\ channel'[f] = Tail(channel[f])
          /\ live'[f] = Head(channel[f]).first /\ fed'[f] = Head(channel[f]).lineage
      BY <1>0, <1>7, <2>3 DEF ReceiveSnapshot
    <3>2. Counts(Tail(channel[f]), Head(channel[f]).first, Head(channel[f]).lineage,
                 published, nextFirst, Past(f))
      BY <1>0, <3>1, LoadedCounted DEF Counted
    <3>3. QED
      BY <2>1, <3>1, <3>2 DEF Counted, Past
  <2>4. QED
    BY <2>2, <2>3
<1>8. ASSUME NEW e \in Follower,
              \/ RequestArrives(e) \/ Pop(e) \/ Loaded(e) \/ LoadFails(e) \/ CoreAsks(e)
              \/ Forward(e) \/ AskAgain(e) \/ IntervalPasses(e)
       PROVE  Counted(f)'
  BY <1>1, <1>8 DEF RequestArrives, Pop, Loaded, LoadFails, CoreAsks, Forward, AskAgain,
                           IntervalPasses
<1>9. CASE UNCHANGED vars
  BY <1>1, <1>9 DEF vars
<1>10. QED
  BY <1>2, <1>3, <1>4, <1>5, <1>6, <1>7, <1>8, <1>9 DEF Next

\* A follower of a lineage the publisher has left never takes the publisher's next
\* Stream message for its own next frame: numbers only grow within a lineage, and
\* a restart's numbers start below whatever the follower has come to, unless they go on
\* at the very number that was due and the follower is not shown the restart.
THEOREM GapsAreNoticed == Spec => []GapIsNoticed
<1> DEFINE Inv == Numbered /\ \A f \in Follower : Counted(f)
<1>1. Init => Inv
  <2> SUFFICES ASSUME Init PROVE Inv
    OBVIOUS
  <2>1. Numbered
    BY DEF Init, Numbered
  <2>2. ASSUME NEW f \in Follower PROVE Counted(f)
    <3>1. channel[f] = <<>> /\ live[f] = Awaiting /\ Len(<<>>) = 0
      BY DEF Init
    <3>2. QED
      BY <3>1 DEF Counted, Counts, Abreast
  <2>3. QED
    BY <2>1, <2>2
<1>2. Types /\ Inv /\ [Next]_vars => Inv'
  <2> SUFFICES ASSUME Types, Inv, [Next]_vars PROVE Inv'
    OBVIOUS
  <2>1. ASSUME NEW f \in Follower PROVE Counted(f)'
    BY CountedStep
  <2>2. Numbered'
    BY NumberedStep
  <2>3. QED
    BY <2>1, <2>2
<1>3. Types /\ Inv => GapIsNoticed
  <2> SUFFICES ASSUME Types, Inv, NEW f \in Follower, channel[f] = <<>>, live[f] = nextFirst,
                      f \notin missed
               PROVE  fed[f] = published
    BY DEF GapIsNoticed
  <2>1. Len(channel[f]) = 0 /\ nextFirst \in Nat
    BY DEF Types, PublisherTypes
  <2>2. Restarts(channel[f], 0)
    BY <2>1 DEF Restarts
  <2>3. Abreast(live[f], fed[f], 0, published, nextFirst, 1)
    BY <2>1, <2>2 DEF Counted, Counts, Past
  <2>4. QED
    BY <2>1, <2>3 DEF Abreast, Awaiting
<1>4. QED
  BY <1>1, <1>2, <1>3, FollowingTypes, PTL DEF Spec
=============================================================================
