-------------------------- MODULE HostRoster_proofs --------------------------
(***************************************************************************)
(* What holds of HostRoster for any number of connections, any capacity    *)
(* and any bounds.                                                         *)
(***************************************************************************)
EXTENDS HostRoster, FiniteSetTheorems, TLAPS

\* The steps of the specification, one disjunct for each action.
LEMMA Steps ==
    ASSUME Next
    PROVE  \/ \E c \in Conn :
                \/ Accept(c) \/ Register(c) \/ SpawnFailed(c)
                \/ ReadHello(c) \/ Admit(c) \/ RefuseFull(c) \/ JoinTargets(c) \/ PushJoined(c)
                \/ ReaderCloses(c) \/ OtherCloses(c)
                \/ ReadPeerId(c) \/ RemoveConn(c) \/ PushLeft(c) \/ LeftTargets(c) \/ EndClose(c)
                \/ CloseTaken(c)
           \/ \E c, d \in Conn : SendJoined(c, d) \/ SendLeft(c, d)
           \/ Leave
           \/ TakeConns
BY DEF Next, ReaderStep, CloserStep

\* Every variable keeps to its type, and nobody is given the host's id.
THEOREM Typing == Spec => []TypeOK
<1>1. Init => TypeOK
  BY ConnAssumption DEF Init, TypeOK, FirstClientId, HostPeerId
<1>2. TypeOK /\ [Next]_vars => TypeOK'
  <2> SUFFICES ASSUME TypeOK, [Next]_vars PROVE TypeOK'
    OBVIOUS
  <2> USE DEF TypeOK, HostPeerId, readerVars, closerVars, leaveVars, viewVars
  <2>1. ASSUME NEW c \in Conn, Accept(c) PROVE TypeOK'
    BY <2>1 DEF Accept
  <2>2. ASSUME NEW c \in Conn, Register(c) PROVE TypeOK'
    BY <2>2 DEF Register
  <2>3. ASSUME NEW c \in Conn, SpawnFailed(c) PROVE TypeOK'
    BY <2>3 DEF SpawnFailed
  <2>4. ASSUME NEW c \in Conn, ReadHello(c) PROVE TypeOK'
    BY <2>4 DEF ReadHello
  <2>5. ASSUME NEW c \in Conn, Admit(c) PROVE TypeOK'
    BY <2>5 DEF Admit, Tell, Participants, AdmittedConns
  <2>6. ASSUME NEW c \in Conn, RefuseFull(c) PROVE TypeOK'
    BY <2>6 DEF RefuseFull
  <2>7. ASSUME NEW c \in Conn, JoinTargets(c) PROVE TypeOK'
    BY <2>7 DEF JoinTargets, AdmittedConns
  <2>8. ASSUME NEW c \in Conn, NEW d \in Conn, SendJoined(c, d) PROVE TypeOK'
    BY <2>8 DEF SendJoined, Tell
  <2>9. ASSUME NEW c \in Conn, PushJoined(c) PROVE TypeOK'
    BY <2>9 DEF PushJoined
  <2>10. ASSUME NEW c \in Conn, ReaderCloses(c) \/ OtherCloses(c) PROVE TypeOK'
    <3>1. BeginClose(c)
      BY <2>10 DEF ReaderCloses, OtherCloses
    <3>2. reader' \in [Conn -> {"idle", "admitting", "joining", "telling", "stopped"}]
      BY <2>10 DEF ReaderCloses, OtherCloses
    <3>3. QED
      BY <3>1, <3>2 DEF BeginClose
  <2>11. ASSUME NEW c \in Conn, ReadPeerId(c) PROVE TypeOK'
    BY <2>11 DEF ReadPeerId
  <2>12. ASSUME NEW c \in Conn, RemoveConn(c) PROVE TypeOK'
    BY <2>12 DEF RemoveConn
  <2>13. ASSUME NEW c \in Conn, PushLeft(c) PROVE TypeOK'
    BY <2>13 DEF PushLeft
  <2>14. ASSUME NEW c \in Conn, LeftTargets(c) PROVE TypeOK'
    BY <2>14 DEF LeftTargets, AdmittedConns
  <2>15. ASSUME NEW c \in Conn, NEW d \in Conn, SendLeft(c, d) PROVE TypeOK'
    BY <2>15 DEF SendLeft, Tell
  <2>16. ASSUME NEW c \in Conn, EndClose(c) PROVE TypeOK'
    BY <2>16 DEF EndClose
  <2>17. CASE Leave
    BY <2>17 DEF Leave
  <2>18. CASE TakeConns
    BY <2>18 DEF TakeConns
  <2>19. ASSUME NEW c \in Conn, CloseTaken(c) PROVE TypeOK'
    BY <2>19 DEF CloseTaken
  <2>20. CASE UNCHANGED vars
    BY <2>20 DEF vars
  <2>21. QED
    BY <2>1, <2>2, <2>3, <2>4, <2>5, <2>6, <2>7, <2>8, <2>9, <2>10, <2>11, <2>12,
       <2>13, <2>14, <2>15, <2>16, <2>17, <2>18, <2>19, <2>20
       DEF Next, ReaderStep, CloserStep
<1>3. QED
  BY <1>1, <1>2, PTL DEF Spec

-----------------------------------------------------------------------------
(* The inductive invariants, each preserved together with TypeOK.          *)

\* Only a connection whose threads exist is being registered, is in conns, has
\* an id or has a reader that has moved.
Started ==
    /\ conns \subseteq spawned
    /\ \A c \in Conn :
        accepting = c \/ peerId[c] # 0 \/ reader[c] # "idle" => c \in spawned

\* Until add_connection is done with it, a connection is not in conns, and if
\* its reader has admitted it already then that is on record.
Unregistered ==
    accepting # None =>
        /\ accepting \notin conns
        /\ peerId[accepting] # 0 => accepting \in untimely

\* Whoever has an id has a Welcome, unless the queue was closed to it, and
\* nobody without an id is on a list of those to be told.
WelcomedOrClosing ==
    /\ \A c \in Conn : peerId[c] # 0 => c \in welcomed \union closing
    /\ \A c, d \in Conn : d \in joinTodo[c] \union leftTodo[c] => peerId[d] # 0

\* A connection that is still open is registered, is being registered, or is
\* on leave's list; and once leave has taken conns, accepting and conns between
\* them hold one connection at most.
Accounted ==
    /\ leaving # "no" => ~running
    /\ leaving # "closing" => leaveTodo = {}
    /\ \A c \in Conn : closer[c] # "open" => c \in closing
    /\ spawned \ closing \subseteq conns \union leaveTodo \union {accepting}
    /\ leaving = "closing" =>
        \E x \in Conn \union {None} : conns \union {accepting} \subseteq {x, None}

-----------------------------------------------------------------------------
(* Capacity.                                                               *)

CapacityInv == TypeOK /\ Started /\ Unregistered /\ Capacity

LEMMA StartedStep == TypeOK /\ Started /\ [Next]_vars => Started'
<1> SUFFICES ASSUME TypeOK, Started, [Next]_vars PROVE Started'
  OBVIOUS
<1> USE DEF TypeOK, Started, HostPeerId, readerVars, closerVars, leaveVars, viewVars
<1>1. ASSUME NEW c \in Conn, Accept(c) \/ Register(c) \/ SpawnFailed(c) PROVE Started'
  <2>1. CASE Accept(c)
    BY <2>1 DEF Accept
  <2>2. CASE Register(c)
    BY <2>2, ConnAssumption DEF Register
  <2>3. CASE SpawnFailed(c)
    BY <2>3, ConnAssumption DEF SpawnFailed
  <2>4. QED
    BY <1>1, <2>1, <2>2, <2>3
<1>2. ASSUME NEW c \in Conn, ReadHello(c) \/ Admit(c) \/ RefuseFull(c) PROVE Started'
  <2>1. CASE ReadHello(c)
    BY <2>1 DEF ReadHello
  <2>2. CASE Admit(c)
    BY <2>2 DEF Admit
  <2>3. CASE RefuseFull(c)
    BY <2>3 DEF RefuseFull
  <2>4. QED
    BY <1>2, <2>1, <2>2, <2>3
<1>3. ASSUME NEW c \in Conn, JoinTargets(c) \/ PushJoined(c) PROVE Started'
  BY <1>3 DEF JoinTargets, PushJoined
<1>4. ASSUME NEW c \in Conn, ReaderCloses(c) \/ OtherCloses(c) PROVE Started'
  BY <1>4 DEF ReaderCloses, OtherCloses, BeginClose
<1>5. ASSUME NEW c \in Conn,
             ReadPeerId(c) \/ RemoveConn(c) \/ PushLeft(c) \/ LeftTargets(c) \/ EndClose(c)
      PROVE  Started'
  BY <1>5 DEF ReadPeerId, RemoveConn, PushLeft, LeftTargets, EndClose
<1>6. ASSUME NEW c \in Conn, NEW d \in Conn, SendJoined(c, d) \/ SendLeft(c, d)
      PROVE  Started'
  BY <1>6 DEF SendJoined, SendLeft
<1>7. ASSUME Leave \/ TakeConns \/ \E c \in Conn : CloseTaken(c) PROVE Started'
  BY <1>7 DEF Leave, TakeConns, CloseTaken
<1>8. CASE UNCHANGED vars
  BY <1>8 DEF vars
<1>9. QED
  BY <1>1, <1>2, <1>3, <1>4, <1>5, <1>6, <1>7, <1>8, Steps

LEMMA UnregisteredStep ==
    TypeOK /\ Started /\ Unregistered /\ [Next]_vars => Unregistered'
<1> SUFFICES ASSUME TypeOK, Started, Unregistered, [Next]_vars PROVE Unregistered'
  OBVIOUS
<1> USE ConnAssumption
        DEF TypeOK, Unregistered, readerVars, closerVars, leaveVars, viewVars
<1>1. ASSUME NEW c \in Conn, Accept(c) \/ Register(c) \/ SpawnFailed(c) PROVE Unregistered'
  BY <1>1 DEF Accept, Register, SpawnFailed, Started
<1>2. ASSUME NEW c \in Conn, ReadHello(c) \/ RefuseFull(c) \/ JoinTargets(c) \/ PushJoined(c)
      PROVE  Unregistered'
  BY <1>2 DEF ReadHello, RefuseFull, JoinTargets, PushJoined
<1>3. ASSUME NEW c \in Conn, Admit(c) PROVE Unregistered'
  BY <1>3 DEF Admit
<1>4. ASSUME NEW c \in Conn, ReaderCloses(c) \/ OtherCloses(c) PROVE Unregistered'
  BY <1>4 DEF ReaderCloses, OtherCloses, BeginClose
<1>5. ASSUME NEW c \in Conn,
             ReadPeerId(c) \/ RemoveConn(c) \/ PushLeft(c) \/ LeftTargets(c) \/ EndClose(c)
      PROVE  Unregistered'
  BY <1>5 DEF ReadPeerId, RemoveConn, PushLeft, LeftTargets, EndClose
<1>6. ASSUME NEW c \in Conn, NEW d \in Conn, SendJoined(c, d) \/ SendLeft(c, d)
      PROVE  Unregistered'
  BY <1>6 DEF SendJoined, SendLeft
<1>7. ASSUME Leave \/ TakeConns \/ \E c \in Conn : CloseTaken(c) PROVE Unregistered'
  BY <1>7 DEF Leave, TakeConns, CloseTaken
<1>8. CASE UNCHANGED vars
  BY <1>8 DEF vars
<1>9. QED
  BY <1>1, <1>2, <1>3, <1>4, <1>5, <1>6, <1>7, <1>8, Steps

\* Those that Capacity counts.
Counted == AdmittedConns \ untimely

\* The admitted connections are finitely many, so that they can be counted.
LEMMA AdmittedFinite ==
    ASSUME TypeOK
    PROVE  /\ IsFiniteSet(AdmittedConns) /\ Cardinality(AdmittedConns) \in Nat
           /\ IsFiniteSet(Counted) /\ Cardinality(Counted) \in Nat
           /\ Cardinality(Counted) <= Cardinality(AdmittedConns)
<1>1. AdmittedConns \subseteq Conn /\ Counted \subseteq AdmittedConns
  BY DEF TypeOK, AdmittedConns, Counted
<1>2. IsFiniteSet(AdmittedConns)
  BY <1>1, ConnAssumption, FS_Subset
<1>3. QED
  BY <1>1, <1>2, FS_Subset, FS_CardinalityType

\* Nobody is added to those counted but by Admit.
LEMMA CountedShrinks ==
    ASSUME TypeOK, Unregistered, [Next]_vars, ~ \E c \in Conn : Admit(c)
    PROVE  Counted' \subseteq Counted
<1> USE DEF TypeOK, Counted, AdmittedConns, readerVars, closerVars, leaveVars, viewVars
<1>1. ASSUME NEW c \in Conn, Accept(c) \/ Register(c) \/ SpawnFailed(c)
      PROVE  Counted' \subseteq Counted
  BY <1>1, ConnAssumption DEF Accept, Register, SpawnFailed, Unregistered
<1>2. ASSUME NEW c \in Conn, ReadHello(c) \/ RefuseFull(c) \/ JoinTargets(c) \/ PushJoined(c)
      PROVE  Counted' \subseteq Counted
  BY <1>2 DEF ReadHello, RefuseFull, JoinTargets, PushJoined
<1>3. ASSUME NEW c \in Conn, ReaderCloses(c) \/ OtherCloses(c) PROVE Counted' \subseteq Counted
  BY <1>3 DEF ReaderCloses, OtherCloses, BeginClose
<1>4. ASSUME NEW c \in Conn,
             ReadPeerId(c) \/ RemoveConn(c) \/ PushLeft(c) \/ LeftTargets(c) \/ EndClose(c)
      PROVE  Counted' \subseteq Counted
  BY <1>4 DEF ReadPeerId, RemoveConn, PushLeft, LeftTargets, EndClose
<1>5. ASSUME NEW c \in Conn, NEW d \in Conn, SendJoined(c, d) \/ SendLeft(c, d)
      PROVE  Counted' \subseteq Counted
  BY <1>5 DEF SendJoined, SendLeft
<1>6. ASSUME Leave \/ TakeConns \/ \E c \in Conn : CloseTaken(c)
      PROVE  Counted' \subseteq Counted
  BY <1>6 DEF Leave, TakeConns, CloseTaken
<1>7. CASE UNCHANGED vars
  BY <1>7 DEF vars
<1>8. QED
  BY <1>1, <1>2, <1>3, <1>4, <1>5, <1>6, <1>7, Steps

\* HostConfig::max_participants bounds the participants that were registered
\* when they were admitted, whatever the readers, closers and the accept thread
\* do meanwhile: the count and the admission share one critical section.
THEOREM CapacityKept == Spec => []Capacity
<1>1. Init => CapacityInv
  <2> SUFFICES ASSUME Init PROVE CapacityInv
    OBVIOUS
  <2>1. TypeOK
    BY ConnAssumption DEF Init, TypeOK, FirstClientId, HostPeerId
  <2>2. Started /\ Unregistered
    BY ConnAssumption DEF Init, Started, Unregistered
  <2>3. Cardinality(AdmittedConns \ untimely) = 0
    BY FS_EmptySet DEF Init, AdmittedConns
  <2>4. Capacity
    BY <2>3, MaxParticipantsAssumption DEF Capacity
  <2>5. QED
    BY <2>1, <2>2, <2>4 DEF CapacityInv
<1>2. CapacityInv /\ [Next]_vars /\ TypeOK' => CapacityInv'
  <2> SUFFICES ASSUME CapacityInv, [Next]_vars, TypeOK' PROVE Capacity'
    BY StartedStep, UnregisteredStep DEF CapacityInv
  <2>1. TypeOK /\ Unregistered /\ Cardinality(Counted) + 1 <= MaxParticipants
    BY DEF CapacityInv, Capacity, Counted
  <2>2. SUFFICES Cardinality(Counted') + 1 <= MaxParticipants
    BY DEF Capacity, Counted
  <2>3. ASSUME NEW c \in Conn, Admit(c)
        PROVE  Cardinality(Counted') + 1 <= MaxParticipants
    <3>1. Counted' \subseteq Counted \union {c}
      BY <2>1, <2>3 DEF Admit, TypeOK, Counted, AdmittedConns
    <3>2. ~(Cardinality(AdmittedConns) + 1 >= MaxParticipants)
      BY <2>3 DEF Admit, SessionFull
    <3>3. /\ IsFiniteSet(Counted \union {c})
          /\ Cardinality(Counted \union {c}) <= Cardinality(Counted) + 1
      <4>1. IsFiniteSet(Counted) /\ Cardinality(Counted) \in Nat
        BY <2>1, AdmittedFinite
      <4>2. /\ IsFiniteSet(Counted \union {c})
            /\ Cardinality(Counted \union {c})
                 = IF c \in Counted THEN Cardinality(Counted) ELSE Cardinality(Counted) + 1
        BY <4>1, FS_AddElement
      <4>3. QED
        BY <4>1, <4>2
    <3>4. Cardinality(Counted \union {c}) \in Nat /\ Cardinality(Counted') \in Nat
      BY <3>1, <3>3, FS_Subset, FS_CardinalityType
    <3>5. Cardinality(Counted') <= Cardinality(Counted \union {c})
      BY <3>1, <3>3, FS_Subset
    <3>6. QED
      BY <2>1, <3>2, <3>3, <3>4, <3>5, AdmittedFinite, MaxParticipantsAssumption
  <2>4. ASSUME ~ \E c \in Conn : Admit(c)
        PROVE  Cardinality(Counted') + 1 <= MaxParticipants
    <3>1. Counted' \subseteq Counted
      BY <2>1, <2>4, CountedShrinks
    <3>2. Cardinality(Counted') <= Cardinality(Counted) /\ Cardinality(Counted') \in Nat
      BY <2>1, <3>1, AdmittedFinite, FS_Subset, FS_CardinalityType
    <3>3. QED
      BY <2>1, <3>2, AdmittedFinite, MaxParticipantsAssumption
  <2>5. QED
    BY <2>3, <2>4
<1>3. CapacityInv => Capacity
  BY DEF CapacityInv
<1>4. QED
  BY <1>1, <1>2, <1>3, Typing, PTL DEF Spec

-----------------------------------------------------------------------------
(* The Welcome comes first.                                                *)

LEMMA WelcomedStep ==
    TypeOK /\ WelcomedOrClosing /\ [Next]_vars => WelcomedOrClosing'
<1> SUFFICES ASSUME TypeOK, WelcomedOrClosing, [Next]_vars PROVE WelcomedOrClosing'
  OBVIOUS
<1> USE DEF TypeOK, WelcomedOrClosing, HostPeerId, readerVars, closerVars, leaveVars, viewVars
<1>1. ASSUME NEW c \in Conn, Accept(c) \/ Register(c) \/ SpawnFailed(c)
      PROVE  WelcomedOrClosing'
  BY <1>1 DEF Accept, Register, SpawnFailed
<1>2. ASSUME NEW c \in Conn, ReadHello(c) \/ RefuseFull(c) \/ PushJoined(c)
      PROVE  WelcomedOrClosing'
  BY <1>2 DEF ReadHello, RefuseFull, PushJoined
<1>3. ASSUME NEW c \in Conn, Admit(c) PROVE WelcomedOrClosing'
  <2>1. nextPeerId # 0
    OBVIOUS
  <2>2. \A e \in Conn : peerId'[e] = IF e = c THEN nextPeerId ELSE peerId[e]
    BY <1>3 DEF Admit
  <2>3. welcomed' = (IF c \in closing THEN welcomed ELSE welcomed \union {c})
        /\ UNCHANGED <<closing, joinTodo, leftTodo>>
    BY <1>3 DEF Admit
  <2>4. QED
    BY <2>1, <2>2, <2>3
<1>4. ASSUME NEW c \in Conn, JoinTargets(c) PROVE WelcomedOrClosing'
  BY <1>4 DEF JoinTargets, AdmittedConns
<1>5. ASSUME NEW c \in Conn, ReaderCloses(c) \/ OtherCloses(c) PROVE WelcomedOrClosing'
  BY <1>5 DEF ReaderCloses, OtherCloses, BeginClose
<1>6. ASSUME NEW c \in Conn, ReadPeerId(c) \/ RemoveConn(c) \/ PushLeft(c) \/ EndClose(c)
      PROVE  WelcomedOrClosing'
  BY <1>6 DEF ReadPeerId, RemoveConn, PushLeft, EndClose
<1>7. ASSUME NEW c \in Conn, LeftTargets(c) PROVE WelcomedOrClosing'
  BY <1>7 DEF LeftTargets, AdmittedConns
<1>8. ASSUME NEW c \in Conn, NEW d \in Conn, SendJoined(c, d) \/ SendLeft(c, d)
      PROVE  WelcomedOrClosing'
  BY <1>8 DEF SendJoined, SendLeft
<1>9. ASSUME Leave \/ TakeConns \/ \E c \in Conn : CloseTaken(c) PROVE WelcomedOrClosing'
  BY <1>9 DEF Leave, TakeConns, CloseTaken
<1>10. CASE UNCHANGED vars
  BY <1>10 DEF vars
<1>11. QED
  BY <1>1, <1>2, <1>3, <1>4, <1>5, <1>6, <1>7, <1>8, <1>9, <1>10, Steps

\* No step queues a change of the roster for a client before its Welcome: of
\* two readers, the one that announces its newcomer to the other's connection
\* finds it admitted, and it counts as admitted only with its Welcome queued.
THEOREM WelcomeIsFirst == Spec => WelcomeFirst
<1>1. Init => WelcomedOrClosing
  BY DEF Init, WelcomedOrClosing
<1>2. TypeOK /\ WelcomedOrClosing /\ [Next]_vars
        => [\A c \in Conn : told'[c] # told[c] => c \in welcomed']_<<told, welcomed>>
  <2> SUFFICES ASSUME TypeOK, WelcomedOrClosing, [Next]_vars,
                      NEW e \in Conn, told'[e] # told[e]
               PROVE  e \in welcomed'
    OBVIOUS
  <2> USE DEF readerVars, closerVars, leaveVars, viewVars
  <2>1. ASSUME NEW c \in Conn, Admit(c) PROVE e \in welcomed'
    BY <2>1 DEF Admit, Tell, TypeOK
  <2>2. ASSUME NEW c \in Conn, NEW d \in Conn, SendJoined(c, d) PROVE e \in welcomed'
    <3>1. e = d /\ d \notin closing /\ d \in joinTodo[c] /\ welcomed' = welcomed
      BY <2>2 DEF SendJoined, Tell, TypeOK
    <3>2. QED
      BY <3>1 DEF WelcomedOrClosing
  <2>3. ASSUME NEW c \in Conn, NEW d \in Conn, SendLeft(c, d) PROVE e \in welcomed'
    <3>1. e = d /\ d \notin closing /\ d \in leftTodo[c] /\ welcomed' = welcomed
      BY <2>3 DEF SendLeft, Tell, TypeOK
    <3>2. QED
      BY <3>1 DEF WelcomedOrClosing
  <2>4. ASSUME ~ \E c \in Conn : Admit(c),
               ~ \E c, d \in Conn : SendJoined(c, d) \/ SendLeft(c, d)
        PROVE  told' = told
    <3>1. CASE UNCHANGED vars
      BY <3>1 DEF vars
    <3>2. CASE Next
      BY <2>4, <3>2, Steps
         DEF Accept, Register, SpawnFailed, ReadHello, RefuseFull, JoinTargets, PushJoined,
             ReaderCloses, OtherCloses, BeginClose, ReadPeerId, RemoveConn, PushLeft,
             LeftTargets, EndClose, Leave, TakeConns, CloseTaken
    <3>3. QED
      BY <3>1, <3>2
  <2>5. QED
    BY <2>1, <2>2, <2>3, <2>4
<1>3. QED
  BY <1>1, <1>2, Typing, WelcomedStep, PTL DEF Spec, WelcomeFirst

-----------------------------------------------------------------------------
(* What leave leaves behind.                                               *)

LEMMA AccountedStep == TypeOK /\ Accounted /\ [Next]_vars => Accounted'
<1> SUFFICES ASSUME TypeOK, Accounted, [Next]_vars PROVE Accounted'
  OBVIOUS
<1> USE ConnAssumption
        DEF TypeOK, Accounted, readerVars, closerVars, leaveVars, viewVars
<1>1. ASSUME NEW c \in Conn, Accept(c) PROVE Accounted'
  BY <1>1 DEF Accept
<1>2. ASSUME NEW c \in Conn, Register(c) PROVE Accounted'
  BY <1>2 DEF Register
<1>3. ASSUME NEW c \in Conn, SpawnFailed(c) PROVE Accounted'
  BY <1>3 DEF SpawnFailed
<1>4. ASSUME NEW c \in Conn, ReadHello(c) \/ Admit(c) \/ JoinTargets(c) \/ PushJoined(c)
      PROVE  Accounted'
  BY <1>4 DEF ReadHello, Admit, JoinTargets, PushJoined
<1>5. ASSUME NEW c \in Conn, RefuseFull(c) PROVE Accounted'
  BY <1>5 DEF RefuseFull
<1>6. ASSUME NEW c \in Conn, ReaderCloses(c) \/ OtherCloses(c) PROVE Accounted'
  BY <1>6, SMTT(30) DEF ReaderCloses, OtherCloses, BeginClose
<1>7. ASSUME NEW c \in Conn, RemoveConn(c) PROVE Accounted'
  BY <1>7 DEF RemoveConn
<1>8. ASSUME NEW c \in Conn, ReadPeerId(c) \/ PushLeft(c) \/ LeftTargets(c) \/ EndClose(c)
      PROVE  Accounted'
  BY <1>8 DEF ReadPeerId, PushLeft, LeftTargets, EndClose
<1>9. ASSUME NEW c \in Conn, NEW d \in Conn, SendJoined(c, d) \/ SendLeft(c, d)
      PROVE  Accounted'
  BY <1>9 DEF SendJoined, SendLeft
<1>10. CASE Leave
  BY <1>10 DEF Leave
<1>11. CASE TakeConns
  BY <1>11 DEF TakeConns
<1>12. ASSUME NEW c \in Conn, CloseTaken(c) PROVE Accounted'
  BY <1>12 DEF CloseTaken
<1>13. CASE UNCHANGED vars
  BY <1>13 DEF vars
<1>14. QED
  BY <1>1, <1>2, <1>3, <1>4, <1>5, <1>6, <1>7, <1>8, <1>9, <1>10, <1>11, <1>12, <1>13, Steps

\* When leave has closed all it took, one open connection is left at most: the
\* one whose add_connection the accept thread was in.
THEOREM LeaveLeaves == Spec => []LeaveLeavesAtMostOne
<1>1. Init => Accounted
  BY DEF Init, Accounted
<1>2. TypeOK /\ Accounted => LeaveLeavesAtMostOne
  <2> SUFFICES ASSUME TypeOK, Accounted, leaving = "closing", leaveTodo = {}
               PROVE  Cardinality(spawned \ closing) <= 1
    BY DEF LeaveLeavesAtMostOne
  <2>1. PICK x \in Conn \union {None} : conns \union {accepting} \subseteq {x, None}
    BY DEF Accounted
  <2>2. spawned \ closing \subseteq {x}
    BY <2>1, ConnAssumption DEF TypeOK, Accounted
  <2>3. IsFiniteSet({x}) /\ Cardinality({x}) = 1
    BY FS_Singleton
  <2>4. QED
    BY <2>2, <2>3, FS_Subset
<1>3. QED
  BY <1>1, <1>2, Typing, AccountedStep, PTL DEF Spec
-----------------------------------------------------------------------------
(* The rosters told.                                                       *)

\* A participant that is here, admitted in good time; and one that was, and whose
\* admission was over before it was closed.
Here(c) == peerId[c] # 0 /\ c \notin untimely /\ c \notin closing
Gone(c) ==
    /\ peerId[c] # 0 /\ c \notin untimely /\ c \in closing
    /\ reader[c] \notin {"joining", "telling"}

\* Ids are given once, to one connection, and read only by who closes it.
Ids ==
    /\ \A c \in Conn :
        /\ peerId[c] < nextPeerId /\ peerId[c] # HostPeerId
        /\ reader[c] = "admitting" => peerId[c] = 0
        /\ reader[c] \in {"joining", "telling"} => peerId[c] # 0
        /\ closeId[c] # 0 => closeId[c] = peerId[c]
        /\ closer[c] = "open" <=> c \notin closing
        /\ closer[c] \in {"removed", "leaving", "telling"} => closeId[c] # 0
    /\ \A c, d \in Conn : c # d /\ peerId[c] # 0 => peerId[c] # peerId[d]

\* While the session is up, whoever is here is registered.
Registered == running => \A c \in Conn : Here(c) => c \in conns

\* Of two that are here, each was told of the other in its Welcome, or by the PeerJoined
\* that the other's reader has sent it, or has yet to.
Announced ==
    running => \A c \in Conn : Here(c) =>
        /\ reader[c] \notin {"joining", "telling"} => peerId[c] \in hostTold
        /\ HostPeerId \in told[c]
        /\ \A d \in Conn : d # c /\ Here(d) =>
            \/ peerId[d] \in told[c]
            \/ reader[d] = "joining"
            \/ reader[d] = "telling" /\ c \in joinTodo[d]

\* Who closes a participant erases it everywhere, place by place.
Forgotten ==
    running => \A c \in Conn : Gone(c) =>
        /\ closer[c] # "begun" => closeId[c] = peerId[c]
        /\ closer[c] \in {"leaving", "telling", "done"} => peerId[c] \notin hostTold
        /\ closer[c] \in {"removed", "leaving", "telling", "done"} =>
            c \notin conns /\ peerId[c] \notin follows
        /\ \A d \in Conn : Here(d) /\ peerId[c] \in told[d] =>
            \/ closer[c] \in {"begun", "identified", "removed", "leaving"}
            \/ closer[c] = "telling" /\ d \in leftTodo[c]

Base == TypeOK /\ Started /\ Unregistered /\ Accounted /\ Ids /\ Registered

LEMMA IdsStep == TypeOK /\ Ids /\ Unregistered /\ Accounted /\ [Next]_vars => Ids'
<1> SUFFICES ASSUME TypeOK, Ids, Unregistered, Accounted, [Next]_vars PROVE Ids'
  OBVIOUS
<1> USE ConnAssumption DEF TypeOK, Ids, HostPeerId, readerVars, closerVars, leaveVars, viewVars
<1>1. ASSUME NEW c \in Conn, Accept(c) \/ Register(c) PROVE Ids'
  BY <1>1 DEF Accept, Register
<1>2. ASSUME NEW c \in Conn, SpawnFailed(c) PROVE Ids'
  BY <1>2 DEF SpawnFailed
<1>3. ASSUME NEW c \in Conn, ReadHello(c) \/ JoinTargets(c) \/ PushJoined(c) PROVE Ids'
  BY <1>3 DEF ReadHello, JoinTargets, PushJoined
<1>4. ASSUME NEW c \in Conn, Admit(c) PROVE Ids'
  <2>1. /\ \A e \in Conn : peerId'[e] = IF e = c THEN nextPeerId ELSE peerId[e]
        /\ \A e \in Conn : reader'[e] = IF e = c THEN "joining" ELSE reader[e]
        /\ nextPeerId' = nextPeerId + 1 /\ nextPeerId \in Nat /\ nextPeerId > 1
        /\ UNCHANGED <<closing, closer, closeId>> /\ peerId[c] = 0
    BY <1>4 DEF Admit
  <2>2. \A e \in Conn : peerId[e] \in Nat
    OBVIOUS
  <2> QED
    BY <2>1, <2>2
<1>5. ASSUME NEW c \in Conn, RefuseFull(c) PROVE Ids'
  BY <1>5 DEF RefuseFull
<1>6. ASSUME NEW c \in Conn, ReaderCloses(c) \/ OtherCloses(c) PROVE Ids'
  BY <1>6 DEF ReaderCloses, OtherCloses, BeginClose
<1>7. ASSUME NEW c \in Conn, ReadPeerId(c) \/ PushLeft(c) \/ LeftTargets(c) \/ EndClose(c)
      PROVE  Ids'
  BY <1>7 DEF ReadPeerId, PushLeft, LeftTargets, EndClose
<1>8. ASSUME NEW c \in Conn, RemoveConn(c) PROVE Ids'
  BY <1>8 DEF RemoveConn
<1>9. ASSUME NEW c \in Conn, NEW d \in Conn, SendJoined(c, d) \/ SendLeft(c, d) PROVE Ids'
  BY <1>9 DEF SendJoined, SendLeft
<1>10. ASSUME Leave \/ TakeConns \/ \E c \in Conn : CloseTaken(c) PROVE Ids'
  BY <1>10 DEF Leave, TakeConns, CloseTaken
<1>11. CASE UNCHANGED vars
  BY <1>11 DEF vars
<1> QED
  BY <1>1, <1>2, <1>3, <1>4, <1>5, <1>6, <1>7, <1>8, <1>9, <1>10, <1>11, Steps

LEMMA RegisteredStep == TypeOK /\ Accounted /\ Ids /\ Registered /\ [Next]_vars => Registered'
<1> SUFFICES ASSUME TypeOK, Accounted, Ids, Registered, [Next]_vars PROVE Registered'
  OBVIOUS
<1> USE ConnAssumption DEF TypeOK, Registered, Here, readerVars, closerVars, leaveVars, viewVars
<1>1. ASSUME NEW c \in Conn, Accept(c) \/ Register(c) \/ SpawnFailed(c) PROVE Registered'
  BY <1>1 DEF Accept, Register, SpawnFailed
<1>2. ASSUME NEW c \in Conn, ReadHello(c) \/ RefuseFull(c) \/ JoinTargets(c) \/ PushJoined(c)
      PROVE  Registered'
  BY <1>2, ZenonT(30) DEF ReadHello, RefuseFull, JoinTargets, PushJoined
<1>3. ASSUME NEW c \in Conn, Admit(c) PROVE Registered'
  BY <1>3 DEF Admit
<1>4. ASSUME NEW c \in Conn, ReaderCloses(c) \/ OtherCloses(c) PROVE Registered'
  BY <1>4 DEF ReaderCloses, OtherCloses, BeginClose
<1>5. ASSUME NEW c \in Conn, ReadPeerId(c) \/ PushLeft(c) \/ LeftTargets(c) \/ EndClose(c)
      PROVE  Registered'
  BY <1>5 DEF ReadPeerId, PushLeft, LeftTargets, EndClose
<1>6. ASSUME NEW c \in Conn, RemoveConn(c) PROVE Registered'
  BY <1>6 DEF RemoveConn, Ids
<1>7. ASSUME NEW c \in Conn, NEW d \in Conn, SendJoined(c, d) \/ SendLeft(c, d) PROVE Registered'
  BY <1>7 DEF SendJoined, SendLeft
<1>8. ASSUME Leave \/ TakeConns \/ \E c \in Conn : CloseTaken(c) PROVE Registered'
  BY <1>8 DEF Leave, TakeConns, CloseTaken, Accounted
<1>9. CASE UNCHANGED vars
  BY <1>9 DEF vars
<1> QED
  BY <1>1, <1>2, <1>3, <1>4, <1>5, <1>6, <1>7, <1>8, <1>9, Steps

\* What leaves the lists alone, and moves only the readers of those who are not here.
LEMMA AnnouncedKept ==
    ASSUME TypeOK, Announced, untimely \subseteq untimely', closing \subseteq closing',
           UNCHANGED <<running, peerId, told, hostTold, joinTodo>>,
           \A e \in Conn : Here(e)' => reader'[e] = reader[e]
    PROVE  Announced'
<1>1. \A e \in Conn : Here(e)' => Here(e)
  BY DEF Here
<1>2. \A e \in Conn : Here(e)' => reader'[e] = reader[e]
  OBVIOUS
<1> QED
  BY <1>1, <1>2 DEF Announced

LEMMA AnnouncedStep == Base /\ Announced /\ [Next]_vars => Announced'
<1> SUFFICES ASSUME TypeOK, Unregistered, Accounted, Ids, Registered, Announced, [Next]_vars
             PROVE  Announced'
  BY DEF Base
<1> USE ConnAssumption
        DEF TypeOK, HostPeerId, Here, readerVars, closerVars, leaveVars, viewVars
<1>1. ASSUME NEW c \in Conn,
             Accept(c) \/ Register(c) \/ SpawnFailed(c) \/ ReadHello(c) \/ RefuseFull(c)
      PROVE  Announced'
  <2>1. CASE Accept(c) \/ Register(c) \/ SpawnFailed(c)
    BY <2>1, AnnouncedKept DEF Accept, Register, SpawnFailed
  <2>2. CASE ReadHello(c)
    <3>1. \A e \in Conn : Here(e)' => reader'[e] = reader[e]
      BY <2>2 DEF ReadHello
    <3> QED
      BY <2>2, <3>1, AnnouncedKept DEF ReadHello
  <2>3. CASE RefuseFull(c)
    <3>1. \A e \in Conn : Here(e)' => reader'[e] = reader[e]
      BY <2>3 DEF RefuseFull
    <3> QED
      BY <2>3, <3>1, AnnouncedKept DEF RefuseFull
  <2> QED
    BY <1>1, <2>1, <2>2, <2>3
<1>2. ASSUME NEW c \in Conn, Admit(c) PROVE Announced'
  <2>1. /\ \A e \in Conn : peerId'[e] = IF e = c THEN nextPeerId ELSE peerId[e]
        /\ \A e \in Conn : reader'[e] = IF e = c THEN "joining" ELSE reader[e]
        /\ \A e \in Conn : told'[e] = IF e = c /\ c \notin closing
                                      THEN {HostPeerId} \union Participants ELSE told[e]
        /\ UNCHANGED <<running, closing, joinTodo, hostTold>> /\ peerId[c] = 0
        /\ untimely \subseteq untimely'
    BY <1>2 DEF Admit, Tell, Ids
  <2>2. ASSUME running, NEW d \in Conn, d # c, Here(d)
        PROVE  peerId[d] \in Participants
    BY <2>2 DEF Registered, Participants, AdmittedConns
  <2> QED
    BY <2>1, <2>2 DEF Announced
<1>3. ASSUME NEW c \in Conn, JoinTargets(c) PROVE Announced'
  BY <1>3 DEF Announced, JoinTargets, AdmittedConns, Registered
<1>4. ASSUME NEW c \in Conn, NEW d \in Conn, SendJoined(c, d) PROVE Announced'
  BY <1>4 DEF Announced, SendJoined, Tell
<1>5. ASSUME NEW c \in Conn, PushJoined(c) PROVE Announced'
  BY <1>5 DEF Announced, PushJoined
<1>6. ASSUME NEW c \in Conn, ReaderCloses(c) \/ OtherCloses(c) PROVE Announced'
  <2>1. \A e \in Conn : Here(e)' => reader'[e] = reader[e]
    BY <1>6 DEF ReaderCloses, OtherCloses, BeginClose
  <2> QED
    BY <1>6, <2>1, AnnouncedKept DEF ReaderCloses, OtherCloses, BeginClose
<1>7. ASSUME NEW c \in Conn, ReadPeerId(c) \/ RemoveConn(c) \/ LeftTargets(c) \/ EndClose(c)
      PROVE  Announced'
  BY <1>7 DEF Announced, ReadPeerId, RemoveConn, LeftTargets, EndClose
<1>8. ASSUME NEW c \in Conn, PushLeft(c) PROVE Announced'
  <2>1. \A e \in Conn : Here(e) => peerId[e] # closeId[c]
    BY <1>8 DEF PushLeft, Ids
  <2> QED
    BY <1>8, <2>1 DEF Announced, PushLeft
<1>9. ASSUME NEW c \in Conn, NEW d \in Conn, SendLeft(c, d) PROVE Announced'
  <2>1. closeId[c] # HostPeerId /\ \A e \in Conn : Here(e) => peerId[e] # closeId[c]
    BY <1>9 DEF SendLeft, Ids
  <2>2. /\ \A e \in Conn : told'[e] = told[e] \/ told'[e] = told[e] \ {closeId[c]}
        /\ UNCHANGED <<running, closing, joinTodo, hostTold, peerId, reader, untimely>>
    BY <1>9 DEF SendLeft, Tell
  <2> QED
    BY <2>1, <2>2 DEF Announced
<1>10. ASSUME Leave \/ TakeConns \/ \E c \in Conn : CloseTaken(c) PROVE Announced'
  <2>1. ~running'
    BY <1>10 DEF Leave, TakeConns, CloseTaken, Accounted
  <2> QED
    BY <2>1 DEF Announced
<1>11. CASE UNCHANGED vars
  BY <1>11 DEF Announced, vars
<1> QED
  BY <1>1, <1>2, <1>3, <1>4, <1>5, <1>6, <1>7, <1>8, <1>9, <1>10, <1>11, Steps

LEMMA ForgottenStep == Base /\ Forgotten /\ [Next]_vars => Forgotten'
<1> SUFFICES ASSUME TypeOK, Unregistered, Accounted, Ids, Registered, Forgotten, [Next]_vars
             PROVE  Forgotten'
  BY DEF Base
<1> USE ConnAssumption
        DEF TypeOK, HostPeerId, Here, Gone, readerVars, closerVars, leaveVars, viewVars
<1>1. ASSUME NEW c \in Conn, Accept(c) \/ Register(c) \/ ReadHello(c) \/ JoinTargets(c)
      PROVE  Forgotten'
  <2>1. /\ UNCHANGED <<running, peerId, follows, closing, untimely, told, hostTold, closer,
                       closeId, leftTodo>>
        /\ conns' \subseteq conns \union {c}
        /\ \A e \in Conn : e # c => reader'[e] = reader[e]
    BY <1>1 DEF Accept, Register, ReadHello, JoinTargets
  <2>2. Gone(c)' => Gone(c) /\ conns' = conns
    BY <1>1 DEF Unregistered, Accept, Register, ReadHello, JoinTargets
  <2>3. \A e \in Conn : (Gone(e)' => Gone(e)) /\ (Here(e)' => Here(e))
    BY <2>1, <2>2
  <2> QED
    BY <2>1, <2>2, <2>3 DEF Forgotten
<1>2. ASSUME NEW c \in Conn, SpawnFailed(c) PROVE Forgotten'
  BY <1>2 DEF Forgotten, Unregistered, SpawnFailed
<1>3. ASSUME NEW c \in Conn, RefuseFull(c) PROVE Forgotten'
  BY <1>3 DEF Forgotten, Ids, RefuseFull
<1>4. ASSUME NEW c \in Conn, Admit(c) PROVE Forgotten'
  <2>1. /\ \A e \in Conn : peerId'[e] = IF e = c THEN nextPeerId ELSE peerId[e]
        /\ \A e \in Conn : reader'[e] = IF e = c THEN "joining" ELSE reader[e]
        /\ \A e \in Conn : told'[e] = IF e = c /\ c \notin closing
                                      THEN {HostPeerId} \union Participants ELSE told[e]
        /\ UNCHANGED <<running, closing, closer, closeId, leftTodo, hostTold, conns>>
        /\ follows' = follows \union {nextPeerId} /\ untimely \subseteq untimely'
    BY <1>4 DEF Admit, Tell, Ids
  <2>2. ASSUME NEW e \in Conn, Gone(e), peerId[e] \in {HostPeerId} \union Participants
        PROVE  e \in conns
    BY <2>2 DEF Ids, Participants, AdmittedConns
  <2>3. \A e \in Conn : peerId[e] # nextPeerId /\ (Gone(e) => closer[e] # "open")
    BY DEF Ids
  <2> QED
    BY <2>1, <2>2, <2>3 DEF Forgotten
<1>5. ASSUME NEW c \in Conn, NEW d \in Conn, SendJoined(c, d) PROVE Forgotten'
  <2>1. \A e \in Conn : Gone(e) => peerId[e] # peerId[c]
    BY <1>5 DEF SendJoined, Ids
  <2>2. /\ \A e \in Conn : told'[e] = told[e] \/ told'[e] = told[e] \union {peerId[c]}
        /\ UNCHANGED <<running, conns, follows, closing, closer, closeId, leftTodo, hostTold, peerId,
                       reader, untimely>>
    BY <1>5 DEF SendJoined, Tell
  <2> QED
    BY <2>1, <2>2 DEF Forgotten
<1>6. ASSUME NEW c \in Conn, PushJoined(c) PROVE Forgotten'
  <2>1. \A e \in Conn : e # c => peerId[e] # peerId[c]
    BY <1>6 DEF PushJoined, Ids
  <2>2. /\ hostTold' = hostTold \union {peerId[c]}
        /\ \A e \in Conn : e # c => reader'[e] = reader[e]
        /\ c \in closing => c \in untimely'
        /\ untimely \subseteq untimely'
        /\ UNCHANGED <<running, conns, follows, closing, closer, closeId, leftTodo, told, peerId>>
    BY <1>6 DEF PushJoined
  <2> QED
    BY <2>1, <2>2 DEF Forgotten
<1>7. ASSUME NEW c \in Conn, ReaderCloses(c) \/ OtherCloses(c) PROVE Forgotten'
  <2>1. /\ UNCHANGED <<running, peerId, conns, follows, untimely, told, hostTold, closeId,
                       leftTodo>>
        /\ closing' = closing \union {c} /\ closer'[c] = "begun"
        /\ \A e \in Conn : e # c => closer'[e] = closer[e] /\ reader'[e] = reader[e]
    BY <1>7 DEF ReaderCloses, OtherCloses, BeginClose
  <2>2. \A e \in Conn : (e # c /\ Gone(e)' => Gone(e)) /\ (Here(e)' => Here(e))
    BY <2>1
  <2> QED
    BY <2>1, <2>2 DEF Forgotten
<1>8. ASSUME NEW c \in Conn, ReadPeerId(c) PROVE Forgotten'
  BY <1>8 DEF Forgotten, ReadPeerId
<1>9. ASSUME NEW c \in Conn, RemoveConn(c) PROVE Forgotten'
  BY <1>9 DEF Forgotten, RemoveConn
<1>10. ASSUME NEW c \in Conn, PushLeft(c) PROVE Forgotten'
  BY <1>10 DEF Forgotten, PushLeft
<1>11. ASSUME NEW c \in Conn, LeftTargets(c) PROVE Forgotten'
  <2>1. /\ \A e \in Conn : closer'[e] = IF e = c THEN "telling" ELSE closer[e]
        /\ \A e \in Conn : e # c => leftTodo'[e] = leftTodo[e]
        /\ running => leftTodo'[c] = {d \in AdmittedConns : peerId[d] # closeId[c]}
        /\ UNCHANGED <<running, conns, follows, closing, closeId, told, hostTold, peerId, reader,
                       untimely>>
        /\ closer[c] = "leaving"
    BY <1>11 DEF LeftTargets
  <2>2. ASSUME running, NEW d \in Conn, Here(d), Gone(c)
        PROVE  d \in AdmittedConns /\ peerId[d] # closeId[c]
    BY <2>1, <2>2 DEF Registered, Forgotten, AdmittedConns, Ids
  <2> QED
    BY <2>1, <2>2 DEF Forgotten
<1>12. ASSUME NEW c \in Conn, NEW d \in Conn, SendLeft(c, d) PROVE Forgotten'
  BY <1>12 DEF Forgotten, SendLeft, Tell
<1>13. ASSUME NEW c \in Conn, EndClose(c) PROVE Forgotten'
  BY <1>13 DEF Forgotten, EndClose
<1>14. ASSUME Leave \/ TakeConns \/ \E c \in Conn : CloseTaken(c) PROVE Forgotten'
  BY <1>14 DEF Forgotten, Accounted, Leave, TakeConns, CloseTaken
<1>15. CASE UNCHANGED vars
  BY <1>15 DEF Forgotten, vars
<1> QED
  BY <1>1, <1>2, <1>3, <1>4, <1>5, <1>6, <1>7, <1>8, <1>9, <1>10, <1>11, <1>12, <1>13,
     <1>14, <1>15, Steps

LEMMA BaseHolds == Spec => []Base
<1>1. Init => Base
  BY ConnAssumption
     DEF Init, Base, TypeOK, Started, Unregistered, Accounted, Ids, Registered, Here,
         FirstClientId, HostPeerId
<1>2. TypeOK /\ TypeOK' /\ Base /\ [Next]_vars => Base'
  BY StartedStep, UnregisteredStep, AccountedStep, IdsStep, RegisteredStep DEF Base
<1> QED
  BY <1>1, <1>2, Typing, PTL DEF Spec

\* Once the threads are at rest, every participant has been told of every other, and so
\* has the host: of two joining at once one finds the other in its Welcome, or is on
\* the list of the other's reader.
THEOREM AllAreTold == Spec => []EveryoneIsTold
<1>1. Init => Announced
  BY DEF Init, Announced, Here
<1>2. Base /\ Announced => EveryoneIsTold
  <2> SUFFICES ASSUME Base, Announced, Quiescent, NEW c \in Present \ untimely
               PROVE  /\ peerId[c] \in hostTold
                      /\ HostPeerId \in told[c]
                      /\ \A d \in Present \ (untimely \union {c}) : peerId[d] \in told[c]
    BY DEF EveryoneIsTold
  <2>1. running /\ c \in Conn /\ Here(c) /\ \A d \in Conn : reader[d] \notin {"joining", "telling"}
    BY DEF Quiescent, Present, Here
  <2>2. \A d \in Present \ (untimely \union {c}) : d \in Conn /\ d # c /\ Here(d)
    BY DEF Present, Here
  <2> QED
    BY <2>1, <2>2 DEF Announced
<1> QED
  BY <1>1, <1>2, BaseHolds, AnnouncedStep, PTL DEF Spec

\* Once the threads are at rest, nobody present still lists a participant that departed,
\* neither does the host, and its FollowSlot is gone.
THEOREM NoGhostsLeft == Spec => []NoGhosts
<1>1. Init => Forgotten
  BY DEF Init, Forgotten, Gone
<1>2. Base /\ Forgotten => NoGhosts
  <2> SUFFICES ASSUME Base, Forgotten, Quiescent, NEW c \in Departed \ untimely
               PROVE  /\ peerId[c] \notin hostTold \union follows
                      /\ \A d \in Present \ untimely : peerId[c] \notin told[d]
    BY DEF NoGhosts
  <2>1. running /\ c \in Conn /\ Gone(c) /\ closer[c] = "done"
    BY DEF Quiescent, Departed, Gone, Base, Ids
  <2>2. \A d \in Present \ untimely : d \in Conn /\ Here(d)
    BY DEF Present, Here
  <2> QED
    BY <2>1, <2>2 DEF Forgotten
<1> QED
  BY <1>1, <1>2, BaseHolds, ForgottenStep, PTL DEF Spec
=============================================================================
