------------------------- MODULE SharedPause_proofs -------------------------
(***************************************************************************)
(* What holds of SharedPause for any number of clients and any bounds.     *)
(***************************************************************************)
EXTENDS SharedPause, FiniteSetTheorems, TLAPS

\* The steps of the specification, one disjunct for each action.
LEMMA Steps ==
    ASSUME Next
    PROVE  \/ \E c \in Client : Join(c) \/ PauseArrives(c) \/ PutBack(c)
           \/ \E p \in Player : LookUp(p) \/ TellHost(p) \/ HandleEvent(p) \/ ResetFires(p)
                                \/ Publish(p)
           \/ \E p \in Player, c \in Client : TellOne(p, c)
           \/ \E p \in Player, isPaused \in Choices : ChangePause(p, isPaused)
           \/ \E m \in Modes : PickMode(m)
           \/ StartRace
BY DEF Next

\* What strengthens TypeOK: only clients that have been welcomed are told.
ToldAreAdmitted == \A p \in Player : sending[p].todo \subseteq admitted

TypeInv == TypeOK /\ ToldAreAdmitted

-----------------------------------------------------------------------------
(* Typing, by the kind of step.                                            *)

LEMMA Constructors ==
    /\ \A m \in Modes \union {"off"}, b \in BOOLEAN : Sync(m, b) \in Message
    /\ \A b \in BOOLEAN : Pause(b) \in Message /\ Pause(b).kind = "pause"
    /\ ResetAll \in Message
BY DEF Sync, Pause, ResetAll, Message

\* note_pause keeps the types, and what it has relayed is a pause.
LEMMA NotePauseTypes ==
    ASSUME TypeInv, NEW p \in Player, NEW isPaused \in BOOLEAN, NotePause(p, isPaused)
    PROVE  /\ session' \in [mode : Modes \union {"off"}, paused : BOOLEAN]
           /\ sending' \in [Player -> [step : {"idle", "noted", "telling"}, message : Message,
                                       todo : SUBSET Client]]
           /\ \A q \in Player : sending'[q].todo \subseteq admitted
           /\ \A c \in Client : sending'[c].step # "idle" => sending'[c].message.kind = "pause"
<1>1. Pause(isPaused) \in Message /\ Pause(isPaused).kind = "pause"
  BY Constructors
<1>2. CASE Counts(p)
  <2>1. /\ session' = [session EXCEPT !.paused = isPaused]
        /\ sending' = [sending EXCEPT ![p] = Noted(Pause(isPaused))]
    BY <1>2 DEF NotePause
  <2>2. Noted(Pause(isPaused)) \in [step : {"idle", "noted", "telling"}, message : Message,
                                    todo : SUBSET Client]
    BY <1>1 DEF Noted
  <2>3. Noted(Pause(isPaused)).todo = {} /\ Noted(Pause(isPaused)).message.kind = "pause"
    BY <1>1 DEF Noted
  <2>4. QED
    BY <2>1, <2>2, <2>3 DEF TypeInv, TypeOK, ToldAreAdmitted, Player
<1>3. CASE ~Counts(p)
  BY <1>3 DEF NotePause, TypeInv, TypeOK, ToldAreAdmitted
<1>4. QED
  BY <1>2, <1>3

LEMMA PauseTypingInit ==
    ASSUME Init
    PROVE  TypeInv
<1>1. Idle \in [step : {"idle", "noted", "telling"}, message : Message, todo : SUBSET Client]
  BY Constructors DEF Idle
<1>2. \A p \in Player : sending[p] = Idle /\ Idle.todo = {} /\ Idle.step = "idle"
  BY DEF Init, Idle
<1>3. ToldAreAdmitted
  BY <1>2 DEF ToldAreAdmitted
<1>4. sending \in [Player -> [step : {"idle", "noted", "telling"}, message : Message,
                             todo : SUBSET Client]]
  BY <1>1 DEF Init
<1>5. \A c \in Client : sending[c].step # "idle" => sending[c].message.kind = "pause"
  BY <1>2 DEF Player
<1>6. /\ session \in [mode : Modes \union {"off"}, paused : BOOLEAN]
      /\ inbox \in [Player -> Seq(Message)] /\ outbox \in [Client -> Seq(BOOLEAN)]
      /\ \A c \in Client \ admitted : inbox[c] = <<>> /\ outbox[c] = <<>>
  BY DEF Init, Player
<1>7. TypeOK
  BY <1>4, <1>5, <1>6 DEF Init, TypeOK
<1>8. QED
  BY <1>3, <1>7 DEF TypeInv

LEMMA TypesKept == Spec => []TypeInv
<1>1. Init => TypeInv
  BY PauseTypingInit
<1>2. TypeInv /\ [Next]_vars => TypeInv'
  <2> SUFFICES ASSUME TypeInv, [Next]_vars PROVE TypeInv'
    OBVIOUS
  <2> USE DEF TypeInv, TypeOK, ToldAreAdmitted, hostVars, wireVars, gameVars, countVars
  <2>1. ASSUME NEW c \in Client, Join(c) PROVE TypeInv'
    <3>1. Sync(session.mode, session.paused) \in Message
      BY Constructors
    <3>2. QED
      BY <2>1, <3>1 DEF Join, Player
  <2>2. ASSUME NEW c \in Client, PauseArrives(c) PROVE TypeInv'
    <3>1. Head(outbox[c]) \in BOOLEAN /\ Tail(outbox[c]) \in Seq(BOOLEAN) /\ c \in Player
      BY <2>2 DEF PauseArrives, Player
    <3>2. NotePause(c, Head(outbox[c])) /\ c \in admitted
      BY <2>2 DEF PauseArrives
    <3>3. QED
      BY <2>2, <3>1, <3>2, NotePauseTypes DEF PauseArrives
  <2>3. ASSUME NEW c \in Client, PutBack(c) PROVE TypeInv'
    BY <2>3 DEF PutBack, Player
  <2>4. ASSUME NEW p \in Player, LookUp(p) PROVE TypeInv'
    BY <2>4, ZenonT(30) DEF LookUp, Player
  <2>5. ASSUME NEW p \in Player, NEW c \in Client, TellOne(p, c) PROVE TypeInv'
    <3>1. c \in admitted /\ c \in Player /\ sending[p].message \in Message
      BY <2>5 DEF TellOne, Player
    <3>2. Append(inbox[c], sending[p].message) \in Seq(Message)
      BY <3>1
    <3>3. inbox' \in [Player -> Seq(Message)] /\ \A d \in Client \ admitted : inbox'[d] = inbox[d]
      BY <2>5, <3>1, <3>2 DEF TellOne, Player
    <3>4. /\ sending' \in [Player -> [step : {"idle", "noted", "telling"}, message : Message,
                                      todo : SUBSET Client]]
          /\ \A q \in Player : /\ sending'[q].todo \subseteq admitted
                              /\ sending'[q].step = sending[q].step
                              /\ sending'[q].message = sending[q].message
      BY <2>5 DEF TellOne
    <3>5. QED
      BY <2>5, <3>3, <3>4 DEF TellOne, Player
  <2>6. ASSUME NEW p \in Player, TellHost(p) PROVE TypeInv'
    <3>1. Idle \in [step : {"idle", "noted", "telling"}, message : Message, todo : SUBSET Client]
      BY Constructors DEF Idle
    <3>2. inbox' \in [Player -> Seq(Message)]
      BY <2>6 DEF TellHost, Player
    <3>3. \A c \in Client : inbox'[c] = inbox[c]
      BY <2>6, HostAssumption DEF TellHost, Player
    <3>4. QED
      BY <2>6, <3>1, <3>2, <3>3 DEF TellHost, Idle, Player
  <2>7. ASSUME NEW m \in Modes, PickMode(m) PROVE TypeInv'
    <3>1. Host \in Player /\ Sync(m, paused[Host]) \in Message
      BY Constructors DEF Player
    <3>2. Noted(Sync(m, paused[Host])) \in [step : {"idle", "noted", "telling"},
                                            message : Message, todo : SUBSET Client]
      BY <3>1 DEF Noted
    <3>3. QED
      BY <2>7, <3>1, <3>2, HostAssumption DEF PickMode, Noted, Player
  <2>8. ASSUME NEW p \in Player, NEW isPaused \in Choices, ChangePause(p, isPaused) PROVE TypeInv'
    BY <2>8, ChoicesAssumption DEF ChangePause
  <2>9. ASSUME NEW p \in Player, HandleEvent(p) PROVE TypeInv'
    <3>1. Head(inbox[p]) \in Message /\ Tail(inbox[p]) \in Seq(Message)
      BY <2>9 DEF HandleEvent
    <3>2. Head(inbox[p]).mode \in Modes \union {"off"} /\ Head(inbox[p]).paused \in BOOLEAN
      BY <3>1 DEF Message
    <3>3. /\ mode' \in [Player -> Modes \union {"off"}]
          /\ paused' \in [Player -> BOOLEAN] /\ synced' \in [Player -> BOOLEAN]
      BY <2>9, <3>2 DEF HandleEvent, Adopt
    <3>4. resetDue' \in [Player -> BOOLEAN]
      BY <2>9 DEF HandleEvent
    <3>5. /\ inbox' \in [Player -> Seq(Message)]
          /\ \A c \in Client \ admitted : inbox'[c] = <<>>
      BY <2>9, <3>1 DEF HandleEvent, Player
    <3>6. QED
      BY <2>9, <3>3, <3>4, <3>5 DEF HandleEvent
  <2>10. ASSUME NEW p \in Player, ResetFires(p) PROVE TypeInv'
    BY <2>10 DEF ResetFires, Adopt
  <2>11. ASSUME NEW p \in Player, Publish(p) PROVE TypeInv'
    <3>a. crossed' \in BOOLEAN
      BY <2>11, Zenon DEF Publish
    <3>b. UNCHANGED <<admitted, inbox, mode, paused, resetDue, overtaken, changes, settings,
                      resets>>
      BY <2>11, Zenon DEF Publish
    <3>c. synced' = [synced EXCEPT ![p] = paused[p]] /\ sends' = sends + 1
      BY <2>11, Zenon DEF Publish
    <3>d. synced' \in [Player -> BOOLEAN] /\ sends' \in Nat
      BY <3>c
    <3>1. CASE p = Host
      <4>1. NotePause(Host, paused[Host]) /\ UNCHANGED outbox
        BY <2>11, <3>1 DEF Publish
      <4>2. /\ session' \in [mode : Modes \union {"off"}, paused : BOOLEAN]
            /\ sending' \in [Player -> [step : {"idle", "noted", "telling"},
                                        message : Message, todo : SUBSET Client]]
            /\ \A q \in Player : sending'[q].todo \subseteq admitted
            /\ \A c \in Client : sending'[c].step # "idle" => sending'[c].message.kind = "pause"
        BY <4>1, NotePauseTypes, ZenonT(30) DEF Player
      <4>3. QED
        BY <3>a, <3>b, <3>d, <4>1, <4>2
    <3>2. CASE p # Host
      <4>1. p \in Client /\ p \in admitted
        BY <2>11, <3>2 DEF Publish, Ready, Player
      <4>2. outbox' = [outbox EXCEPT ![p] = Append(@, paused[p])]
        BY <2>11, <3>2 DEF Publish
      <4>3. outbox' \in [Client -> Seq(BOOLEAN)] /\ \A c \in Client \ admitted : outbox'[c] = <<>>
        BY <4>1, <4>2
      <4>4. UNCHANGED <<session, sending>>
        BY <2>11, <3>2, Zenon DEF Publish
      <4>5. QED
        BY <3>a, <3>b, <3>d, <4>3, <4>4
    <3>3. QED
      BY <3>1, <3>2
  <2>12. ASSUME StartRace PROVE TypeInv'
    <3>1. Host \in Player
      BY DEF Player
    <3>2. Noted(ResetAll) \in [step : {"idle", "noted", "telling"}, message : Message,
                               todo : SUBSET Client]
      BY Constructors DEF Noted
    <3>3. QED
      BY <2>12, <3>1, <3>2, HostAssumption DEF StartRace, Noted, Player
  <2>13. CASE UNCHANGED vars
    BY <2>13 DEF vars
  <2>14. QED
    BY <2>1, <2>2, <2>3, <2>4, <2>5, <2>6, <2>7, <2>8, <2>9, <2>10, <2>11, <2>12, <2>13, Steps
<1>3. QED
  BY <1>1, <1>2, PTL DEF Spec

\* Every variable keeps to its type, and nothing is on its way to or from a
\* client that has not been welcomed.
THEOREM PauseTyping == Spec => []TypeOK
<1>1. TypeInv => TypeOK
  BY DEF TypeInv
<1>2. QED
  BY <1>1, TypesKept, PTL

-----------------------------------------------------------------------------
(* No echo.                                                                *)

\* The players who have a pause of their own still to publish, or to put back.
Unagreed == {p \in Player : mode[p] # "off" /\ paused[p] # synced[p]}

EchoInv == TypeOK /\ sends + Cardinality(Unagreed) <= changes

LEMMA UnagreedFinite ==
    IsFiniteSet(Player) /\ IsFiniteSet(Unagreed) /\ Cardinality(Unagreed) \in Nat
<1>1. IsFiniteSet(Player)
  BY ClientAssumption, FS_AddElement DEF Player
<1>2. Unagreed \subseteq Player
  BY DEF Unagreed
<1>3. QED
  BY <1>1, <1>2, FS_Subset, FS_CardinalityType

\* Every step but a change of a pause leaves no more of them than there were.
LEMMA NoneAdded ==
    ASSUME TypeOK, [Next]_vars,
           ~ \E p \in Player, isPaused \in Choices : ChangePause(p, isPaused)
    PROVE  Unagreed' \subseteq Unagreed
<1> USE DEF TypeOK, Unagreed, hostVars, wireVars, gameVars, countVars
<1>1. ASSUME NEW c \in Client, Join(c) \/ PauseArrives(c) PROVE Unagreed' \subseteq Unagreed
  BY <1>1 DEF Join, PauseArrives
<1>2. ASSUME NEW c \in Client, PutBack(c) PROVE Unagreed' \subseteq Unagreed
  BY <1>2 DEF PutBack
<1>3. ASSUME NEW p \in Player, LookUp(p) \/ TellHost(p) PROVE Unagreed' \subseteq Unagreed
  BY <1>3 DEF LookUp, TellHost
<1>4. ASSUME NEW p \in Player, NEW c \in Client, TellOne(p, c) PROVE Unagreed' \subseteq Unagreed
  BY <1>4 DEF TellOne
<1>5. ASSUME NEW p \in Player, HandleEvent(p) PROVE Unagreed' \subseteq Unagreed
  BY <1>5 DEF HandleEvent, Adopt
<1>6. ASSUME NEW p \in Player, ResetFires(p) PROVE Unagreed' \subseteq Unagreed
  BY <1>6 DEF ResetFires, Adopt
<1>7. ASSUME NEW p \in Player, Publish(p) PROVE Unagreed' \subseteq Unagreed
  BY <1>7 DEF Publish
<1>8. ASSUME NEW m \in Modes, PickMode(m) PROVE Unagreed' \subseteq Unagreed
  BY <1>8 DEF PickMode
<1>9. ASSUME StartRace PROVE Unagreed' \subseteq Unagreed
  BY <1>9 DEF StartRace
<1>10. CASE UNCHANGED vars
  BY <1>10 DEF vars
<1>11. QED
  BY <1>1, <1>2, <1>3, <1>4, <1>5, <1>6, <1>7, <1>8, <1>9, <1>10, Steps

\* Only Publish sends, and only ChangePause changes a pause that counts.
LEMMA CountersKept ==
    ASSUME [Next]_vars, ~ \E p \in Player : Publish(p),
           ~ \E p \in Player, isPaused \in Choices : ChangePause(p, isPaused)
    PROVE  sends' = sends /\ changes' = changes
<1> USE DEF countVars
<1>1. ASSUME NEW c \in Client, Join(c) \/ PauseArrives(c) \/ PutBack(c)
      PROVE  sends' = sends /\ changes' = changes
  BY <1>1 DEF Join, PauseArrives, PutBack
<1>2. ASSUME NEW p \in Player, LookUp(p) \/ TellHost(p) \/ HandleEvent(p) \/ ResetFires(p)
      PROVE  sends' = sends /\ changes' = changes
  BY <1>2 DEF LookUp, TellHost, HandleEvent, ResetFires
<1>3. ASSUME NEW p \in Player, NEW c \in Client, TellOne(p, c)
      PROVE  sends' = sends /\ changes' = changes
  BY <1>3 DEF TellOne
<1>4. ASSUME NEW m \in Modes, PickMode(m) PROVE sends' = sends /\ changes' = changes
  BY <1>4 DEF PickMode
<1>5. ASSUME StartRace PROVE sends' = sends /\ changes' = changes
  BY <1>5 DEF StartRace
<1>6. CASE UNCHANGED vars
  BY <1>6 DEF vars
<1>7. QED
  BY <1>1, <1>2, <1>3, <1>4, <1>5, <1>6, Steps

\* Every Pause that is published is owed to a change made by a player, however
\* many players there are: what is adopted is never published back.
THEOREM NothingIsEchoed == Spec => []NoEcho
<1>1. Init => EchoInv
  <2> SUFFICES ASSUME Init, TypeOK PROVE sends + Cardinality(Unagreed) <= changes
    BY PauseTypingInit DEF EchoInv, TypeInv
  <2>1. Unagreed = {}
    BY DEF Init, Unagreed
  <2>2. QED
    BY <2>1, FS_EmptySet DEF Init
<1>2. EchoInv /\ [Next]_vars /\ TypeOK' => EchoInv'
  <2> SUFFICES ASSUME EchoInv, [Next]_vars, TypeOK'
               PROVE  sends' + Cardinality(Unagreed') <= changes'
    BY DEF EchoInv
  <2>1. TypeOK /\ sends + Cardinality(Unagreed) <= changes
    BY DEF EchoInv
  <2>2. /\ IsFiniteSet(Unagreed) /\ Cardinality(Unagreed) \in Nat
        /\ IsFiniteSet(Unagreed') /\ Cardinality(Unagreed') \in Nat
    <3>1. Unagreed' \subseteq Player
      BY DEF Unagreed
    <3>2. QED
      BY <3>1, UnagreedFinite, FS_Subset, FS_CardinalityType
  <2>3. ASSUME NEW p \in Player, NEW isPaused \in Choices, ChangePause(p, isPaused)
        PROVE  sends' + Cardinality(Unagreed') <= changes'
    <3>1. Unagreed' \subseteq Unagreed \union {p}
      BY <2>1, <2>3 DEF ChangePause, TypeOK, Unagreed
    <3>2. /\ IsFiniteSet(Unagreed \union {p})
          /\ Cardinality(Unagreed \union {p})
               = IF p \in Unagreed THEN Cardinality(Unagreed) ELSE Cardinality(Unagreed) + 1
      BY <2>2, FS_AddElement
    <3>3. Cardinality(Unagreed') <= Cardinality(Unagreed \union {p})
      BY <3>1, <3>2, FS_Subset
    <3>4. sends' = sends /\ changes' = changes + 1
      BY <2>3 DEF ChangePause
    <3>5. QED
      BY <2>1, <2>2, <3>2, <3>3, <3>4 DEF TypeOK
  <2>4. ASSUME NEW p \in Player, Publish(p),
               ~ \E q \in Player, isPaused \in Choices : ChangePause(q, isPaused)
        PROVE  sends' + Cardinality(Unagreed') <= changes'
    <3>1. p \in Unagreed /\ p \notin Unagreed'
      BY <2>1, <2>4 DEF Publish, TypeOK, Unagreed
    <3>2. Unagreed' \subseteq Unagreed \ {p}
      BY <2>1, <2>4, <3>1, NoneAdded
    <3>3. IsFiniteSet(Unagreed \ {p}) /\ Cardinality(Unagreed \ {p}) = Cardinality(Unagreed) - 1
      BY <2>2, <3>1, FS_RemoveElement
    <3>4. Cardinality(Unagreed') <= Cardinality(Unagreed \ {p})
      BY <3>2, <3>3, FS_Subset
    <3>5. sends' = sends + 1 /\ changes' = changes
      BY <2>4 DEF Publish
    <3>6. QED
      BY <2>1, <2>2, <3>3, <3>4, <3>5 DEF TypeOK
  <2>5. ASSUME ~ \E p \in Player : Publish(p),
               ~ \E p \in Player, isPaused \in Choices : ChangePause(p, isPaused)
        PROVE  sends' + Cardinality(Unagreed') <= changes'
    <3>1. Cardinality(Unagreed') <= Cardinality(Unagreed)
      BY <2>1, <2>2, <2>5, NoneAdded, FS_Subset
    <3>2. sends' = sends /\ changes' = changes
      BY <2>5, CountersKept
    <3>3. QED
      BY <2>1, <2>2, <3>1, <3>2 DEF TypeOK
  <2>6. QED
    BY <2>3, <2>4, <2>5
<1>3. EchoInv => NoEcho
  BY UnagreedFinite DEF EchoInv, NoEcho, TypeOK
<1>4. QED
  BY <1>1, <1>2, <1>3, PauseTyping, PTL DEF Spec

-----------------------------------------------------------------------------
(* The players agree.                                                      *)

\* What q relays is still to reach p.
Owes(q, p) ==
    /\ p # q
    /\ \/ sending[q].step = "noted"
       \/ sending[q].step = "telling" /\ (p = Host \/ p \in sending[q].todo)

SyncOwed(p) == Owes(Host, p) /\ sending[Host].message.kind = "sync"

\* As long as no race was started, nobody hears of one.
NoResets ==
    resets = 0 => \A p \in Player :
        /\ ~resetDue[p]
        /\ sending[p].step # "idle" => sending[p].message.kind # "reset"
        /\ \A i \in DOMAIN inbox[p] : inbox[p][i].kind # "reset"

\* The host's frontend knows the setting, and nobody else announces one.
HostKnows ==
    /\ mode[Host] = session.mode
    /\ \A i \in DOMAIN inbox[Host] : inbox[Host][i].kind # "sync"
    /\ SyncBeingSent => sending[Host].message.mode = session.mode

\* Position s of an inbox is its last SyncPause, or 0 when it has none.
LastSync(box, s) ==
    /\ s = 0 \/ box[s].kind = "sync"
    /\ \A i \in s + 1..Len(box) : box[i].kind # "sync"

\* A frontend that has heard `heard` ends up with setting m.
EndsWith(box, heard, m) ==
    \A s \in 0..Len(box) : LastSync(box, s) => (IF s = 0 THEN heard ELSE box[s].mode) = m

ModesKnown ==
    \A c \in admitted : SyncOwed(c) \/ EndsWith(inbox[c], mode[c], session.mode)

\* Where only the host may pause, no client is listened to.
Hosted ==
    session.mode = "host only" /\ ~overtaken /\ resets = 0 =>
        /\ \A c \in Client : sending[c].step = "idle"
        /\ inbox[Host] = <<>>

Adopted(m) == m.kind = "pause" \/ (m.kind = "sync" /\ m.mode # "off")

\* A Pause of somebody else is on its way to the host, to be relayed to p.
Coming(p) == session.mode = "everyone" /\ \E c \in Client \ {p} : outbox[c] # <<>>

\* p is in state v, as far as agreed on, or will be when it has heard everything.
Follows(p, v) ==
    \/ \E q \in Player : Owes(q, p)
    \/ Coming(p)
    \/ IF inbox[p] = <<>> THEN synced[p] = v
       ELSE Adopted(inbox[p][Len(inbox[p])]) /\ inbox[p][Len(inbox[p])].paused = v

\* Everything on its way makes for one pause state, v.
Heading(v) ==
    /\ session.mode = "everyone" =>
            \A c \in Client : \A i \in DOMAIN outbox[c] : outbox[c][i] = v
    /\ session.paused = v \/ (session.mode = "everyone" /\ \E c \in Client : outbox[c] # <<>>)
    /\ \A q \in Player : sending[q].step # "idle" =>
            sending[q].message.paused = v /\ Adopted(sending[q].message)
    /\ \A p \in admitted \union {Host} : Follows(p, v)

\* What PausesAgree leaves out has not happened.
Orderly ==
    /\ resets = 0 /\ ~overtaken
    /\ session.mode = "host only" \/ (session.mode = "everyone" /\ ~crossed)

Heard == NoResets /\ HostKnows /\ ModesKnown /\ Hosted
AgreeInv == TypeInv /\ Heard /\ (Orderly => \E v \in BOOLEAN : Heading(v))

-----------------------------------------------------------------------------
(* What a frontend hears of the setting.                                   *)

LEMMA EndsWithSync ==
    ASSUME NEW box \in Seq(Message), NEW msg \in Message, msg.kind = "sync", NEW heard
    PROVE  EndsWith(Append(box, msg), heard, msg.mode)
<1> DEFINE d == Append(box, msg)
<1>1. Len(box) \in Nat /\ Len(d) = Len(box) + 1 /\ d[Len(d)] = msg
  OBVIOUS
<1> HIDE DEF d
<1>2. SUFFICES ASSUME NEW s \in 0..Len(d), LastSync(d, s)
               PROVE  s = Len(d)
  BY <1>1 DEF EndsWith, d
<1>3. QED
  BY <1>1, <1>2 DEF LastSync

LEMMA EndsWithOther ==
    ASSUME NEW box \in Seq(Message), NEW msg \in Message, msg.kind # "sync", NEW heard, NEW m,
           EndsWith(box, heard, m)
    PROVE  EndsWith(Append(box, msg), heard, m)
<1> DEFINE d == Append(box, msg)
<1>1. /\ Len(box) \in Nat /\ Len(d) = Len(box) + 1 /\ d[Len(d)] = msg
      /\ \A i \in 1..Len(box) : d[i] = box[i]
  OBVIOUS
<1> HIDE DEF d
<1>2. SUFFICES ASSUME NEW s \in 0..Len(d), LastSync(d, s)
               PROVE  (IF s = 0 THEN heard ELSE d[s].mode) = m
  BY DEF EndsWith, d
<1>3. s \in 0..Len(box)
  BY <1>1, <1>2 DEF LastSync
<1>4. LastSync(box, s)
  <2>1. ASSUME NEW i \in s + 1..Len(box) PROVE box[i].kind # "sync"
    <3>1. i \in 1..Len(box) /\ i \in s + 1..Len(d)
      BY <1>1, <1>3
    <3>2. QED
      BY <1>1, <1>2, <3>1 DEF LastSync
  <2>2. QED
    BY <1>1, <1>2, <1>3, <2>1 DEF LastSync
<1>5. QED
  BY <1>1, <1>3, <1>4 DEF EndsWith

\* The next event: a SyncPause is heard.
LEMMA EndsWithTail ==
    ASSUME NEW box \in Seq(Message), box # <<>>, NEW heard, NEW m, EndsWith(box, heard, m)
    PROVE  EndsWith(Tail(box), IF Head(box).kind = "sync" THEN Head(box).mode ELSE heard, m)
<1> DEFINE d == Tail(box)
           h == IF Head(box).kind = "sync" THEN Head(box).mode ELSE heard
<1>1. /\ Len(box) \in Nat \ {0} /\ Len(d) = Len(box) - 1 /\ Head(box) = box[1]
      /\ \A i \in 1..Len(d) : d[i] = box[i + 1]
  OBVIOUS
<1> HIDE DEF d
<1>2. SUFFICES ASSUME NEW s \in 0..Len(d), LastSync(d, s)
               PROVE  (IF s = 0 THEN h ELSE d[s].mode) = m
  BY DEF EndsWith, d
<1>3. ASSUME NEW i \in (s + 1) + 1..Len(box) PROVE box[i].kind # "sync"
  <2>1. i - 1 \in 1..Len(d) /\ i - 1 \in s + 1..Len(d) /\ (i - 1) + 1 = i
    BY <1>1
  <2>2. d[i - 1].kind # "sync"
    BY <1>2, <2>1 DEF LastSync
  <2>3. QED
    BY <1>1, <2>1, <2>2
<1>4. CASE s # 0 \/ Head(box).kind = "sync"
  <2>1. box[s + 1].kind = "sync"
    BY <1>1, <1>2, <1>4 DEF LastSync
  <2>2. s + 1 \in 0..Len(box) /\ s + 1 # 0 /\ LastSync(box, s + 1)
    BY <1>1, <1>3, <2>1 DEF LastSync
  <2>3. box[s + 1].mode = m
    BY <2>2 DEF EndsWith
  <2>4. QED
    BY <1>1, <1>4, <2>3
<1>5. CASE s = 0 /\ Head(box).kind # "sync"
  <2>1. ASSUME NEW i \in 0 + 1..Len(box) PROVE box[i].kind # "sync"
    BY <1>1, <1>3, <1>5
  <2>2. LastSync(box, 0) /\ 0 \in 0..Len(box)
    BY <1>1, <2>1 DEF LastSync
  <2>3. QED
    BY <1>5, <2>2 DEF EndsWith
<1>6. QED
  BY <1>4, <1>5

-----------------------------------------------------------------------------
(* What is heard, by the kind of step.                                     *)

\* What note_pause leaves behind.
LEMMA NotePauseDoes ==
    ASSUME TypeInv, NEW p \in Player, NEW isPaused \in BOOLEAN, NotePause(p, isPaused)
    PROVE  /\ session'.mode = session.mode
           /\ Counts(p) => /\ session'.paused = isPaused
                           /\ sending'[p].step = "noted"
                           /\ sending'[p].message = Pause(isPaused)
                           /\ \A q \in Player \ {p} : sending'[q] = sending[q]
           /\ ~Counts(p) => UNCHANGED <<session, sending>>
<1>1. /\ session \in [mode : Modes \union {"off"}, paused : BOOLEAN]
      /\ sending \in [Player -> [step : {"idle", "noted", "telling"}, message : Message,
                                 todo : SUBSET Client]]
  BY DEF TypeInv, TypeOK
<1>2. CASE Counts(p)
  BY <1>1, <1>2 DEF NotePause, Noted
<1>3. CASE ~Counts(p)
  BY <1>3 DEF NotePause
<1>4. QED
  BY <1>2, <1>3

\* What is appended to an inbox is its last message.
LEMMA Appended ==
    ASSUME NEW box \in Seq(Message), NEW msg \in Message
    PROVE  /\ Append(box, msg) # <<>>
           /\ Append(box, msg)[Len(Append(box, msg))] = msg
OBVIOUS

\* What is left of a queue keeps its order and its last entry.
LEMMA TailOf ==
    ASSUME NEW S, NEW box \in Seq(S), box # <<>>
    PROVE  /\ \A i \in DOMAIN Tail(box) : i + 1 \in DOMAIN box /\ Tail(box)[i] = box[i + 1]
           /\ Tail(box) = <<>> => Head(box) = box[Len(box)]
           /\ Tail(box) # <<>> => Tail(box)[Len(Tail(box))] = box[Len(box)]
<1>1. /\ Len(box) \in Nat \ {0} /\ Len(Tail(box)) = Len(box) - 1 /\ Head(box) = box[1]
      /\ \A i \in 1..Len(box) - 1 : Tail(box)[i] = box[i + 1]
  OBVIOUS
<1>2. DOMAIN box = 1..Len(box) /\ DOMAIN Tail(box) = 1..Len(box) - 1
  OBVIOUS
<1>3. Tail(box) = <<>> <=> Len(box) = 1
  <2>1. Tail(box) \in Seq(S)
    OBVIOUS
  <2>2. \A rest \in Seq(S) : rest = <<>> <=> Len(rest) = 0
    OBVIOUS
  <2>3. QED
    BY <1>1, <2>1, <2>2
<1>4. QED
  BY <1>1, <1>2, <1>3

\* A kind of message that is not in an inbox does not get there from elsewhere.
LEMMA KindAppended ==
    ASSUME NEW box \in Seq(Message), NEW msg \in Message, NEW kind, msg.kind # kind,
           \A i \in DOMAIN box : box[i].kind # kind
    PROVE  \A i \in DOMAIN Append(box, msg) : Append(box, msg)[i].kind # kind
<1> SUFFICES ASSUME NEW i \in DOMAIN Append(box, msg) PROVE Append(box, msg)[i].kind # kind
  OBVIOUS
<1>1. Len(box) \in Nat /\ DOMAIN box = 1..Len(box) /\ i \in 1..Len(box) + 1
  OBVIOUS
<1>2. CASE i = Len(box) + 1
  BY <1>1, <1>2
<1>3. CASE i # Len(box) + 1
  <2>1. i \in DOMAIN box /\ Append(box, msg)[i] = box[i]
    BY <1>1, <1>3
  <2>2. QED
    BY <2>1
<1>4. QED
  BY <1>2, <1>3

LEMMA KindTail ==
    ASSUME NEW box \in Seq(Message), box # <<>>, NEW kind,
           \A i \in DOMAIN box : box[i].kind # kind
    PROVE  \A i \in DOMAIN Tail(box) : Tail(box)[i].kind # kind
<1> SUFFICES ASSUME NEW i \in DOMAIN Tail(box) PROVE Tail(box)[i].kind # kind
  OBVIOUS
<1>1. i + 1 \in DOMAIN box /\ Tail(box)[i] = box[i + 1]
  OBVIOUS
<1>2. QED
  BY <1>1

\* While no race is started nobody hears of one.
LEMMA NoResetsKept ==
    ASSUME TypeInv, NoResets, [Next]_vars
    PROVE  NoResets'
<1> SUFFICES ASSUME resets' = 0, NEW e \in Player
             PROVE  /\ ~resetDue'[e]
                    /\ sending'[e].step # "idle" => sending'[e].message.kind # "reset"
                    /\ \A i \in DOMAIN inbox'[e] : inbox'[e][i].kind # "reset"
  BY DEF NoResets
<1>0. /\ resetDue \in [Player -> BOOLEAN]
      /\ inbox \in [Player -> Seq(Message)]
      /\ outbox \in [Client -> Seq(BOOLEAN)]
      /\ paused \in [Player -> BOOLEAN]
      /\ sending \in [Player -> [step : {"idle", "noted", "telling"}, message : Message,
                                 todo : SUBSET Client]]
      /\ resets \in Nat /\ Client \subseteq Player /\ Host \in Player
  BY DEF TypeInv, TypeOK, Player
<1> DEFINE Fine == /\ ~resetDue[e]
                   /\ sending[e].step # "idle" => sending[e].message.kind # "reset"
                   /\ \A i \in DOMAIN inbox[e] : inbox[e][i].kind # "reset"
<1>1. resets = 0 => Fine
  BY DEF NoResets
<1> HIDE DEF Fine
<1> USE DEF hostVars, wireVars, gameVars, countVars
<1>2. ASSUME NEW c \in Client, Join(c) PROVE Fine'
  <2>1. Fine /\ UNCHANGED <<resetDue, sending>>
    BY <1>1, <1>2 DEF Join
  <2>2. inbox'[e] = inbox[e] \/ inbox'[e] = <<Sync(session.mode, session.paused)>>
    BY <1>0, <1>2 DEF Join
  <2>3. QED
    BY <2>1, <2>2 DEF Fine, Sync
<1>3. ASSUME NEW c \in Client, PauseArrives(c) PROVE Fine'
  <2>1. Fine /\ UNCHANGED <<resetDue, inbox>>
    BY <1>1, <1>3 DEF PauseArrives
  <2>2. NotePause(c, Head(outbox[c])) /\ Head(outbox[c]) \in BOOLEAN /\ c \in Player
    BY <1>0, <1>3 DEF PauseArrives
  <2>3. sending'[e] = sending[e] \/ sending'[e].message.kind = "pause"
    BY <1>0, <2>2, NotePauseDoes, Constructors
  <2>4. QED
    BY <2>1, <2>3 DEF Fine
<1>4. ASSUME NEW p \in Player, LookUp(p) PROVE Fine'
  <2>1. Fine /\ UNCHANGED <<resetDue, inbox>>
    BY <1>1, <1>4 DEF LookUp
  <2>2. /\ sending'[e].message = sending[e].message
        /\ sending[e].step = "idle" => sending'[e].step = "idle"
    BY <1>0, <1>4 DEF LookUp
  <2>3. QED
    BY <2>1, <2>2 DEF Fine
<1>5. ASSUME NEW p \in Player, NEW c \in Client, TellOne(p, c) PROVE Fine'
  <2>1. Fine /\ UNCHANGED resetDue /\ sending[p].message \in Message
        /\ sending[p].message.kind # "reset"
    BY <1>0, <1>1, <1>5 DEF TellOne, NoResets
  <2>2. sending'[e].message = sending[e].message /\ sending'[e].step = sending[e].step
    BY <1>0, <1>5 DEF TellOne
  <2>3. inbox'[e] = inbox[e] \/ inbox'[e] = Append(inbox[e], sending[p].message)
    BY <1>0, <1>5 DEF TellOne
  <2>4. \A i \in DOMAIN inbox'[e] : inbox'[e][i].kind # "reset"
    <3>1. inbox[e] \in Seq(Message) /\ \A i \in DOMAIN inbox[e] : inbox[e][i].kind # "reset"
      BY <1>0, <2>1 DEF Fine
    <3>2. \A i \in DOMAIN Append(inbox[e], sending[p].message) :
            Append(inbox[e], sending[p].message)[i].kind # "reset"
      BY <2>1, <3>1, KindAppended
    <3>3. QED
      BY <2>3, <3>1, <3>2
  <2>5. QED
    BY <2>1, <2>2, <2>4 DEF Fine
<1>6. ASSUME NEW p \in Player, TellHost(p) PROVE Fine'
  <2>1. Fine /\ UNCHANGED resetDue /\ sending[p].message \in Message
        /\ sending[p].message.kind # "reset"
    BY <1>0, <1>1, <1>6 DEF TellHost, NoResets
  <2>2. sending'[e] = sending[e] \/ sending'[e].step = "idle"
    BY <1>0, <1>6 DEF TellHost, Idle
  <2>3. inbox'[e] = inbox[e] \/ inbox'[e] = Append(inbox[e], sending[p].message)
    BY <1>0, <1>6 DEF TellHost
  <2>4. \A i \in DOMAIN inbox'[e] : inbox'[e][i].kind # "reset"
    <3>1. inbox[e] \in Seq(Message) /\ \A i \in DOMAIN inbox[e] : inbox[e][i].kind # "reset"
      BY <1>0, <2>1 DEF Fine
    <3>2. \A i \in DOMAIN Append(inbox[e], sending[p].message) :
            Append(inbox[e], sending[p].message)[i].kind # "reset"
      BY <2>1, <3>1, KindAppended
    <3>3. QED
      BY <2>3, <3>1, <3>2
  <2>5. QED
    BY <2>1, <2>2, <2>4 DEF Fine
<1>7. ASSUME NEW m \in Modes, PickMode(m) PROVE Fine'
  <2>1. Fine /\ UNCHANGED <<resetDue, inbox>>
    BY <1>1, <1>7 DEF PickMode
  <2>2. sending'[e] = sending[e] \/ sending'[e].message.kind = "sync"
    BY <1>0, <1>7 DEF PickMode, Noted, Sync
  <2>3. QED
    BY <2>1, <2>2 DEF Fine
<1>8. ASSUME NEW p \in Player, HandleEvent(p) PROVE Fine'
  <2>1. Fine /\ UNCHANGED sending /\ Head(inbox[p]).kind # "reset"
    <3>1. inbox[p] # <<>> /\ inbox[p] \in Seq(Message) /\ resets = 0
      BY <1>0, <1>8 DEF HandleEvent
    <3>2. 1 \in DOMAIN inbox[p] /\ Head(inbox[p]) = inbox[p][1]
      BY <3>1
    <3>3. inbox[p][1].kind # "reset"
      BY <3>1, <3>2 DEF NoResets
    <3>4. QED
      BY <1>1, <1>8, <3>1, <3>2, <3>3 DEF HandleEvent
  <2>2. resetDue' = resetDue
    BY <1>8, <2>1 DEF HandleEvent
  <2>3. inbox'[e] = inbox[e] \/ (inbox[e] # <<>> /\ inbox'[e] = Tail(inbox[e]))
    BY <1>0, <1>8 DEF HandleEvent
  <2>4. \A i \in DOMAIN inbox'[e] : inbox'[e][i].kind # "reset"
    BY <1>0, <2>1, <2>3, KindTail, ZenonT(30) DEF Fine
  <2>5. QED
    BY <2>1, <2>2, <2>4 DEF Fine
<1>9. ASSUME NEW p \in Player, ResetFires(p) PROVE Fine'
  <2>1. Fine /\ UNCHANGED <<inbox, sending>>
    BY <1>1, <1>9 DEF ResetFires
  <2>2. resetDue'[e] => resetDue[e]
    BY <1>0, <1>9 DEF ResetFires
  <2>3. QED
    BY <2>1, <2>2 DEF Fine
<1>10. ASSUME NEW p \in Player, Publish(p) PROVE Fine'
  <2>1. Fine /\ UNCHANGED <<resetDue, inbox>>
    BY <1>1, <1>10 DEF Publish
  <2>2. sending'[e] = sending[e] \/ sending'[e].message.kind = "pause"
    <3>1. CASE p = Host
      <4>1. NotePause(Host, paused[Host]) /\ paused[Host] \in BOOLEAN
        BY <1>0, <1>10, <3>1 DEF Publish
      <4>2. QED
        BY <1>0, <4>1, NotePauseDoes, Constructors
    <3>2. CASE p # Host
      BY <1>10, <3>2, Zenon DEF Publish
    <3>3. QED
      BY <3>1, <3>2
  <2>3. QED
    BY <2>1, <2>2 DEF Fine
<1>11. ASSUME StartRace PROVE FALSE
  BY <1>0, <1>11 DEF StartRace
<1>12. ASSUME NEW c \in Client, PutBack(c) PROVE Fine'
  BY <1>1, <1>12 DEF PutBack, Fine
<1>13. ASSUME NEW p \in Player, NEW isPaused \in Choices, ChangePause(p, isPaused) PROVE Fine'
  BY <1>1, <1>13 DEF ChangePause, Fine
<1>14. ASSUME UNCHANGED vars PROVE Fine'
  <2>1. Fine /\ UNCHANGED <<resetDue, inbox, sending>>
    BY <1>1, <1>14 DEF vars
  <2>2. QED
    BY <2>1 DEF Fine
<1>15. Fine'
  BY <1>2, <1>3, <1>4, <1>5, <1>6, <1>7, <1>8, <1>9, <1>10, <1>11, <1>12, <1>13, <1>14, Steps
<1>16. QED
  BY <1>15 DEF Fine

\* The setting is only picked while the host's frontend relays nothing.
LEMMA HostKnowsKept ==
    ASSUME TypeInv, HostKnows, [Next]_vars
    PROVE  HostKnows'
<1>0. /\ inbox \in [Player -> Seq(Message)]
      /\ outbox \in [Client -> Seq(BOOLEAN)]
      /\ mode \in [Player -> Modes \union {"off"}]
      /\ paused \in [Player -> BOOLEAN]
      /\ session \in [mode : Modes \union {"off"}, paused : BOOLEAN]
      /\ sending \in [Player -> [step : {"idle", "noted", "telling"}, message : Message,
                                 todo : SUBSET Client]]
      /\ Client \subseteq Player /\ Host \in Player /\ Host \notin Client
      /\ \A c \in Client : sending[c].step # "idle" => sending[c].message.kind = "pause"
  BY HostAssumption DEF TypeInv, TypeOK, Player
<1> DEFINE Unsynced == \A i \in DOMAIN inbox[Host] : inbox[Host][i].kind # "sync"
           Sent == SyncBeingSent => sending[Host].message.mode = session.mode
<1>1. Unsynced /\ Sent /\ mode[Host] = session.mode
  BY DEF HostKnows
<1>2. ASSUME mode'[Host] = mode[Host], session'.mode = session.mode,
             \/ sending'[Host] = sending[Host]
             \/ sending'[Host].step = "idle"
             \/ sending'[Host].message.kind # "sync"
             \/ sending[Host].step # "idle" /\ sending'[Host].message = sending[Host].message,
             \/ inbox'[Host] = inbox[Host]
             \/ inbox[Host] # <<>> /\ inbox'[Host] = Tail(inbox[Host])
             \/ \E msg \in Message : msg.kind # "sync" /\ inbox'[Host] = Append(inbox[Host], msg)
      PROVE  HostKnows'
  <2>1. inbox[Host] \in Seq(Message)
    BY <1>0
  <2>2. Unsynced'
    <3>1. \A i \in DOMAIN inbox[Host] : inbox[Host][i].kind # "sync"
      BY <1>1
    <3>2. CASE inbox'[Host] = inbox[Host]
      BY <3>1, <3>2
    <3>3. CASE inbox[Host] # <<>> /\ inbox'[Host] = Tail(inbox[Host])
      <4>1. \A i \in DOMAIN Tail(inbox[Host]) : Tail(inbox[Host])[i].kind # "sync"
        BY <2>1, <3>1, <3>3, KindTail
      <4>2. QED
        BY <3>3, <4>1
    <3>4. ASSUME NEW msg \in Message, msg.kind # "sync", inbox'[Host] = Append(inbox[Host], msg)
          PROVE  Unsynced'
      <4>1. \A i \in DOMAIN Append(inbox[Host], msg) : Append(inbox[Host], msg)[i].kind # "sync"
        BY <2>1, <3>1, <3>4, KindAppended
      <4>2. QED
        BY <3>4, <4>1
    <3>5. QED
      BY <1>2, <3>2, <3>3, <3>4
  <2>3. Sent'
    BY <1>1, <1>2 DEF SyncBeingSent
  <2>4. QED
    BY <1>1, <1>2, <2>2, <2>3 DEF HostKnows
<1> HIDE DEF Unsynced, Sent
<1> USE DEF hostVars, wireVars, gameVars, countVars
<1>3. ASSUME NEW c \in Client, Join(c) PROVE HostKnows'
  BY <1>0, <1>2, <1>3 DEF Join
<1>4. ASSUME NEW c \in Client, PauseArrives(c) PROVE HostKnows'
  <2>1. NotePause(c, Head(outbox[c])) /\ Head(outbox[c]) \in BOOLEAN /\ c \in Player /\ c # Host
    BY <1>0, <1>4 DEF PauseArrives
  <2>2. session'.mode = session.mode /\ sending'[Host] = sending[Host]
    BY <1>0, <2>1, NotePauseDoes
  <2>3. QED
    BY <1>2, <1>4, <2>2 DEF PauseArrives
<1>5. ASSUME NEW p \in Player, LookUp(p) PROVE HostKnows'
  <2>1. \/ sending'[Host] = sending[Host]
        \/ sending[Host].step # "idle" /\ sending'[Host].message = sending[Host].message
    BY <1>0, <1>5 DEF LookUp
  <2>2. QED
    BY <1>2, <1>5, <2>1 DEF LookUp
<1>6. ASSUME NEW p \in Player, NEW c \in Client, TellOne(p, c) PROVE HostKnows'
  <2>1. \/ sending'[Host] = sending[Host]
        \/ sending[Host].step # "idle" /\ sending'[Host].message = sending[Host].message
    BY <1>0, <1>6 DEF TellOne
  <2>2. inbox'[Host] = inbox[Host]
    BY <1>0, <1>6 DEF TellOne
  <2>3. QED
    BY <1>2, <1>6, <2>1, <2>2 DEF TellOne
<1>7. ASSUME NEW p \in Player, TellHost(p) PROVE HostKnows'
  <2>1. sending'[Host] = sending[Host] \/ sending'[Host].step = "idle"
    BY <1>0, <1>7 DEF TellHost, Idle
  <2>2. \/ inbox'[Host] = inbox[Host]
        \/ \E msg \in Message : msg.kind # "sync" /\ inbox'[Host] = Append(inbox[Host], msg)
    <3>1. CASE p = Host
      <4>1. CASE sending[p].message = ResetAll
        <5>1. ResetAll \in Message /\ ResetAll.kind # "sync"
          BY Constructors DEF ResetAll
        <5>2. inbox'[Host] = Append(inbox[Host], ResetAll)
          BY <1>0, <1>7, <4>1 DEF TellHost
        <5>3. QED
          BY <5>1, <5>2
      <4>2. CASE sending[p].message # ResetAll
        BY <1>7, <3>1, <4>2 DEF TellHost
      <4>3. QED
        BY <4>1, <4>2
    <3>2. CASE p # Host
      <4>1. sending[p].message \in Message /\ sending[p].message.kind # "sync"
        BY <1>0, <1>7, <3>2 DEF TellHost, Player
      <4>2. inbox'[Host] = Append(inbox[Host], sending[p].message)
        BY <1>0, <1>7, <3>2 DEF TellHost
      <4>3. QED
        BY <4>1, <4>2
    <3>3. QED
      BY <3>1, <3>2
  <2>3. QED
    BY <1>2, <1>7, <2>1, <2>2 DEF TellHost
<1>8. ASSUME NEW m \in Modes, PickMode(m) PROVE HostKnows'
  <2>1. mode'[Host] = m /\ session'.mode = m /\ inbox' = inbox
    BY <1>0, <1>8 DEF PickMode
  <2>2. sending'[Host].message.mode = m
    BY <1>0, <1>8 DEF PickMode, Noted, Sync
  <2>3. QED
    BY <1>1, <2>1, <2>2 DEF HostKnows, Unsynced
<1>9. ASSUME NEW p \in Player, HandleEvent(p) PROVE HostKnows'
  <2>1. CASE p = Host
    <3>1. inbox[Host] # <<>> /\ inbox[Host] \in Seq(Message)
      BY <1>0, <1>9, <2>1 DEF HandleEvent
    <3>2. Head(inbox[Host]).kind # "sync"
      BY <1>1, <3>1 DEF Unsynced
    <3>3. mode' = mode /\ UNCHANGED <<session, sending>> /\ inbox'[Host] = Tail(inbox[Host])
      BY <1>0, <1>9, <2>1, <3>2 DEF HandleEvent
    <3>4. QED
      BY <1>2, <3>1, <3>3
  <2>2. CASE p # Host
    <3>1. mode'[Host] = mode[Host] /\ inbox'[Host] = inbox[Host] /\ UNCHANGED <<session, sending>>
      BY <1>0, <1>9, <2>2 DEF HandleEvent
    <3>2. QED
      BY <1>2, <3>1
  <2>3. QED
    BY <2>1, <2>2
<1>10. ASSUME NEW p \in Player, Publish(p) PROVE HostKnows'
  <2>1. UNCHANGED <<mode, inbox>>
    BY <1>10 DEF Publish
  <2>2. /\ session'.mode = session.mode
        /\ sending'[Host] = sending[Host] \/ sending'[Host].message.kind # "sync"
    <3>1. CASE p = Host
      <4>1. NotePause(Host, paused[Host]) /\ paused[Host] \in BOOLEAN
        BY <1>0, <1>10, <3>1 DEF Publish
      <4>2. QED
        BY <1>0, <4>1, NotePauseDoes, Constructors
    <3>2. CASE p # Host
      <4>1. UNCHANGED <<session, sending>>
        BY <1>10, <3>2, Zenon DEF Publish
      <4>2. QED
        BY <4>1
    <3>3. QED
      BY <3>1, <3>2
  <2>3. QED
    BY <1>2, <2>1, <2>2
<1>11. ASSUME StartRace PROVE HostKnows'
  <2>1. sending'[Host].message.kind # "sync"
    BY <1>0, <1>11 DEF StartRace, Noted, ResetAll
  <2>2. QED
    BY <1>2, <1>11, <2>1 DEF StartRace
<1>12. ASSUME NEW p \in Player, ResetFires(p) PROVE HostKnows'
  BY <1>2, <1>12 DEF ResetFires
<1>13. ASSUME NEW c \in Client, PutBack(c) PROVE HostKnows'
  BY <1>2, <1>13 DEF PutBack
<1>14. ASSUME NEW p \in Player, NEW isPaused \in Choices, ChangePause(p, isPaused)
       PROVE  HostKnows'
  BY <1>2, <1>14 DEF ChangePause
<1>15. ASSUME UNCHANGED vars PROVE HostKnows'
  <2>1. UNCHANGED <<mode, session, sending, inbox>>
    BY <1>15 DEF vars
  <2>2. QED
    BY <1>2, <2>1
<1>16. QED
  BY <1>3, <1>4, <1>5, <1>6, <1>7, <1>8, <1>9, <1>10, <1>11, <1>12, <1>13, <1>14, <1>15, Steps

\* Once the setting says so, no client's Pause is relayed any more.
LEMMA HostedKept ==
    ASSUME TypeInv, NoResets, Hosted, [Next]_vars
    PROVE  Hosted'
<1>0. /\ inbox \in [Player -> Seq(Message)]
      /\ outbox \in [Client -> Seq(BOOLEAN)]
      /\ paused \in [Player -> BOOLEAN]
      /\ session \in [mode : Modes \union {"off"}, paused : BOOLEAN]
      /\ sending \in [Player -> [step : {"idle", "noted", "telling"}, message : Message,
                                 todo : SUBSET Client]]
      /\ Client \subseteq Player /\ Host \in Player /\ Host \notin Client
      /\ overtaken \in BOOLEAN /\ resets \in Nat
  BY HostAssumption DEF TypeInv, TypeOK, Player
<1> DEFINE Deaf == /\ \A c \in Client : sending[c].step = "idle"
                   /\ inbox[Host] = <<>>
<1>1. SUFFICES ASSUME session'.mode = "host only", ~overtaken', resets' = 0 PROVE Deaf'
  BY DEF Hosted
<1>2. session.mode = "host only" /\ ~overtaken /\ resets = 0 => Deaf
  BY DEF Hosted
<1>3. ASSUME session'.mode = session.mode, resets' = resets, overtaken' = overtaken,
             Deaf => Deaf'
      PROVE  Deaf'
  BY <1>1, <1>2, <1>3
<1> HIDE DEF Deaf
<1> USE DEF hostVars, wireVars, gameVars, countVars
<1>4. ASSUME NEW c \in Client, Join(c) PROVE Deaf'
  BY <1>0, <1>3, <1>4 DEF Join, Deaf
<1>5. ASSUME NEW c \in Client, PauseArrives(c) PROVE Deaf'
  <2>1. NotePause(c, Head(outbox[c])) /\ Head(outbox[c]) \in BOOLEAN /\ c \in Player /\ c # Host
    BY <1>0, <1>5 DEF PauseArrives
  <2>2. session.mode = "host only" /\ ~overtaken /\ resets = 0
    BY <1>0, <1>1, <1>5, <2>1, NotePauseDoes DEF PauseArrives
  <2>3. ~Counts(c)
    BY <2>1, <2>2 DEF Counts
  <2>4. QED
    BY <1>2, <1>5, <2>1, <2>2, <2>3, NotePauseDoes DEF PauseArrives, Deaf
<1>6. ASSUME NEW p \in Player, LookUp(p) PROVE Deaf'
  BY <1>0, <1>3, <1>6 DEF LookUp, Deaf
<1>7. ASSUME NEW p \in Player, NEW c \in Client, TellOne(p, c) PROVE Deaf'
  BY <1>0, <1>3, <1>7 DEF TellOne, Deaf
<1>8. ASSUME NEW p \in Player, TellHost(p) PROVE Deaf'
  <2>1. UNCHANGED <<session, overtaken, resets>>
    BY <1>8 DEF TellHost
  <2>2. Deaf
    BY <1>1, <1>2, <2>1
  <2>3. p = Host
    BY <1>8, <2>2 DEF TellHost, Deaf, Player
  <2>4. sending[p].message # ResetAll
    <3>1. sending[p].step # "idle" /\ resets = 0
      BY <1>1, <1>8, <2>1 DEF TellHost
    <3>2. sending[p].message.kind # "reset" /\ ResetAll.kind = "reset"
      BY <3>1 DEF NoResets, ResetAll
    <3>3. QED
      BY <3>2
  <2>5. inbox' = inbox /\ \A c \in Client : sending'[c] = sending[c]
    BY <1>0, <1>8, <2>3, <2>4 DEF TellHost
  <2>6. QED
    BY <2>2, <2>5 DEF Deaf
<1>9. ASSUME NEW m \in Modes, PickMode(m) PROVE Deaf'
  <2>1. inbox[Host] = <<>> /\ \A c \in Client : sending[c].step = "idle"
    BY <1>1, <1>9 DEF PickMode
  <2>2. inbox' = inbox /\ \A c \in Client : sending'[c] = sending[c]
    BY <1>0, <1>9 DEF PickMode
  <2>3. QED
    BY <2>1, <2>2 DEF Deaf
<1>10. ASSUME NEW p \in Player, HandleEvent(p) PROVE Deaf'
  <2>1. Deaf /\ UNCHANGED sending
    BY <1>1, <1>2, <1>10 DEF HandleEvent
  <2>2. inbox'[Host] = <<>>
    BY <1>0, <1>10, <2>1 DEF HandleEvent, Deaf
  <2>3. QED
    BY <2>1, <2>2 DEF Deaf
<1>11. ASSUME NEW p \in Player, Publish(p) PROVE Deaf'
  <2>1. UNCHANGED <<inbox, overtaken, resets>>
    BY <1>11 DEF Publish
  <2>2. /\ session'.mode = session.mode
        /\ \A c \in Client : sending'[c] = sending[c]
    <3>1. CASE p = Host
      <4>1. NotePause(Host, paused[Host]) /\ paused[Host] \in BOOLEAN
        BY <1>0, <1>11, <3>1 DEF Publish
      <4>2. QED
        BY <1>0, <4>1, NotePauseDoes
    <3>2. CASE p # Host
      <4>1. UNCHANGED <<session, sending>>
        BY <1>11, <3>2, Zenon DEF Publish
      <4>2. QED
        BY <4>1
    <3>3. QED
      BY <3>1, <3>2
  <2>3. QED
    BY <1>3, <2>1, <2>2 DEF Deaf
<1>12. ASSUME StartRace PROVE Deaf'
  <2>1. resets' = resets + 1 /\ resets' = 0 /\ resets \in Nat
    BY <1>0, <1>1, <1>12 DEF StartRace
  <2>2. FALSE
    BY <2>1
  <2>3. QED
    BY <2>2
<1>13. ASSUME NEW p \in Player, ResetFires(p) PROVE Deaf'
  BY <1>3, <1>13 DEF ResetFires, Deaf
<1>14. ASSUME NEW c \in Client, PutBack(c) PROVE Deaf'
  BY <1>3, <1>14 DEF PutBack, Deaf
<1>15. ASSUME NEW p \in Player, NEW isPaused \in Choices, ChangePause(p, isPaused) PROVE Deaf'
  BY <1>3, <1>15 DEF ChangePause, Deaf
<1>16. ASSUME UNCHANGED vars PROVE Deaf'
  <2>1. UNCHANGED <<session, sending, inbox, overtaken, resets>>
    BY <1>16 DEF vars
  <2>2. QED
    BY <1>3, <2>1 DEF Deaf
<1>17. Deaf'
  BY <1>4, <1>5, <1>6, <1>7, <1>8, <1>9, <1>10, <1>11, <1>12, <1>13, <1>14, <1>15, <1>16, Steps
<1>18. QED
  BY <1>17 DEF Deaf

\* A SyncPause goes to all who are connected, and those who join meanwhile are told.
LEMMA ModesKept ==
    ASSUME TypeInv, HostKnows, ModesKnown, [Next]_vars
    PROVE  ModesKnown'
<1>0. /\ inbox \in [Player -> Seq(Message)]
      /\ outbox \in [Client -> Seq(BOOLEAN)]
      /\ mode \in [Player -> Modes \union {"off"}]
      /\ paused \in [Player -> BOOLEAN]
      /\ session \in [mode : Modes \union {"off"}, paused : BOOLEAN]
      /\ sending \in [Player -> [step : {"idle", "noted", "telling"}, message : Message,
                                 todo : SUBSET Client]]
      /\ Client \subseteq Player /\ Host \in Player /\ Host \notin Client
      /\ admitted \subseteq Client
      /\ \A c \in Client : sending[c].step # "idle" => sending[c].message.kind = "pause"
  BY HostAssumption DEF TypeInv, TypeOK, Player
<1> DEFINE Knows(e) == SyncOwed(e) \/ EndsWith(inbox[e], mode[e], session.mode)
<1>1. \A e \in admitted : Knows(e)
  BY DEF ModesKnown
<1>2. SUFFICES ASSUME NEW e \in admitted' PROVE Knows(e)'
  BY DEF ModesKnown
<1>3. ASSUME e \in admitted, session'.mode = session.mode, UNCHANGED <<inbox[e], mode[e]>>,
             SyncOwed(e) => SyncOwed(e)'
      PROVE  Knows(e)'
  BY <1>1, <1>3
<1>4. UNCHANGED sending[Host] /\ SyncOwed(e) => SyncOwed(e)'
  BY DEF SyncOwed, Owes
<1> HIDE DEF Knows
<1> USE DEF hostVars, wireVars, gameVars, countVars
<1>5. ASSUME NEW c \in Client, Join(c) PROVE Knows(e)'
  <2>1. CASE e = c
    <3>1. /\ inbox'[e] = <<Sync(session.mode, session.paused)>> /\ session' = session
          /\ Sync(session.mode, session.paused) \in Message
      BY <1>0, <1>5, <2>1, Constructors DEF Join
    <3>2. inbox'[e] = Append(<<>>, Sync(session.mode, session.paused)) /\ <<>> \in Seq(Message)
      BY <3>1
    <3>3. /\ Sync(session.mode, session.paused).kind = "sync"
          /\ Sync(session.mode, session.paused).mode = session.mode
      BY DEF Sync
    <3>4. EndsWith(inbox'[e], mode'[e], session.mode)
      BY <3>1, <3>2, <3>3, EndsWithSync
    <3>5. QED
      BY <3>1, <3>4 DEF Knows
  <2>2. CASE e # c
    <3>1. /\ e \in admitted /\ UNCHANGED <<session, sending, mode>>
          /\ inbox'[e] = inbox[e]
      BY <1>0, <1>5, <2>2 DEF Join
    <3>2. QED
      BY <1>3, <1>4, <3>1
  <2>3. QED
    BY <2>1, <2>2
<1>6. ASSUME NEW c \in Client, PauseArrives(c) PROVE Knows(e)'
  <2>1. /\ NotePause(c, Head(outbox[c])) /\ Head(outbox[c]) \in BOOLEAN
        /\ c \in Player /\ c # Host
    BY <1>0, <1>6 DEF PauseArrives
  <2>2. session'.mode = session.mode /\ sending'[Host] = sending[Host]
    BY <1>0, <2>1, NotePauseDoes, SMTT(30)
  <2>3. e \in admitted /\ UNCHANGED <<inbox, mode>>
    BY <1>6 DEF PauseArrives
  <2>4. QED
    BY <1>3, <1>4, <2>2, <2>3
<1>7. ASSUME NEW p \in Player, LookUp(p) PROVE Knows(e)'
  <2>1. e \in admitted /\ UNCHANGED <<session, inbox, mode>>
    BY <1>7 DEF LookUp
  <2>2. SyncOwed(e) => SyncOwed(e)'
    <3>1. CASE p = Host
      <4>1. /\ sending[Host].step = "noted" /\ sending'[Host].step = "telling"
            /\ sending'[Host].todo = admitted \ {Host}
            /\ sending'[Host].message = sending[Host].message
        BY <1>0, <1>7, <3>1 DEF LookUp
      <4>2. QED
        BY <1>0, <2>1, <4>1 DEF SyncOwed, Owes
    <3>2. CASE p # Host
      <4>1. sending'[Host] = sending[Host]
        BY <1>0, <1>7, <3>2 DEF LookUp
      <4>2. QED
        BY <1>4, <4>1
    <3>3. QED
      BY <3>1, <3>2
  <2>3. QED
    BY <1>3, <2>1, <2>2
<1>8. ASSUME NEW p \in Player, NEW c \in Client, TellOne(p, c) PROVE Knows(e)'
  <2>1. /\ e \in admitted /\ e \in Player /\ UNCHANGED <<session, mode>>
        /\ sending[p].step = "telling"
        /\ sending' = [sending EXCEPT ![p].todo = @ \ {c}]
        /\ inbox' = [inbox EXCEPT ![c] = Append(@, sending[p].message)]
    BY <1>0, <1>8 DEF TellOne
  <2>2. e # c /\ SyncOwed(e) => SyncOwed(e)'
    <3>1. /\ sending'[Host].message = sending[Host].message
          /\ sending'[Host].step = sending[Host].step
          /\ e # c /\ e \in sending[Host].todo => e \in sending'[Host].todo
      BY <1>0, <2>1
    <3>2. QED
      BY <3>1 DEF SyncOwed, Owes
  <2>3. CASE e # c
    <3>1. inbox'[e] = inbox[e]
      BY <1>0, <2>1, <2>3
    <3>2. QED
      BY <1>3, <2>1, <2>2, <2>3, <3>1
  <2>4. CASE e = c /\ sending[p].message.kind = "sync"
    <3>1. p = Host /\ sending[p].message \in Message
      BY <1>0, <2>1, <2>4 DEF Player
    <3>2. sending[p].message.mode = session.mode
      BY <2>1, <2>4, <3>1 DEF HostKnows, SyncBeingSent
    <3>3. inbox'[e] = Append(inbox[e], sending[p].message) /\ inbox[e] \in Seq(Message)
      BY <1>0, <2>1, <2>4
    <3>4. EndsWith(inbox'[e], mode[e], session.mode)
      BY <2>4, <3>1, <3>2, <3>3, EndsWithSync
    <3>5. QED
      BY <2>1, <3>4 DEF Knows
  <2>5. CASE e = c /\ sending[p].message.kind # "sync"
    <3>1. inbox'[e] = Append(inbox[e], sending[p].message) /\ inbox[e] \in Seq(Message)
      BY <1>0, <2>1, <2>5
    <3>2. CASE EndsWith(inbox[e], mode[e], session.mode)
      <4>1. sending[p].message \in Message
        BY <1>0
      <4>2. EndsWith(inbox'[e], mode[e], session.mode)
        BY <2>5, <3>1, <3>2, <4>1, EndsWithOther
      <4>3. QED
        BY <2>1, <4>2 DEF Knows
    <3>3. CASE SyncOwed(e)
      <4>1. p # Host
        BY <2>5, <3>3 DEF SyncOwed
      <4>2. sending'[Host] = sending[Host]
        BY <1>0, <2>1, <4>1
      <4>3. QED
        BY <1>4, <3>3, <4>2 DEF Knows
    <3>4. QED
      BY <1>1, <2>1, <3>2, <3>3 DEF Knows
  <2>6. QED
    BY <2>3, <2>4, <2>5
<1>9. ASSUME NEW p \in Player, TellHost(p) PROVE Knows(e)'
  <2>1. e \in admitted /\ e # Host /\ UNCHANGED <<session, mode>>
    BY <1>0, <1>9 DEF TellHost
  <2>2. inbox'[e] = inbox[e]
    BY <1>0, <1>9, <2>1 DEF TellHost
  <2>3. SyncOwed(e) => SyncOwed(e)'
    <3>1. CASE p = Host
      BY <1>9, <2>1, <3>1 DEF TellHost, SyncOwed, Owes
    <3>2. CASE p # Host
      <4>1. sending'[Host] = sending[Host]
        BY <1>0, <1>9, <3>2 DEF TellHost
      <4>2. QED
        BY <1>4, <4>1
    <3>3. QED
      BY <3>1, <3>2
  <2>4. QED
    BY <1>3, <2>1, <2>2, <2>3
<1>10. ASSUME NEW m \in Modes, PickMode(m) PROVE Knows(e)'
  <2>1. e \in admitted /\ sending' = [sending EXCEPT ![Host] = Noted(Sync(m, paused[Host]))]
    BY <1>10 DEF PickMode
  <2>2. sending'[Host].step = "noted" /\ sending'[Host].message.kind = "sync"
    BY <1>0, <2>1 DEF Noted, Sync
  <2>3. e # Host
    BY <1>0, <2>1
  <2>4. QED
    BY <2>2, <2>3 DEF Knows, SyncOwed, Owes
<1>11. ASSUME NEW p \in Player, HandleEvent(p) PROVE Knows(e)'
  <2>1. e \in admitted /\ e \in Player /\ UNCHANGED <<session, sending>>
    BY <1>0, <1>11 DEF HandleEvent
  <2>2. CASE e # p
    <3>1. inbox'[e] = inbox[e] /\ mode'[e] = mode[e]
      BY <1>0, <1>11, <2>1, <2>2 DEF HandleEvent
    <3>2. QED
      BY <1>3, <1>4, <2>1, <3>1
  <2>3. CASE e = p
    <3>1. /\ inbox[e] # <<>> /\ inbox[e] \in Seq(Message) /\ inbox'[e] = Tail(inbox[e])
          /\ mode'[e] = IF Head(inbox[e]).kind = "sync" THEN Head(inbox[e]).mode ELSE mode[e]
      BY <1>0, <1>11, <2>1, <2>3 DEF HandleEvent
    <3>2. EndsWith(inbox[e], mode[e], session.mode)
            => EndsWith(inbox'[e], mode'[e], session.mode)
      BY <3>1, EndsWithTail
    <3>3. SyncOwed(e) => SyncOwed(e)'
      BY <1>4, <2>1
    <3>4. QED
      BY <1>1, <2>1, <3>2, <3>3 DEF Knows
  <2>4. QED
    BY <2>2, <2>3
<1>12. ASSUME NEW p \in Player, Publish(p) PROVE Knows(e)'
  <2>1. e \in admitted /\ UNCHANGED <<inbox, mode>>
    BY <1>12 DEF Publish
  <2>2. /\ session'.mode = session.mode
        /\ SyncOwed(e) => SyncOwed(e)'
    <3>1. CASE p = Host
      <4>1. NotePause(Host, paused[Host]) /\ paused[Host] \in BOOLEAN
        BY <1>0, <1>12, <3>1 DEF Publish
      <4>2. sending[Host].step = "idle"
        BY <1>0, <1>12, <3>1 DEF Publish, Ready
      <4>3. QED
        BY <1>0, <4>1, <4>2, NotePauseDoes DEF SyncOwed, Owes
    <3>2. CASE p # Host
      <4>1. UNCHANGED <<session, sending>>
        BY <1>12, <3>2, Zenon DEF Publish
      <4>2. QED
        BY <1>4, <4>1
    <3>3. QED
      BY <3>1, <3>2
  <2>3. QED
    BY <1>3, <2>1, <2>2
<1>13. ASSUME StartRace PROVE Knows(e)'
  <2>1. /\ e \in admitted /\ UNCHANGED <<session, inbox, mode>>
        /\ sending[Host].step = "idle"
    BY <1>0, <1>13 DEF StartRace, Ready
  <2>2. QED
    BY <1>3, <2>1 DEF SyncOwed, Owes
<1>14. ASSUME NEW p \in Player, ResetFires(p) PROVE Knows(e)'
  BY <1>3, <1>4, <1>14 DEF ResetFires
<1>15. ASSUME NEW c \in Client, PutBack(c) PROVE Knows(e)'
  BY <1>3, <1>4, <1>15 DEF PutBack
<1>16. ASSUME NEW p \in Player, NEW isPaused \in Choices, ChangePause(p, isPaused)
       PROVE  Knows(e)'
  BY <1>3, <1>4, <1>16 DEF ChangePause
<1>17. ASSUME UNCHANGED vars PROVE Knows(e)'
  <2>1. UNCHANGED <<session, admitted, sending, inbox, mode>>
    BY <1>17 DEF vars
  <2>2. QED
    BY <1>3, <1>4, <2>1
<1>18. Knows(e)'
  BY <1>5, <1>6, <1>7, <1>8, <1>9, <1>10, <1>11, <1>12, <1>13, <1>14, <1>15, <1>16, <1>17, Steps
<1>19. QED
  BY <1>18 DEF Knows

-----------------------------------------------------------------------------
(* Where everybody is heading, by the kind of step.                        *)

LEMMA HeadingTypes ==
    ASSUME TypeInv
    PROVE  /\ inbox \in [Player -> Seq(Message)]
           /\ outbox \in [Client -> Seq(BOOLEAN)]
           /\ mode \in [Player -> Modes \union {"off"}]
           /\ paused \in [Player -> BOOLEAN] /\ synced \in [Player -> BOOLEAN]
           /\ session \in [mode : Modes \union {"off"}, paused : BOOLEAN]
           /\ sending \in [Player -> [step : {"idle", "noted", "telling"}, message : Message,
                                      todo : SUBSET Client]]
           /\ Client \subseteq Player /\ Host \in Player /\ Host \notin Client
           /\ admitted \subseteq Client
           /\ \A q \in Player : sending[q].todo \subseteq admitted
           /\ \A c \in Client \ admitted : outbox[c] = <<>>
           /\ \A c \in Client : sending[c].step # "idle" => sending[c].message.kind = "pause"
           /\ resetDue \in [Player -> BOOLEAN] /\ overtaken \in BOOLEAN /\ crossed \in BOOLEAN
           /\ resets \in Nat
BY HostAssumption DEF TypeInv, TypeOK, ToldAreAdmitted, Player

\* The host picks a setting: all are to follow it.
LEMMA PickHeads ==
    ASSUME TypeInv, Orderly', NEW m \in Modes, PickMode(m)
    PROVE  \E x \in BOOLEAN : Heading(x)'
<1>a. PICK v \in BOOLEAN : v = paused[Host]
  BY HeadingTypes
<1> DEFINE msg == Sync(m, v)
<1>0. /\ Host \in Player /\ Host \notin Client /\ admitted \subseteq Client
      /\ sending \in [Player -> [step : {"idle", "noted", "telling"}, message : Message,
                                 todo : SUBSET Client]]
      /\ synced \in [Player -> BOOLEAN] /\ outbox \in [Client -> Seq(BOOLEAN)]
      /\ Player = Client \union {Host}
  BY HeadingTypes DEF Player
<1>1. /\ session' = [mode |-> m, paused |-> v]
      /\ synced' = [synced EXCEPT ![Host] = v]
      /\ sending' = [sending EXCEPT ![Host] = Noted(msg)]
      /\ overtaken' = (overtaken \/ inbox[Host] # <<>>
                                 \/ \E c \in Client : sending[c].step # "idle")
      /\ crossed' = (crossed \/ \E c \in Client : outbox[c] # <<>>)
      /\ UNCHANGED <<admitted, inbox, outbox>>
  BY <1>a DEF PickMode
<1>2. msg.kind = "sync" /\ msg.mode = m /\ msg.paused = v
  BY DEF Sync
<1> HIDE DEF msg
<1>3. /\ m = "host only" \/ (m = "everyone" /\ \A c \in Client : outbox[c] = <<>>)
      /\ inbox[Host] = <<>> /\ \A c \in Client : sending[c].step = "idle"
  BY <1>1 DEF Orderly
<1>4. sending'[Host].step = "noted" /\ sending'[Host].message = msg
  BY <1>0, <1>1 DEF Noted
<1>5. session'.mode = "everyone" =>
            \A c \in Client : \A i \in DOMAIN outbox'[c] : outbox'[c][i] = v
  <2> SUFFICES ASSUME m = "everyone", NEW c \in Client, NEW i \in DOMAIN outbox[c] PROVE FALSE
    BY <1>1
  <2>1. QED
    BY <1>3
<1>6. ASSUME NEW q \in Player, sending'[q].step # "idle"
      PROVE  sending'[q].message.paused = v /\ Adopted(sending'[q].message)
  <2>1. q = Host
    <3>1. \A c \in Client : sending'[c] = sending[c]
      BY <1>0, <1>1
    <3>2. QED
      BY <1>0, <1>3, <1>6, <3>1
  <2>2. QED
    BY <1>2, <1>3, <1>4, <2>1 DEF Adopted
<1>7. ASSUME NEW p \in admitted' \union {Host} PROVE Follows(p, v)'
  <2>1. CASE p = Host
    <3>1. inbox'[Host] = <<>> /\ synced'[Host] = v
      BY <1>0, <1>1, <1>3
    <3>2. QED
      BY <2>1, <3>1 DEF Follows
  <2>2. CASE p # Host
    <3>1. Owes(Host, p)'
      BY <1>4, <2>2 DEF Owes
    <3>2. QED
      BY <1>0, <3>1 DEF Follows
  <2>3. QED
    BY <2>1, <2>2
<1>8. Heading(v)'
  BY <1>1, <1>5, <1>6, <1>7 DEF Heading
<1>9. QED
  BY <1>8

\* A player publishes its pause where no other is on its way: all are to follow it.
LEMMA PublishHeads ==
    ASSUME TypeInv, Heard, Orderly, Orderly', NEW v \in BOOLEAN, Heading(v),
           NEW e \in Player, Publish(e)
    PROVE  \E x \in BOOLEAN : Heading(x)'
<1>a. PICK w \in BOOLEAN : w = paused[e]
  BY HeadingTypes
<1>0. /\ Host \in Player /\ Host \notin Client /\ admitted \subseteq Client
      /\ sending \in [Player -> [step : {"idle", "noted", "telling"}, message : Message,
                                 todo : SUBSET Client]]
      /\ synced \in [Player -> BOOLEAN] /\ outbox \in [Client -> Seq(BOOLEAN)]
      /\ inbox \in [Player -> Seq(Message)]
      /\ Player = Client \union {Host}
      /\ \A c \in Client : sending[c].step # "idle" => sending[c].message.kind = "pause"
  BY HeadingTypes DEF Player
<1>1. /\ synced' = [synced EXCEPT ![e] = w]
      /\ mode[e] = "everyone" \/ (mode[e] = "host only" /\ e = Host)
      /\ crossed' = (crossed \/ OtherwiseComing(e))
      /\ UNCHANGED <<admitted, inbox, overtaken>>
      /\ Ready(e)
  BY <1>a, Zenon DEF Publish
<1>2. e = Host => NotePause(Host, w) /\ UNCHANGED outbox
  BY <1>a DEF Publish
<1>3. e # Host => /\ outbox' = [outbox EXCEPT ![e] = Append(@, w)]
                  /\ UNCHANGED <<session, sending>>
  BY <1>a, Zenon DEF Publish
<1>4. Pause(w).kind = "pause" /\ Pause(w).paused = w
  BY DEF Pause
<1>5. /\ mode[Host] = session.mode
      /\ \A c \in admitted : SyncOwed(c) \/ EndsWith(inbox[c], mode[c], session.mode)
  BY DEF Heard, HostKnows, ModesKnown
<1>6. e = Host \/ (e \in Client /\ e \in admitted)
  BY <1>0, <1>1 DEF Ready
<1>7. /\ session.mode = "everyone" =>
            \A c \in Client : \A i \in DOMAIN outbox[c] : outbox[c][i] = v
      /\ session.paused = v \/ (session.mode = "everyone" /\ \E c \in Client : outbox[c] # <<>>)
      /\ \A q \in Player : sending[q].step # "idle" =>
            sending[q].message.paused = v /\ Adopted(sending[q].message)
      /\ \A p \in admitted \union {Host} : Follows(p, v)
  BY DEF Heading
<1>8. CASE e = Host
  <2>1. Counts(Host)
    BY <1>1, <1>5, <1>8 DEF Counts
  <2>2. /\ session'.mode = session.mode /\ session'.paused = w
        /\ sending'[Host].step = "noted" /\ sending'[Host].message = Pause(w)
        /\ \A q \in Player \ {Host} : sending'[q] = sending[q]
        /\ outbox' = outbox
    BY <1>0, <1>2, <1>8, <2>1, NotePauseDoes
  <2>3. /\ session.mode = "everyone" =>
              \A c \in Client : \A i \in DOMAIN outbox[c] : outbox[c][i] = w
        /\ \A c \in Client : sending[c].step # "idle" => sending[c].message.paused = w
        /\ inbox[Host] # <<>> /\ inbox[Host][Len(inbox[Host])].kind = "pause"
                 => inbox[Host][Len(inbox[Host])].paused = w
    <3>1. CASE session.mode = "host only"
      BY <3>1 DEF Heard, Hosted, Orderly
    <3>2. CASE session.mode = "everyone"
      <4>1. ~OtherwiseComing(Host)
        BY <1>1, <1>8, <2>2, <3>2 DEF Orderly
      <4>2. /\ \A c \in Client : \A i \in DOMAIN outbox[c] : outbox[c][i] = w
            /\ \A c \in Client : sending[c].step # "idle" /\ sending[c].message.kind = "pause"
                                   => sending[c].message.paused = w
            /\ \A i \in DOMAIN inbox[Host] : inbox[Host][i].kind = "pause"
                                   => inbox[Host][i].paused = w
        BY <1>0, <1>a, <1>8, <4>1 DEF OtherwiseComing
      <4>3. inbox[Host] # <<>> => Len(inbox[Host]) \in DOMAIN inbox[Host]
        BY <1>0
      <4>4. QED
        BY <1>0, <4>2, <4>3
    <3>3. QED
      BY <3>1, <3>2 DEF Orderly
  <2>4. ASSUME NEW q \in Player, sending'[q].step # "idle"
        PROVE  sending'[q].message.paused = w /\ Adopted(sending'[q].message)
    <3>1. CASE q = Host
      BY <1>4, <2>2, <3>1 DEF Adopted
    <3>2. CASE q # Host
      BY <1>0, <1>7, <2>2, <2>3, <2>4, <3>2
    <3>3. QED
      BY <3>1, <3>2
  <2>5. ASSUME NEW p \in admitted' \union {Host} PROVE Follows(p, w)'
    <3>1. CASE p # Host
      <4>1. Owes(Host, p)'
        BY <2>2, <3>1 DEF Owes
      <4>2. QED
        BY <1>0, <4>1 DEF Follows
    <3>2. CASE p = Host
      <4>1. Follows(Host, v)
        BY <1>7
      <4>2. ASSUME NEW q \in Player, Owes(q, Host) PROVE Owes(q, Host)'
        <5>1. q # Host
          BY <4>2 DEF Owes
        <5>2. sending'[q] = sending[q]
          BY <2>2, <5>1
        <5>3. QED
          BY <4>2, <5>2 DEF Owes
      <4>3. Coming(Host) => Coming(Host)'
        BY <2>2 DEF Coming
      <4>4. CASE inbox[Host] = <<>>
        <5>1. inbox'[Host] = <<>> /\ synced'[Host] = w
          BY <1>0, <1>1, <1>8, <4>4
        <5>2. QED
          BY <3>2, <5>1 DEF Follows
      <4>5. CASE inbox[Host] # <<>> /\ Adopted(inbox[Host][Len(inbox[Host])])
        <5>1. Len(inbox[Host]) \in DOMAIN inbox[Host]
          BY <1>0, <4>5
        <5>2. inbox[Host][Len(inbox[Host])].kind # "sync"
          BY <5>1 DEF Heard, HostKnows
        <5>3. inbox[Host][Len(inbox[Host])].paused = w
          BY <2>3, <4>5, <5>2 DEF Adopted
        <5>4. QED
          BY <1>1, <3>2, <4>5, <5>3 DEF Follows
      <4>6. QED
        BY <3>2, <4>1, <4>2, <4>3, <4>4, <4>5 DEF Follows
    <3>3. QED
      BY <3>1, <3>2
  <2>6. Heading(w)'
    BY <2>2, <2>3, <2>4, <2>5 DEF Heading
  <2>7. QED
    BY <2>6
<1>9. CASE e # Host /\ session.mode = "host only"
  <2>1. /\ UNCHANGED <<session, sending, admitted, inbox>>
        /\ \A p \in Player \ {e} : synced'[p] = synced[p]
    BY <1>0, <1>1, <1>3, <1>9
  <2>2. ASSUME NEW p \in admitted' \union {Host} PROVE Follows(p, v)'
    <3>1. Follows(p, v) /\ ~Coming(p)
      BY <1>7, <1>9, <2>1 DEF Coming
    <3>2. ASSUME NEW q \in Player, Owes(q, p) PROVE Follows(p, v)'
      BY <2>1, <3>2 DEF Owes, Follows
    <3>3. CASE p # e \/ inbox[p] # <<>>
      <4>1. inbox[p] = <<>> => synced'[p] = synced[p]
        BY <1>0, <2>1, <3>3
      <4>2. QED
        BY <2>1, <3>1, <3>2, <3>3, <4>1 DEF Follows
    <3>4. CASE p = e /\ inbox[p] = <<>>
      <4>1. ~EndsWith(inbox[e], mode[e], session.mode)
        <5>1. LastSync(<<>>, 0) /\ 0 \in 0..Len(<<>>)
          BY DEF LastSync
        <5>2. mode[e] # session.mode
          BY <1>1, <1>9
        <5>3. QED
          BY <3>4, <5>1, <5>2 DEF EndsWith
      <4>2. SyncOwed(e)
        BY <1>5, <1>6, <1>9, <4>1
      <4>3. Owes(Host, p)
        BY <3>4, <4>2 DEF SyncOwed
      <4>4. QED
        BY <1>0, <3>2, <4>3
    <3>5. QED
      BY <3>3, <3>4
  <2>3. Heading(v)'
    BY <1>7, <1>9, <2>1, <2>2 DEF Heading
  <2>4. QED
    BY <2>3
<1>10. CASE e # Host /\ session.mode = "everyone"
  <2>1. /\ UNCHANGED <<session, sending, admitted, inbox>>
        /\ outbox' = [outbox EXCEPT ![e] = Append(@, w)]
        /\ e \in Client /\ e \in admitted
    BY <1>1, <1>3, <1>6, <1>10
  <2>2. ~OtherwiseComing(e)
    BY <1>1, <1>10, <2>1 DEF Orderly
  <2>3. /\ ~SyncBeingSent
        /\ \A i \in DOMAIN inbox[e] : inbox[e][i].kind # "sync"
        /\ \A q \in Player : sending[q].step # "idle" /\ sending[q].message.kind = "pause"
                               => sending[q].message.paused = w
        /\ \A i \in DOMAIN inbox[e] : inbox[e][i].kind = "pause" => inbox[e][i].paused = w
        /\ \A c \in Client : \A i \in DOMAIN outbox[c] : outbox[c][i] = w
    BY <1>0, <1>a, <2>2 DEF OtherwiseComing
  <2>4. ASSUME NEW c \in Client, NEW i \in DOMAIN outbox'[c] PROVE outbox'[c][i] = w
    <3>1. CASE c # e
      BY <1>0, <2>1, <2>3, <2>4, <3>1
    <3>2. CASE c = e
      <4>1. outbox'[c] = Append(outbox[c], w) /\ outbox[c] \in Seq(BOOLEAN)
        BY <1>0, <2>1, <3>2
      <4>2. i = Len(outbox[c]) + 1 \/ i \in DOMAIN outbox[c]
        BY <2>4, <4>1
      <4>3. QED
        BY <1>0, <2>3, <4>1, <4>2
    <3>3. QED
      BY <3>1, <3>2
  <2>5. outbox'[e] # <<>>
    BY <1>0, <2>1
  <2>6. ASSUME NEW q \in Player, sending[q].step # "idle"
        PROVE  sending[q].message.paused = w /\ Adopted(sending[q].message)
    <3>1. Adopted(sending[q].message)
      BY <1>7, <2>6
    <3>2. sending[q].message.kind # "sync"
      <4>1. CASE q = Host
        BY <2>3, <2>6, <4>1 DEF SyncBeingSent
      <4>2. CASE q # Host
        BY <1>0, <2>6, <4>2
      <4>3. QED
        BY <4>1, <4>2
    <3>3. QED
      BY <2>3, <2>6, <3>1, <3>2 DEF Adopted
  <2>7. ASSUME NEW p \in admitted' \union {Host} PROVE Follows(p, w)'
    <3>1. CASE p # e
      BY <1>10, <2>1, <2>5, <3>1 DEF Follows, Coming
    <3>2. CASE p = e
      <4>1. Follows(e, v)
        BY <1>7, <2>1
      <4>2. ASSUME NEW q \in Player, Owes(q, e) PROVE Owes(q, e)'
        BY <2>1, <4>2 DEF Owes
      <4>3. Coming(e) => Coming(e)'
        <5>1. \A c \in Client \ {e} : outbox'[c] = outbox[c]
          BY <1>0, <2>1
        <5>2. QED
          BY <2>1, <5>1 DEF Coming
      <4>4. CASE inbox[e] = <<>>
        <5>1. inbox'[e] = <<>> /\ synced'[e] = w
          BY <1>0, <1>1, <4>4
        <5>2. QED
          BY <3>2, <5>1 DEF Follows
      <4>5. CASE inbox[e] # <<>> /\ Adopted(inbox[e][Len(inbox[e])])
        <5>1. Len(inbox[e]) \in DOMAIN inbox[e]
          BY <1>0, <4>5
        <5>2. inbox[e][Len(inbox[e])].paused = w
          BY <2>3, <4>5, <5>1 DEF Adopted
        <5>3. QED
          BY <2>1, <3>2, <4>5, <5>2 DEF Follows
      <4>6. QED
        BY <3>2, <4>1, <4>2, <4>3, <4>4, <4>5 DEF Follows
    <3>3. QED
      BY <3>1, <3>2
  <2>8. Heading(w)'
    <3>1. session'.mode = "everyone" /\ \E c \in Client : outbox'[c] # <<>>
      BY <1>10, <2>1, <2>5
    <3>2. QED
      BY <2>1, <2>4, <2>6, <2>7, <3>1 DEF Heading
  <2>9. QED
    BY <2>8
<1>11. QED
  BY <1>8, <1>9, <1>10 DEF Orderly

\* No other step turns anybody elsewhere: whoever is told, joins or is relayed
\* to hears of the same pause state.
LEMMA RestHeads ==
    ASSUME TypeInv, Heard, Orderly, Orderly', NEW v \in BOOLEAN, Heading(v), [Next]_vars,
           ~ \E m \in Modes : PickMode(m), ~ \E p \in Player : Publish(p)
    PROVE  Heading(v)'
<1>0. /\ inbox \in [Player -> Seq(Message)]
      /\ outbox \in [Client -> Seq(BOOLEAN)]
      /\ session \in [mode : Modes \union {"off"}, paused : BOOLEAN]
      /\ synced \in [Player -> BOOLEAN]
      /\ sending \in [Player -> [step : {"idle", "noted", "telling"}, message : Message,
                                 todo : SUBSET Client]]
      /\ Client \subseteq Player /\ Host \in Player /\ Host \notin Client
      /\ admitted \subseteq Client
      /\ \A q \in Player : sending[q].todo \subseteq admitted
      /\ \A c \in Client \ admitted : outbox[c] = <<>>
  BY HeadingTypes
<1>1. /\ session.mode = "everyone" =>
            \A c \in Client : \A i \in DOMAIN outbox[c] : outbox[c][i] = v
      /\ session.paused = v \/ (session.mode = "everyone" /\ \E c \in Client : outbox[c] # <<>>)
  BY DEF Heading
<1>2. \A q \in Player : sending[q].step # "idle" =>
            sending[q].message.paused = v /\ Adopted(sending[q].message)
  BY DEF Heading
<1>3. \A e \in admitted \union {Host} : Follows(e, v)
  BY DEF Heading
<1>4. ASSUME NEW e \in admitted \union {Host}, \A q \in Player : Owes(q, e) => Owes(q, e)',
             Coming(e) => Coming(e)', inbox'[e] = inbox[e], synced'[e] = synced[e]
      PROVE  Follows(e, v)'
  <2>1. Follows(e, v)
    BY <1>3
  <2>2. QED
    BY <1>4, <2>1 DEF Follows
<1>5. ASSUME UNCHANGED <<session, outbox>>,
             \A q \in Player : sending'[q].step # "idle" =>
                 sending'[q].message = sending[q].message /\ sending[q].step # "idle",
             \A e \in admitted' \union {Host} : Follows(e, v)'
      PROVE  Heading(v)'
  BY <1>1, <1>2, <1>5 DEF Heading
<1>6. ASSUME NEW e \in admitted \union {Host}, UNCHANGED <<session, outbox>>
      PROVE  Coming(e) => Coming(e)'
  BY <1>6 DEF Coming
<1> USE DEF hostVars, wireVars, gameVars, countVars
<1>7. ASSUME NEW c \in Client, Join(c) PROVE Heading(v)'
  <2>1. /\ UNCHANGED <<session, sending, outbox, synced>>
        /\ c \notin admitted /\ admitted' = admitted \union {c}
        /\ inbox' = [inbox EXCEPT ![c] = <<Sync(session.mode, session.paused)>>]
    BY <1>7 DEF Join
  <2>2. ASSUME NEW e \in admitted' \union {Host} PROVE Follows(e, v)'
    <3>1. CASE e # c
      <4>1. e \in admitted \union {Host} /\ inbox'[e] = inbox[e]
        BY <1>0, <2>1, <2>2, <3>1
      <4>2. \A q \in Player : Owes(q, e) => Owes(q, e)'
        BY <2>1 DEF Owes
      <4>3. QED
        BY <1>4, <1>6, <2>1, <4>1, <4>2
    <3>2. CASE e = c /\ session.paused = v
      <4>1. inbox'[c] = <<Sync(session.mode, v)>>
        BY <1>0, <2>1, <3>2
      <4>2. Sync(session.mode, v).paused = v /\ Adopted(Sync(session.mode, v))
        BY DEF Sync, Adopted, Orderly
      <4>3. /\ inbox'[c] # <<>> /\ inbox'[c][Len(inbox'[c])] = Sync(session.mode, v)
        BY <4>1
      <4>4. QED
        BY <3>2, <4>2, <4>3 DEF Follows
    <3>3. CASE e = c /\ session.paused # v
      <4>1. session.mode = "everyone" /\ \E d \in Client \ {c} : outbox[d] # <<>>
        BY <1>0, <1>1, <2>1, <3>3
      <4>2. Coming(e)'
        BY <2>1, <3>3, <4>1 DEF Coming
      <4>3. QED
        BY <4>2 DEF Follows
    <3>4. QED
      BY <3>1, <3>2, <3>3
  <2>3. QED
    BY <1>5, <2>1, <2>2
<1>8. ASSUME NEW c \in Client, PauseArrives(c) PROVE Heading(v)'
  <2>1. /\ UNCHANGED <<admitted, inbox, synced>>
        /\ outbox[c] # <<>> /\ outbox[c] \in Seq(BOOLEAN)
        /\ outbox' = [outbox EXCEPT ![c] = Tail(@)]
        /\ NotePause(c, Head(outbox[c]))
    BY <1>0, <1>8 DEF PauseArrives
  <2>2. c \in Player /\ c # Host /\ Head(outbox[c]) \in BOOLEAN
    BY <1>0, <2>1
  <2>3. session'.mode = session.mode
    BY <2>1, <2>2, NotePauseDoes
  <2>4. CASE session.mode = "everyone"
    <3>1. Head(outbox[c]) = v
      <4>1. 1 \in DOMAIN outbox[c] /\ Head(outbox[c]) = outbox[c][1]
        BY <2>1
      <4>2. QED
        BY <1>1, <2>4, <4>1
    <3>2. /\ session'.paused = v
          /\ sending'[c].step = "noted" /\ sending'[c].message = Pause(v)
          /\ \A q \in Player \ {c} : sending'[q] = sending[q]
      <4>1. Counts(c)
        BY <2>4 DEF Counts
      <4>2. QED
        BY <2>1, <2>2, <3>1, <4>1, NotePauseDoes
    <3>3. ASSUME NEW d \in Client, NEW i \in DOMAIN outbox'[d] PROVE outbox'[d][i] = v
      <4>1. CASE d # c
        <5>1. outbox'[d] = outbox[d]
          BY <1>0, <2>1, <4>1
        <5>2. QED
          BY <1>1, <2>4, <3>3, <5>1
      <4>2. CASE d = c
        <5>1. outbox'[d] = Tail(outbox[c])
          BY <1>0, <2>1, <4>2
        <5>2. i + 1 \in DOMAIN outbox[c] /\ Tail(outbox[c])[i] = outbox[c][i + 1]
          <6>1. i \in DOMAIN Tail(outbox[c])
            BY <3>3, <5>1
          <6>2. QED
            BY <2>1, <6>1, TailOf
        <5>3. outbox[c][i + 1] = v
          BY <1>1, <2>4, <5>2
        <5>4. QED
          BY <5>1, <5>2, <5>3
      <4>3. QED
        BY <4>1, <4>2
    <3>4. ASSUME NEW q \in Player, sending'[q].step # "idle"
          PROVE  sending'[q].message.paused = v /\ Adopted(sending'[q].message)
      <4>1. CASE q = c
        BY <3>2, <4>1 DEF Pause, Adopted
      <4>2. CASE q # c
        BY <1>2, <3>2, <3>4, <4>2
      <4>3. QED
        BY <4>1, <4>2
    <3>5. ASSUME NEW e \in admitted' \union {Host} PROVE Follows(e, v)'
      <4>1. CASE e # c
        <5>1. Owes(c, e)'
          BY <3>2, <4>1 DEF Owes
        <5>2. QED
          BY <2>2, <5>1 DEF Follows
      <4>2. CASE e = c
        <5>1. ASSUME NEW q \in Player, Owes(q, c) PROVE Owes(q, c)'
          <6>1. q # c
            BY <5>1 DEF Owes
          <6>2. sending'[q] = sending[q]
            BY <3>2, <6>1
          <6>3. QED
            BY <5>1, <6>2 DEF Owes
        <5>2. Coming(c) => Coming(c)'
          <6>1. \A d \in Client \ {c} : outbox'[d] = outbox[d]
            BY <1>0, <2>1
          <6>2. QED
            BY <2>3, <6>1 DEF Coming
        <5>3. QED
          BY <1>4, <2>1, <3>5, <4>2, <5>1, <5>2
      <4>3. QED
        BY <4>1, <4>2
    <3>6. QED
      BY <3>2, <3>3, <3>4, <3>5 DEF Heading
  <2>5. CASE session.mode = "host only"
    <3>1. UNCHANGED <<session, sending>>
      <4>1. ~Counts(c)
        BY <2>2, <2>5 DEF Counts
      <4>2. QED
        BY <2>1, <2>2, <4>1, NotePauseDoes
    <3>2. ASSUME NEW e \in admitted' \union {Host} PROVE Follows(e, v)'
      <4>1. \A q \in Player : Owes(q, e) => Owes(q, e)'
        BY <3>1 DEF Owes
      <4>2. Coming(e) => Coming(e)'
        BY <2>5 DEF Coming
      <4>3. QED
        BY <1>4, <2>1, <3>2, <4>1, <4>2
    <3>3. QED
      BY <1>1, <1>2, <2>5, <3>1, <3>2 DEF Heading
  <2>6. QED
    BY <2>4, <2>5 DEF Orderly
<1>9. ASSUME NEW p \in Player, LookUp(p) PROVE Heading(v)'
  <2>1. /\ UNCHANGED <<session, admitted, inbox, outbox, synced>>
        /\ sending[p].step = "noted"
        /\ sending' = [sending EXCEPT ![p].step = "telling", ![p].todo = admitted \ {p}]
    BY <1>9 DEF LookUp
  <2>2. /\ \A q \in Player \ {p} : sending'[q] = sending[q]
        /\ sending'[p].step = "telling" /\ sending'[p].todo = admitted \ {p}
        /\ sending'[p].message = sending[p].message
    BY <1>0, <2>1
  <2>3. ASSUME NEW e \in admitted' \union {Host} PROVE Follows(e, v)'
    <3>1. ASSUME NEW q \in Player, Owes(q, e) PROVE Owes(q, e)'
      <4>1. CASE q = p
        BY <2>1, <2>2, <2>3, <3>1, <4>1 DEF Owes
      <4>2. CASE q # p
        <5>1. sending'[q] = sending[q]
          BY <2>2, <4>2
        <5>2. QED
          BY <3>1, <5>1 DEF Owes
      <4>3. QED
        BY <4>1, <4>2
    <3>2. QED
      BY <1>4, <1>6, <2>1, <2>3, <3>1
  <2>4. \A q \in Player : sending'[q].step # "idle" =>
            sending'[q].message = sending[q].message /\ sending[q].step # "idle"
    BY <2>1, <2>2
  <2>5. QED
    BY <1>5, <2>1, <2>3, <2>4
<1>10. ASSUME NEW p \in Player, NEW c \in Client, TellOne(p, c) PROVE Heading(v)'
  <2>1. /\ UNCHANGED <<session, admitted, outbox, synced>>
        /\ sending[p].step = "telling" /\ c \in sending[p].todo
        /\ sending' = [sending EXCEPT ![p].todo = @ \ {c}]
        /\ inbox' = [inbox EXCEPT ![c] = Append(@, sending[p].message)]
    BY <1>10 DEF TellOne
  <2>2. /\ \A q \in Player : /\ sending'[q].step = sending[q].step
                             /\ sending'[q].message = sending[q].message
                             /\ \A e \in Player \ {c} :
                                    e \in sending[q].todo => e \in sending'[q].todo
    BY <1>0, <2>1
  <2>3. ASSUME NEW e \in admitted' \union {Host} PROVE Follows(e, v)'
    <3>1. CASE e = c
      <4>1. /\ inbox'[c] = Append(inbox[c], sending[p].message)
            /\ inbox[c] \in Seq(Message) /\ sending[p].message \in Message
        BY <1>0, <2>1
      <4>2. /\ inbox'[c] # <<>>
            /\ inbox'[c][Len(inbox'[c])] = sending[p].message
        BY <4>1, Appended
      <4>3. sending[p].message.paused = v /\ Adopted(sending[p].message)
        BY <1>2, <2>1
      <4>4. QED
        BY <3>1, <4>2, <4>3 DEF Follows
    <3>2. CASE e # c
      <4>1. e \in Player /\ inbox'[e] = inbox[e] /\ e \in admitted \union {Host}
        BY <1>0, <2>1, <2>3, <3>2
      <4>2. \A q \in Player : Owes(q, e) => Owes(q, e)'
        BY <2>2, <3>2, <4>1 DEF Owes
      <4>3. QED
        BY <1>4, <1>6, <2>1, <4>1, <4>2
    <3>3. QED
      BY <3>1, <3>2
  <2>4. QED
    BY <1>5, <2>1, <2>2, <2>3
<1>11. ASSUME NEW p \in Player, TellHost(p) PROVE Heading(v)'
  <2>1. /\ UNCHANGED <<session, admitted, outbox, synced>>
        /\ sending[p].step = "telling" /\ sending[p].todo = {}
        /\ sending' = [sending EXCEPT ![p] = Idle]
    BY <1>11 DEF TellHost
  <2>2. sending[p].message # ResetAll
    <3>1. sending[p].message.kind # "reset" /\ ResetAll.kind = "reset"
      BY <2>1 DEF Heard, Orderly, NoResets, ResetAll
    <3>2. QED
      BY <3>1
  <2>3. inbox' = IF p # Host THEN [inbox EXCEPT ![Host] = Append(@, sending[p].message)]
                 ELSE inbox
    BY <1>11, <2>2 DEF TellHost
  <2>4. /\ \A q \in Player \ {p} : sending'[q] = sending[q]
        /\ sending'[p].step = "idle"
    BY <1>0, <2>1 DEF Idle
  <2>5. ASSUME NEW e \in admitted' \union {Host} PROVE Follows(e, v)'
    <3>1. CASE e = Host /\ p # Host
      <4>1. /\ inbox'[Host] = Append(inbox[Host], sending[p].message)
            /\ inbox[Host] \in Seq(Message) /\ sending[p].message \in Message
        BY <1>0, <2>3, <3>1
      <4>2. /\ inbox'[Host] # <<>>
            /\ inbox'[Host][Len(inbox'[Host])] = sending[p].message
        BY <4>1, Appended
      <4>3. sending[p].message.paused = v /\ Adopted(sending[p].message)
        BY <1>2, <2>1
      <4>4. QED
        BY <3>1, <4>2, <4>3 DEF Follows
    <3>2. CASE e # Host \/ p = Host
      <4>1. inbox'[e] = inbox[e]
        BY <1>0, <2>3, <3>2
      <4>2. ASSUME NEW q \in Player, Owes(q, e) PROVE Owes(q, e)'
        <5>1. q # p
          BY <2>1, <3>2, <4>2 DEF Owes
        <5>2. sending'[q] = sending[q]
          BY <2>4, <5>1
        <5>3. QED
          BY <4>2, <5>2 DEF Owes
      <4>3. QED
        BY <1>4, <1>6, <2>1, <2>5, <4>1, <4>2
    <3>3. QED
      BY <3>1, <3>2
  <2>6. \A q \in Player : sending'[q].step # "idle" =>
            sending'[q].message = sending[q].message /\ sending[q].step # "idle"
    BY <2>4
  <2>7. QED
    BY <1>5, <2>1, <2>5, <2>6
<1>12. ASSUME NEW p \in Player, HandleEvent(p) PROVE Heading(v)'
  <2>1. /\ UNCHANGED <<session, admitted, sending, outbox>>
        /\ inbox[p] # <<>> /\ inbox[p] \in Seq(Message)
        /\ inbox' = [inbox EXCEPT ![p] = Tail(@)]
    BY <1>0, <1>12 DEF HandleEvent
  <2>2. \A e \in Player : \A q \in Player : Owes(q, e) => Owes(q, e)'
    BY <2>1 DEF Owes
  <2>3. ASSUME NEW e \in admitted \union {Host} PROVE Follows(e, v)'
    <3>1. e \in Player
      BY <1>0
    <3>2. CASE e # p
      <4>1. inbox'[e] = inbox[e]
        BY <1>0, <2>1, <3>1, <3>2
      <4>2. synced'[e] = synced[e]
        BY <1>0, <1>12, <3>1, <3>2 DEF HandleEvent, Adopt
      <4>3. QED
        BY <1>4, <1>6, <2>1, <2>2, <3>1, <4>1, <4>2
    <3>3. CASE e = p
      <4>1. Follows(p, v)
        BY <1>3, <3>3
      <4>2. ASSUME Adopted(inbox[p][Len(inbox[p])]), inbox[p][Len(inbox[p])].paused = v
            PROVE  Follows(p, v)'
        <5>1. inbox'[p] = Tail(inbox[p])
          BY <1>0, <2>1
        <5>2. CASE Tail(inbox[p]) = <<>>
          <6>1. Head(inbox[p]) = inbox[p][Len(inbox[p])]
            BY <2>1, <5>2, TailOf
          <6>2. synced' = [synced EXCEPT ![p] = v]
            BY <1>12, <4>2, <6>1 DEF HandleEvent, Adopt, Adopted
          <6>3. QED
            BY <1>0, <5>1, <5>2, <6>2 DEF Follows
        <5>3. CASE Tail(inbox[p]) # <<>>
          <6>1. Tail(inbox[p])[Len(Tail(inbox[p]))] = inbox[p][Len(inbox[p])]
            BY <2>1, <5>3, TailOf
          <6>2. QED
            BY <4>2, <5>1, <5>3, <6>1 DEF Follows
        <5>4. QED
          BY <5>2, <5>3
      <4>3. QED
        BY <1>6, <2>1, <2>2, <2>3, <3>1, <3>3, <4>1, <4>2 DEF Follows
    <3>4. QED
      BY <3>2, <3>3
  <2>4. QED
    BY <1>5, <2>1, <2>3
<1>13. ASSUME NEW p \in Player, ResetFires(p) PROVE FALSE
  BY <1>13 DEF ResetFires, Heard, NoResets, Orderly
<1>14. ASSUME StartRace PROVE FALSE
  <2>1. resets' = resets + 1 /\ resets' = 0 /\ resets = 0
    BY <1>14 DEF StartRace, Orderly
  <2>2. QED
    BY <2>1
<1>15. ASSUME UNCHANGED <<session, admitted, sending, inbox, outbox, synced>> PROVE Heading(v)'
  <2>1. ASSUME NEW e \in admitted \union {Host} PROVE Follows(e, v)'
    <3>1. \A q \in Player : Owes(q, e) => Owes(q, e)'
      BY <1>15 DEF Owes
    <3>2. QED
      BY <1>4, <1>6, <1>15, <2>1, <3>1
  <2>2. QED
    BY <1>5, <1>15, <2>1
<1>16. ASSUME NEW c \in Client, PutBack(c) PROVE Heading(v)'
  BY <1>15, <1>16 DEF PutBack
<1>17. ASSUME NEW p \in Player, NEW isPaused \in Choices, ChangePause(p, isPaused)
       PROVE  Heading(v)'
  BY <1>15, <1>17 DEF ChangePause
<1>18. CASE UNCHANGED vars
  BY <1>15, <1>18 DEF vars
<1>19. QED
  BY <1>7, <1>8, <1>9, <1>10, <1>11, <1>12, <1>13, <1>14, <1>16, <1>17, <1>18, Steps

\* A run that is orderly after a step other than the host's pick was so before.
LEMMA OrderlyBefore ==
    ASSUME TypeInv, Orderly', [Next]_vars, ~ \E m \in Modes : PickMode(m)
    PROVE  Orderly
<1>0. overtaken \in BOOLEAN /\ crossed \in BOOLEAN /\ resets \in Nat
  BY DEF TypeInv, TypeOK
<1>1. ASSUME session'.mode = session.mode, overtaken => overtaken', crossed => crossed',
             resets' = 0 => resets = 0
      PROVE  Orderly
  BY <1>1 DEF Orderly
<1> USE DEF hostVars, wireVars, gameVars, countVars
<1>2. ASSUME NEW c \in Client, PauseArrives(c) PROVE Orderly
  <2>1. /\ NotePause(c, Head(outbox[c])) /\ Head(outbox[c]) \in BOOLEAN /\ c \in Player
        /\ UNCHANGED <<crossed, resets>> /\ (overtaken => overtaken')
    BY <1>2 DEF PauseArrives, TypeInv, TypeOK, Player
  <2>2. session'.mode = session.mode
    BY <2>1, NotePauseDoes
  <2>3. QED
    BY <1>1, <2>1, <2>2
<1>3. ASSUME NEW p \in Player, Publish(p) PROVE Orderly
  <2>1. UNCHANGED <<overtaken, resets>> /\ (crossed => crossed')
    BY <1>3, Zenon DEF Publish
  <2>2. session'.mode = session.mode
    <3>1. CASE p = Host
      <4>1. NotePause(Host, paused[Host]) /\ paused[Host] \in BOOLEAN /\ Host \in Player
        BY <1>3, <3>1 DEF Publish, TypeInv, TypeOK
      <4>2. QED
        BY <4>1, NotePauseDoes
    <3>2. CASE p # Host
      <4>1. UNCHANGED <<session, sending>>
        BY <1>3, <3>2, Zenon DEF Publish
      <4>2. QED
        BY <4>1
    <3>3. QED
      BY <3>1, <3>2
  <2>3. QED
    BY <1>1, <2>1, <2>2
<1>4. ASSUME StartRace PROVE Orderly
  <2>1. resets' = 0 => resets = 0
    BY <1>0, <1>4 DEF StartRace
  <2>2. QED
    BY <1>1, <1>4, <2>1 DEF StartRace
<1>5. ASSUME UNCHANGED <<session, overtaken, crossed, resets>> PROVE Orderly
  BY <1>1, <1>5
<1>6. ASSUME NEW c \in Client, Join(c) \/ PutBack(c) PROVE Orderly
  BY <1>5, <1>6 DEF Join, PutBack
<1>7. ASSUME NEW p \in Player, LookUp(p) \/ TellHost(p) \/ HandleEvent(p) \/ ResetFires(p)
      PROVE  Orderly
  BY <1>5, <1>7 DEF LookUp, TellHost, HandleEvent, ResetFires
<1>8. ASSUME NEW p \in Player, NEW c \in Client, TellOne(p, c) PROVE Orderly
  BY <1>5, <1>8 DEF TellOne
<1>9. ASSUME NEW p \in Player, NEW isPaused \in Choices, ChangePause(p, isPaused) PROVE Orderly
  BY <1>5, <1>9 DEF ChangePause
<1>10. CASE UNCHANGED vars
  BY <1>5, <1>10 DEF vars
<1>11. QED
  BY <1>2, <1>3, <1>4, <1>6, <1>7, <1>8, <1>9, <1>10, Steps

LEMMA HeadingKept ==
    ASSUME AgreeInv, TypeInv', [Next]_vars, Orderly'
    PROVE  \E x \in BOOLEAN : Heading(x)'
<1>1. TypeInv /\ Heard
  BY DEF AgreeInv
<1>2. ASSUME NEW m \in Modes, PickMode(m) PROVE \E x \in BOOLEAN : Heading(x)'
  BY <1>1, <1>2, PickHeads
<1>3. ASSUME ~ \E m \in Modes : PickMode(m) PROVE \E x \in BOOLEAN : Heading(x)'
  <2>1. Orderly
    BY <1>1, <1>3, OrderlyBefore
  <2>2. PICK v \in BOOLEAN : Heading(v)
    BY <2>1 DEF AgreeInv
  <2>3. ASSUME NEW p \in Player, Publish(p) PROVE \E x \in BOOLEAN : Heading(x)'
    BY <1>1, <2>1, <2>2, <2>3, PublishHeads
  <2>4. ASSUME ~ \E p \in Player : Publish(p) PROVE \E x \in BOOLEAN : Heading(x)'
    BY <1>1, <1>3, <2>1, <2>2, <2>4, RestHeads
  <2>5. QED
    BY <2>3, <2>4
<1>4. QED
  BY <1>2, <1>3

LEMMA AgreeInit ==
    ASSUME Init
    PROVE  AgreeInv
<1>1. TypeInv
  BY PauseTypingInit
<1>2. /\ session.mode = "off" /\ admitted = {} /\ resets = 0
      /\ \A p \in Player : /\ ~resetDue[p] /\ mode[p] = "off" /\ inbox[p] = <<>>
                           /\ sending[p].step = "idle"
      /\ Host \in Player
  BY DEF Init, Idle, Player
<1>3. NoResets
  BY <1>2 DEF NoResets
<1>4. HostKnows
  BY <1>2 DEF HostKnows, SyncBeingSent
<1>5. ModesKnown
  BY <1>2 DEF ModesKnown
<1>6. Hosted /\ ~Orderly
  BY <1>2 DEF Hosted, Orderly
<1>7. QED
  BY <1>1, <1>3, <1>4, <1>5, <1>6 DEF AgreeInv, Heard

\* Once nothing is on its way, everybody is where all were heading.
LEMMA SettledAgree ==
    ASSUME AgreeInv, Settled, Orderly
    PROVE  InAgreement
<1>1. TypeInv /\ Heard
  BY DEF AgreeInv
<1>2. PICK v \in BOOLEAN : Heading(v)
  BY DEF AgreeInv
<1>3. /\ \A p \in Player : sending[p].step = "idle" /\ inbox[p] = <<>>
      /\ \A p \in Player : mode[p] = "off" \/ paused[p] = synced[p]
      /\ \A c \in Client : outbox[c] = <<>>
  BY DEF Settled
<1>4. admitted \union {Host} \subseteq Player /\ Host \in Player
  BY <1>1, HeadingTypes
<1>5. session.paused = v
  BY <1>2, <1>3 DEF Heading
<1>6. ASSUME NEW p \in admitted \union {Host} PROVE paused[p] = session.paused
  <2>1. synced[p] = v
    <3>1. Follows(p, v)
      BY <1>2 DEF Heading
    <3>2. ~ (\E q \in Player : Owes(q, p)) /\ ~Coming(p) /\ inbox[p] = <<>>
      BY <1>3, <1>4 DEF Owes, Coming
    <3>3. QED
      BY <3>1, <3>2 DEF Follows
  <2>2. mode[p] = session.mode
    <3>1. CASE p = Host
      BY <1>1, <3>1 DEF Heard, HostKnows
    <3>2. CASE p # Host
      <4>1. EndsWith(inbox[p], mode[p], session.mode)
        BY <1>1, <1>3, <1>4, <3>2 DEF Heard, ModesKnown, SyncOwed, Owes
      <4>2. inbox[p] = <<>>
        BY <1>3, <1>4
      <4>3. 0 \in 0..Len(inbox[p]) /\ LastSync(inbox[p], 0)
        BY <4>2 DEF LastSync
      <4>4. QED
        BY <4>1, <4>3 DEF EndsWith
    <3>3. QED
      BY <3>1, <3>2
  <2>3. mode[p] # "off"
    BY <2>2 DEF Orderly
  <2>4. QED
    BY <1>3, <1>4, <1>5, <2>1, <2>3
<1>7. QED
  BY <1>6 DEF InAgreement

\* Whoever may pause, and whatever order pauses are relayed and joiners welcomed
\* in, once nothing is on its way every player's game is in the session's pause
\* state, however many players there are: everything that is still on its way
\* heads for one state (Heading), and only a player who hears of no other one, or
\* the host's setting, turns everybody elsewhere.
THEOREM PlayersAgree == Spec => []PausesAgree
<1>1. Init => AgreeInv
  BY AgreeInit
<1>2. AgreeInv /\ [Next]_vars /\ TypeInv' => AgreeInv'
  <2> SUFFICES ASSUME AgreeInv, [Next]_vars, TypeInv' PROVE AgreeInv'
    OBVIOUS
  <2>1. TypeInv /\ NoResets /\ HostKnows /\ ModesKnown /\ Hosted
    BY DEF AgreeInv, Heard
  <2>2. NoResets' /\ HostKnows' /\ ModesKnown' /\ Hosted'
    BY <2>1, NoResetsKept, HostKnowsKept, ModesKept, HostedKept
  <2>3. Orderly' => \E x \in BOOLEAN : Heading(x)'
    BY HeadingKept
  <2>4. QED
    BY <2>2, <2>3 DEF AgreeInv, Heard
<1>3. AgreeInv => PausesAgree
  <2>1. ASSUME AgreeInv, Settled, session.mode = "host only", resets = 0, ~overtaken
        PROVE  InAgreement
    BY <2>1, SettledAgree DEF Orderly
  <2>2. ASSUME AgreeInv, Settled, session.mode = "everyone", resets = 0, ~overtaken, ~crossed
        PROVE  InAgreement
    BY <2>2, SettledAgree DEF Orderly
  <2>3. QED
    BY <2>1, <2>2 DEF PausesAgree, HostRules, LastPauseWins
<1>4. QED
  BY <1>1, <1>2, <1>3, TypesKept, PTL DEF Spec
=============================================================================
