------------------------ MODULE MemoryMonitor_proofs ------------------------
(***************************************************************************)
(* What holds of the memory monitor for any number of cores, requests,     *)
(* edits and missed locks, and any capacity of the ring.                   *)
(***************************************************************************)
EXTENDS MemoryMonitor, TLAPS

\* The steps of the specification, one disjunct for each action.
LEMMA MonitorSteps ==
    ASSUME Next
    PROVE  \/ \E viewer \in BOOLEAN : Change(viewer)
           \/ Write \/ Undo \/ StartScan \/ CancelScan \/ DropCore \/ Jump
           \/ Tick \/ UpdateRequest \/ Attach \/ PushEdit \/ CountEdit \/ TakeSample
           \/ \E done \in SUBSET DOMAIN ring : Drain(done)
           \/ \E game \in Game \union {None} : SwitchCore(game)
           \/ HandleCommand \/ BeginPass \/ PullRequest \/ Publish \/ Flush \/ Snapshot
           \/ \E taken, frame \in BOOLEAN : Service(taken, frame)
           \/ TakeJob \/ ReceiveSnapshot \/ GiveUpScan
BY DEF Next, User, Tools, CoreThread, Worker

-----------------------------------------------------------------------------
(* Typing.                                                                  *)

LEMMA NewLocalType ==
    ASSUME slotGen \in Nat
    PROVE  /\ NewLocal \in Local
           /\ NewLocal.seen = 0 /\ NewLocal.loaded = 0 /\ NewLocal.sample.claims = 0
BY DEF NewLocal, NoSample, Request, SampleType, Local

LEMMA NoSampleType == NoSample \in SampleType /\ NoSample.claims = 0
BY DEF NoSample, SampleType

\* A batch of edits, or of answers, appended to others.
LEMMA Batch ==
    ASSUME NEW S, NEW s \in Seq(S), NEW t, t \in Seq(S)
    PROVE  /\ s \o t \in Seq(S)
           /\ \A i \in DOMAIN (s \o t) :
                  \/ i \in DOMAIN s /\ (s \o t)[i] = s[i]
                  \/ \E j \in DOMAIN t : i = Len(s) + j /\ (s \o t)[i] = t[j]
<1>1. s \o t \in Seq(S) /\ DOMAIN (s \o t) = 1..(Len(s) + Len(t))
  OBVIOUS
<1>2. ASSUME NEW i \in 1..(Len(s) + Len(t)), i > Len(s)
      PROVE  i - Len(s) \in DOMAIN t /\ (s \o t)[i] = t[i - Len(s)]
  BY <1>2
<1>3. \A i \in 1..(Len(s) + Len(t)) : i <= Len(s) => i \in DOMAIN s /\ (s \o t)[i] = s[i]
  OBVIOUS
<1>4. ASSUME NEW i \in DOMAIN (s \o t)
      PROVE  \/ i \in DOMAIN s /\ (s \o t)[i] = s[i]
             \/ \E j \in DOMAIN t : i = Len(s) + j /\ (s \o t)[i] = t[j]
  <2>1. CASE i <= Len(s)
    BY <1>1, <1>3, <2>1
  <2>2. CASE i > Len(s)
    <3>1. i - Len(s) \in DOMAIN t /\ (s \o t)[i] = t[i - Len(s)]
      BY <1>1, <1>2, <2>2
    <3>2. i = Len(s) + (i - Len(s))
      BY <1>1
    <3>3. QED
      BY <3>1, <3>2
  <2>3. QED
    BY <1>1, <2>1, <2>2
<1>5. QED
  BY <1>1, <1>4

LEMMA Queued ==
    ASSUME NEW S, NEW s \in Seq(S)
    PROVE  /\ \A i \in DOMAIN s : s[i] \in S
           /\ s # <<>> => Head(s) \in S /\ Tail(s) \in Seq(S)
           /\ \A x \in S : Append(s, x) \in Seq(S)
OBVIOUS

\* What Service appends to the edits applied, and to the answers.
LEMMA ServedTypes ==
    ASSUME TypeOK, NEW new, new \in Seq(Edit)
    PROVE  /\ [i \in DOMAIN new |-> [id |-> new[i].id, for |-> new[i].for, by |-> core.id]]
                  \in Seq([id : Nat, for : Nat, by : Nat])
           /\ [i \in DOMAIN new |-> [id |-> new[i].id, core |-> core.id, epoch |-> core.epoch]]
                  \in Seq(Answer)
<1>1. DOMAIN new = 1..Len(new) /\ Len(new) \in Nat
  OBVIOUS
<1>2. \A i \in 1..Len(new) : new[i] \in Edit
  OBVIOUS
<1>3. core.id \in Nat /\ core.epoch \in Nat
  BY DEF TypeOK
<1>4. \A i \in 1..Len(new) :
          /\ [id |-> new[i].id, for |-> new[i].for, by |-> core.id] \in [id : Nat, for : Nat, by : Nat]
          /\ [id |-> new[i].id, core |-> core.id, epoch |-> core.epoch] \in Answer
  BY <1>2, <1>3 DEF Edit, Answer
<1>5. [i \in DOMAIN new |-> [id |-> new[i].id, for |-> new[i].for, by |-> core.id]]
          \in [1..Len(new) -> [id : Nat, for : Nat, by : Nat]]
  BY <1>1, <1>4
<1>6. [i \in DOMAIN new |-> [id |-> new[i].id, core |-> core.id, epoch |-> core.epoch]]
          \in [1..Len(new) -> Answer]
  BY <1>1, <1>4
<1>7. \A S : \A n \in Nat : [1..n -> S] \subseteq Seq(S)
  OBVIOUS
<1>8. QED
  BY <1>1, <1>5, <1>6, <1>7

LEMMA MonitorTypingInit ==
    ASSUME Init
    PROVE  TypeOK
<1>1. slotGen = 0 /\ local = NewLocal /\ slot = NoSample /\ tools.sample = NoSample
  BY DEF Init
<1>2. slot \in SampleType /\ NoSample \in SampleType
  BY <1>1, NoSampleType
<1>3. local \in Local
  BY <1>1, NewLocalType
<1>4. tools \in ToolsState /\ search \in Search
  BY <1>2 DEF Init, ToolsState, Search
<1>5. QED
  BY <1>2, <1>3, <1>4 DEF Init, TypeOK, Request

\* Typing of one step: what it leaves alone keeps its type.
LEMMA ToolsTyping ==
    ASSUME TypeOK,
           \/ \E viewer \in BOOLEAN : Change(viewer)
           \/ Write \/ Undo \/ StartScan \/ CancelScan \/ DropCore
           \/ Tick \/ UpdateRequest \/ Attach \/ PushEdit \/ CountEdit \/ TakeSample
           \/ \E done \in SUBSET DOMAIN ring : Drain(done)
           \/ \E game \in Game \union {None} : SwitchCore(game)
    PROVE  TypeOK'
<1> USE DEF shared, coreVars, uiVars, workVars
<1>a. tools \in ToolsState /\ search \in Search /\ request \in Request
  BY DEF TypeOK
<1>b. edits \in [queue : Seq(Edit), gen : Nat]
  BY DEF TypeOK
<1>c. core \in [id : Nat, game : Game \union {None}, epoch : Nat, attached : BOOLEAN]
  BY DEF TypeOK
<1>1. ASSUME NEW viewer \in BOOLEAN, Change(viewer) PROVE TypeOK'
  <2>1. tools' \in ToolsState
    BY <1>1 DEF Change, TypeOK, ToolsState
  <2>2. QED
    BY <1>1, <2>1 DEF Change, Act, TypeOK
<1>2. ASSUME NEW undoes \in Moment \union {None}, NEW undo, undo \subseteq tools.undo,
             Send(undoes, undo), Act
      PROVE  TypeOK'
  <2>1. tools' = [tools EXCEPT !.undo = undo, !.nextEdit = tools.nextEdit + 1,
                     !.pending = tools.pending \union {[id |-> tools.nextEdit, undoes |-> undoes]}]
    BY <1>2 DEF Send
  <2>2. tools.nextEdit \in Nat /\ undo \in SUBSET [id : Nat, epoch : Nat, made : Moment]
    BY <1>a, <1>2 DEF ToolsState
  <2>3. [id |-> tools.nextEdit, undoes |-> undoes] \in [id : Nat, undoes : Moment \union {None}]
    BY <1>2, <2>2
  <2>4. /\ tools.nextEdit + 1 \in Nat
        /\ tools.pending \union {[id |-> tools.nextEdit, undoes |-> undoes]}
               \in SUBSET [id : Nat, undoes : Moment \union {None}]
    BY <1>a, <2>2, <2>3 DEF ToolsState
  <2>5. tools' \in ToolsState
    BY <1>a, <2>1, <2>2, <2>4 DEF ToolsState
  <2>6. QED
    BY <1>2, <2>5 DEF Send, Act, TypeOK
<1>3. CASE Write
  BY <1>2, <1>3 DEF Write
<1>4. CASE Undo
  <2>1. PICK record \in tools.undo :
          /\ Act
          /\ IF record.epoch = tools.sample.epoch
             THEN Send(record.made, tools.undo \ {record})
             ELSE /\ tools' = [tools EXCEPT !.undo = @ \ {record}]
                  /\ UNCHANGED <<shared, coreVars, pc, workVars, applied>>
    BY <1>4 DEF Undo
  <2>2. record.made \in Moment
    BY DEF TypeOK, ToolsState
  <2>3. CASE record.epoch = tools.sample.epoch
    BY <1>2, <2>1, <2>2, <2>3
  <2>4. CASE record.epoch # tools.sample.epoch
    <3>1. tools' = [tools EXCEPT !.undo = tools.undo \ {record}]
      BY <2>1, <2>4
    <3>2. tools' \in ToolsState
      BY <1>a, <3>1 DEF ToolsState
    <3>3. QED
      BY <2>1, <2>4, <3>2 DEF Act, TypeOK
  <2>5. QED
    BY <2>3, <2>4
<1>5. CASE StartScan
  <2>1. [core |-> core.id, epoch |-> core.epoch] \in Moment
    BY <1>c DEF Moment
  <2>2. tools.nextJob \in Nat
    BY <1>a DEF ToolsState
  <2>3. tools' = [tools EXCEPT !.searching = TRUE, !.scan = tools.nextJob,
                     !.nextJob = tools.nextJob + 1]
    BY <1>5 DEF StartScan
  <2>4. tools' \in ToolsState
    <3>1. tools.nextJob + 1 \in Nat /\ tools.nextJob \in Nat \union {None}
      BY <2>2
    <3>2. QED
      BY <1>a, <2>3, <3>1 DEF ToolsState
  <2>5. search' = [search EXCEPT !.busy = TRUE, !.cancel = FALSE,
                      !.jobs = Append(search.jobs, tools.nextJob),
                      !.asked = [core |-> core.id, epoch |-> core.epoch]]
    BY <1>5 DEF StartScan
  <2>6. Append(search.jobs, tools.nextJob) \in Seq(Nat)
    BY <1>a, <2>2 DEF Search
  <2>7. search' \in Search
    BY <1>a, <2>1, <2>5, <2>6 DEF Search
  <2>8. QED
    BY <1>5, <2>4, <2>7 DEF StartScan, Act, TypeOK
<1>6. CASE CancelScan
  <2>1. search' \in Search
    BY <1>6 DEF CancelScan, TypeOK, Search
  <2>2. QED
    BY <1>6, <2>1 DEF CancelScan, TypeOK
<1>7. CASE DropCore
  BY <1>7 DEF DropCore, Act, TypeOK
<1>8. CASE Tick
  <2>1. tools' \in ToolsState
    BY <1>8, ZenonT(30) DEF Tick, EndTick, TypeOK, ToolsState
  <2>2. QED
    BY <1>8, <2>1 DEF Tick, EndTick, TypeOK
<1>9. CASE UpdateRequest
  <2>1. /\ request' = [gen |-> request.gen + 1, sampling |-> tools.viewer]
        /\ tools' = [tools EXCEPT !.probesGen = request.gen + 1]
    BY <1>9 DEF UpdateRequest
  <2>2. request.gen \in Nat /\ tools.viewer \in BOOLEAN
    BY <1>a DEF Request, ToolsState
  <2>3. request' \in Request
    BY <2>1, <2>2 DEF Request
  <2>4. tools' \in ToolsState
    BY <1>a, <2>1, <2>2 DEF ToolsState
  <2>5. QED
    BY <1>9, <2>3, <2>4 DEF UpdateRequest, TypeOK
<1>10. CASE Attach
  <2>1. Needed \in BOOLEAN
    BY DEF Needed
  <2>2. tools' \in ToolsState /\ job' \in Nat
    BY <1>10, <2>1 DEF Attach, TypeOK, ToolsState
  <2>3. QED
    BY <1>10, <2>2 DEF Attach, TypeOK
<1>11. CASE PushEdit
  <2>1. PICK edit \in tools.pending :
          edits' = [edits EXCEPT !.queue =
                       Append(@, [id |-> edit.id, undoes |-> edit.undoes, for |-> core.id])]
    BY <1>11 DEF PushEdit
  <2>2. [id |-> edit.id, undoes |-> edit.undoes, for |-> core.id] \in Edit
    BY <1>a, <1>c DEF ToolsState, Edit
  <2>3. edits' \in [queue : Seq(Edit), gen : Nat]
    BY <1>b, <2>1, <2>2, SMTT(30)
  <2>4. QED
    BY <1>11, <2>3 DEF PushEdit, TypeOK
<1>12. CASE CountEdit
  <2>1. edits' = [edits EXCEPT !.gen = edits.gen + 1]
    BY <1>12 DEF CountEdit
  <2>2. edits' \in [queue : Seq(Edit), gen : Nat]
    BY <1>b, <2>1
  <2>3. QED
    BY <1>12, <2>2 DEF CountEdit, TypeOK
<1>13. CASE TakeSample
  <2>1. tools' \in ToolsState
    BY <1>13 DEF TakeSample, TypeOK, ToolsState
  <2>2. QED
    BY <1>13, <2>1, NoSampleType DEF TakeSample, TypeOK
<1>14. ASSUME NEW done \in SUBSET DOMAIN ring, Drain(done) PROVE TypeOK'
  <2> DEFINE record(i) == [id |-> ring[i].id, epoch |-> tools.sample.epoch,
                           made |-> [core |-> ring[i].core, epoch |-> ring[i].epoch]]
             change == [tools EXCEPT !.pending = StillPending(ring),
                           !.undo = @ \union {record(i) : i \in done}]
  <2>1. \A i \in done : ring[i] \in Answer
    BY DEF TypeOK
  <2>2. tools.sample.epoch \in Nat
    BY DEF TypeOK, ToolsState, SampleType
  <2>3. \A i \in done : record(i) \in [id : Nat, epoch : Nat, made : Moment]
    BY <2>1, <2>2 DEF Answer, Moment
  <2>4. {record(i) : i \in done} \subseteq [id : Nat, epoch : Nat, made : Moment]
    BY <2>3
  <2>5. StillPending(ring) \subseteq tools.pending
    BY DEF StillPending
  <2>6. EndTick(tools.pending # {} /\ StillPending(ring) = {}, change)
    BY <1>14 DEF Drain
  <2> HIDE DEF record
  <2>7. change \in ToolsState
    BY <2>4, <2>5 DEF TypeOK, ToolsState
  <2> HIDE DEF change
  <2>8. tools' \in ToolsState /\ pc' \in {"request", "ready"}
    BY <2>6, <2>7 DEF EndTick, ToolsState
  <2>9. /\ ring' = <<>>
        /\ UNCHANGED <<request, edits, slot, slotGen, job, coreVars, workVars, acts, applied>>
    BY <1>14 DEF Drain
  <2>10. QED
    BY <2>8, <2>9 DEF TypeOK
<1>15. ASSUME NEW game \in Game \union {None}, SwitchCore(game) PROVE TypeOK'
  <2>1. tools' \in ToolsState
    BY <1>a, <1>15 DEF SwitchCore, ToolsState
  <2>2. search' = search \/ search' = [search EXCEPT !.jobs = Append(search.jobs, 0)]
    BY <1>15 DEF SwitchCore, Reset
  <2>3. Append(search.jobs, 0) \in Seq(Nat)
    BY <1>a DEF Search
  <2>4. search' \in Search
    BY <1>a, <2>2, <2>3 DEF Search
  <2>5. core' = [core EXCEPT !.id = core.id + 1, !.game = game, !.epoch = 0]
    BY <1>15 DEF SwitchCore
  <2>6. core.id + 1 \in Nat
    BY <1>c
  <2>7. core' \in [id : Nat, game : Game \union {None}, epoch : Nat, attached : BOOLEAN]
    BY <1>c, <2>5, <2>6
  <2>8. edits' = EditsDiscarded
    BY <1>15 DEF SwitchCore
  <2>9. edits' \in [queue : Seq(Edit), gen : Nat]
    <3>1. <<>> \in Seq(Edit)
      OBVIOUS
    <3>2. QED
      BY <1>b, <2>8, <3>1 DEF EditsDiscarded
  <2>10. /\ corePc' = "idle" /\ commands' = <<>> /\ pc' = "request"
         /\ UNCHANGED <<request, slot, slotGen, ring, job, local, snapshots, acts, applied>>
    BY <1>15 DEF SwitchCore
  <2>11. QED
    BY <2>1, <2>4, <2>7, <2>9, <2>10 DEF TypeOK
<1>16. QED
  BY <1>1, <1>3, <1>4, <1>5, <1>6, <1>7, <1>8, <1>9, <1>10, <1>11, <1>12, <1>13, <1>14, <1>15

LEMMA CoreTyping ==
    ASSUME TypeOK,
           \/ HandleCommand \/ Jump \/ BeginPass \/ PullRequest \/ Publish \/ Flush \/ Snapshot
           \/ \E taken, frame \in BOOLEAN : Service(taken, frame)
    PROVE  TypeOK'
<1> USE DEF shared, coreVars, uiVars, workVars
<1>a. local \in Local /\ request \in Request /\ slotGen \in Nat /\ ring \in Seq(Answer)
  BY DEF TypeOK
<1>b. edits \in [queue : Seq(Edit), gen : Nat]
  BY DEF TypeOK
<1>c. core \in [id : Nat, game : Game \union {None}, epoch : Nat, attached : BOOLEAN]
  BY DEF TypeOK
<1>d. (acts' = acts \/ Act) => acts' \in Nat
  BY DEF TypeOK, Act
<1>e. \A sections : Miss(sections) => Act
  BY DEF Miss
<1>1. CASE HandleCommand
  <2>1. core' = [core EXCEPT !.attached = Head(commands) = "attach"]
    BY <1>1 DEF HandleCommand
  <2>2. core' \in [id : Nat, game : Game \union {None}, epoch : Nat, attached : BOOLEAN]
    BY <1>c, <2>1
  <2>3. local' \in Local
    BY <1>1, <1>a, NewLocalType DEF HandleCommand
  <2>4. commands' \in Seq({"attach", "detach", "close"})
    BY <1>1 DEF HandleCommand, TypeOK
  <2>5. /\ corePc' \in {"ended", corePc}
        /\ UNCHANGED <<shared, uiVars, workVars, acts, applied>>
    BY <1>1 DEF HandleCommand
  <2>6. QED
    BY <2>2, <2>3, <2>4, <2>5 DEF TypeOK
<1>2. CASE Jump
  <2>1. core' = [core EXCEPT !.epoch = core.epoch + 1] /\ core.epoch + 1 \in Nat
    BY <1>2, <1>c DEF Jump
  <2>2. core' \in [id : Nat, game : Game \union {None}, epoch : Nat, attached : BOOLEAN]
    BY <1>c, <2>1
  <2>3. /\ acts' \in Nat
        /\ UNCHANGED <<shared, corePc, commands, local, uiVars, workVars, applied>>
    BY <1>2, <1>d DEF Jump
  <2>4. QED
    BY <2>2, <2>3 DEF TypeOK
<1>3. CASE BeginPass
  <2>1. local' = [local EXCEPT !.loaded = request.gen] /\ request.gen \in Nat
    BY <1>3, <1>a DEF BeginPass, Request
  <2>2. local' \in Local
    BY <1>a, <2>1 DEF Local
  <2>3. corePc' = "request" /\ UNCHANGED <<shared, core, commands, uiVars, workVars, acts, applied>>
    BY <1>3 DEF BeginPass
  <2>4. QED
    BY <2>2, <2>3 DEF TypeOK
<1>4. CASE PullRequest
  <2>1. \/ local' = [local EXCEPT !.request = request, !.seen = local.loaded, !.loaded = edits.gen,
                        !.changed = TRUE]
        \/ local' = [local EXCEPT !.changed = FALSE, !.loaded = edits.gen]
    BY <1>4 DEF PullRequest
  <2>2. local.loaded \in Nat /\ edits.gen \in Nat
    BY <1>a, <1>b DEF Local
  <2>3. local' \in Local
    BY <1>a, <2>1, <2>2 DEF Local
  <2>4. /\ corePc' = "edits"
        /\ UNCHANGED <<shared, core, commands, uiVars, workVars, applied>>
    BY <1>4 DEF PullRequest
  <2>5. acts' \in Nat
    BY <1>4, <1>d, <1>e DEF PullRequest
  <2>6. QED
    BY <2>3, <2>4, <2>5 DEF TypeOK
<1>5. CASE Publish
  <2>1. \/ /\ slot' = local.sample /\ slotGen' = local.sample.gen
           /\ local' = [local EXCEPT !.sample = NoSample, !.unpublished = FALSE]
        \/ UNCHANGED <<slot, slotGen, local>>
    BY <1>5 DEF Publish
  <2>2. local.sample \in SampleType /\ local.sample.gen \in Nat
    BY <1>a DEF Local, SampleType
  <2>3. [local EXCEPT !.sample = NoSample, !.unpublished = FALSE] \in Local
    BY <1>a, NoSampleType DEF Local
  <2>4. slot' \in SampleType /\ slotGen' \in Nat /\ local' \in Local
    BY <2>1, <2>2, <2>3 DEF TypeOK
  <2>5. /\ corePc' = "flush"
        /\ UNCHANGED <<request, edits, ring, job, core, commands, uiVars, workVars, applied>>
    BY <1>5 DEF Publish
  <2>6. acts' \in Nat
    BY <1>5, <1>d, <1>e DEF Publish
  <2>7. QED
    BY <2>4, <2>5, <2>6 DEF TypeOK
<1>6. CASE Flush
  <2> DEFINE all == ring \o local.answers
             surplus == IF Len(all) > RingCapacity THEN Len(all) - RingCapacity ELSE 0
  <2>1. \/ /\ ring' = SubSeq(all, surplus + 1, Len(all))
           /\ local' = [local EXCEPT !.answers = <<>>]
        \/ UNCHANGED <<ring, local>>
    BY <1>6 DEF Flush
  <2>2. all \in Seq(Answer) /\ <<>> \in Seq(Answer)
    BY <1>a DEF Local
  <2>3. surplus \in Nat /\ surplus <= Len(all)
    BY <2>2, BoundsAssumption
  <2>4. SubSeq(all, surplus + 1, Len(all)) \in Seq(Answer)
    <3> HIDE DEF all, surplus
    <3>1. surplus + 1 \in 1..(Len(all) + 1)
      BY <2>2, <2>3
    <3>2. \A i \in (surplus + 1)..Len(all) : all[i] \in Answer
      BY <2>2, <2>3
    <3>3. QED
      BY <2>2, <2>3, <3>1, <3>2
  <2>5. [local EXCEPT !.answers = <<>>] \in Local
    BY <1>a, <2>2 DEF Local
  <2>6. ring' \in Seq(Answer) /\ local' \in Local
    BY <1>a, <2>1, <2>4, <2>5
  <2>7. /\ corePc' = "snapshot"
        /\ UNCHANGED <<request, edits, slot, slotGen, job, core, commands, uiVars, workVars, applied>>
    BY <1>6 DEF Flush
  <2>8. acts' \in Nat
    BY <1>6, <1>d, <1>e DEF Flush
  <2>9. QED
    BY <2>6, <2>7, <2>8 DEF TypeOK
<1>7. CASE Snapshot
  <2>1. [job |-> job, core |-> core.id, epoch |-> core.epoch] \in [job : Nat, core : Nat, epoch : Nat]
    BY <1>c DEF TypeOK
  <2>2. snapshots \in Seq([job : Nat, core : Nat, epoch : Nat])
    BY DEF TypeOK
  <2>3. snapshots' \in Seq([job : Nat, core : Nat, epoch : Nat])
    <3>1. \/ snapshots' = snapshots
          \/ snapshots' = Append(snapshots, [job |-> job, core |-> core.id, epoch |-> core.epoch])
      BY <1>7 DEF Snapshot
    <3>2. \A x \in [job : Nat, core : Nat, epoch : Nat] :
              Append(snapshots, x) \in Seq([job : Nat, core : Nat, epoch : Nat])
      BY <2>2, Queued
    <3>3. QED
      BY <2>1, <2>2, <3>1, <3>2
  <2>4. /\ job' = 0 /\ corePc' = "idle"
        /\ UNCHANGED <<request, edits, slot, slotGen, ring, core, commands, local, uiVars, search,
                       acts, applied>>
    BY <1>7 DEF Snapshot
  <2>5. QED
    BY <2>3, <2>4 DEF TypeOK
<1>8. ASSUME NEW taken \in BOOLEAN, NEW frame \in BOOLEAN, Service(taken, frame)
      PROVE  TypeOK'
  <2> DEFINE new == IF taken THEN edits.queue ELSE <<>>
             done == [i \in DOMAIN new |-> [id |-> new[i].id, for |-> new[i].for, by |-> core.id]]
             answers == [i \in DOMAIN new |->
                            [id |-> new[i].id, core |-> core.id, epoch |-> core.epoch]]
             due == local.request.sampling /\ (local.changed \/ taken \/ frame)
  <2>1. /\ edits' = IF taken THEN [edits EXCEPT !.queue = <<>>] ELSE edits
        /\ applied' = applied \o done
        /\ local' = [local EXCEPT
                !.seenEdits = IF taken THEN local.loaded ELSE local.seenEdits,
                !.loaded = 0, !.changed = FALSE,
                !.answers = local.answers \o answers,
                !.sample = IF due THEN Sample ELSE local.sample,
                !.next = IF due THEN local.next + 1 ELSE local.next,
                !.unpublished = local.unpublished \/ due]
    BY <1>8 DEF Service
  <2>2. /\ corePc' = "publish"
        /\ UNCHANGED <<request, slot, slotGen, ring, job, core, commands, uiVars, workVars>>
    BY <1>8 DEF Service
  <2>3. acts' \in Nat
    BY <1>8, <1>d DEF Service
  <2>4. new \in Seq(Edit) /\ <<>> \in Seq(Edit)
    BY <1>b
  <2>5. done \in Seq([id : Nat, for : Nat, by : Nat]) /\ answers \in Seq(Answer)
    <3> HIDE DEF new
    <3>1. QED
      BY <2>4, ServedTypes
  <2> HIDE DEF new, done, answers
  <2>6. applied' \in Seq([id : Nat, for : Nat, by : Nat])
    BY <2>1, <2>5 DEF TypeOK
  <2>7. edits' \in [queue : Seq(Edit), gen : Nat]
    BY <1>b, <2>1, <2>4
  <2>8. /\ local.answers \o answers \in Seq(Answer)
        /\ (IF taken THEN local.loaded ELSE local.seenEdits) \in Nat
        /\ local.next + 1 \in Nat
        /\ (local.unpublished \/ due) \in BOOLEAN
    BY <1>a, <2>5 DEF Local
  <2>9. Sample \in SampleType
    BY <1>a, <1>c DEF Sample, SampleType, Local, Request
  <2> HIDE DEF due
  <2>10. local' \in Local
    BY <1>a, <2>1, <2>8, <2>9 DEF Local
  <2>11. QED
    BY <2>2, <2>3, <2>6, <2>7, <2>10 DEF TypeOK
<1>9. QED
  BY <1>1, <1>2, <1>3, <1>4, <1>5, <1>6, <1>7, <1>8

LEMMA WorkerTyping ==
    ASSUME TypeOK, TakeJob \/ ReceiveSnapshot \/ GiveUpScan
    PROVE  TypeOK'
<1> USE DEF shared, coreVars, uiVars, workVars
<1>a. search \in Search
  BY DEF TypeOK
<1>1. CASE TakeJob
  <2>1. search.jobs \in Seq(Nat) /\ search.jobs # <<>>
    BY <1>1, <1>a DEF TakeJob, Search
  <2>2. Head(search.jobs) \in Nat /\ Tail(search.jobs) \in Seq(Nat)
    BY <2>1
  <2>3. \/ search' = [search EXCEPT !.jobs = Tail(search.jobs), !.found = None]
        \/ search' = [search EXCEPT !.jobs = Tail(search.jobs), !.scanning = Head(search.jobs)]
    BY <1>1 DEF TakeJob
  <2>4. search' \in Search
    BY <1>a, <2>2, <2>3 DEF Search
  <2>5. QED
    BY <1>1, <2>4 DEF TakeJob, TypeOK
<1>2. CASE ReceiveSnapshot
  <2> DEFINE fresh == [core |-> Head(snapshots).core, epoch |-> Head(snapshots).epoch,
                       asked |-> search.asked]
  <2>1. /\ snapshots \in Seq([job : Nat, core : Nat, epoch : Nat])
        /\ snapshots # <<>> /\ snapshots' = Tail(snapshots)
    BY <1>2 DEF ReceiveSnapshot, TypeOK
  <2>2. /\ snapshots' \in Seq([job : Nat, core : Nat, epoch : Nat])
        /\ Head(snapshots) \in [job : Nat, core : Nat, epoch : Nat]
    BY <2>1, Queued
  <2>3. {fresh, None, search.found} \subseteq
            [core : Nat, epoch : Nat, asked : Moment \union {None}] \union {None}
    BY <1>a, <2>2 DEF Search
  <2>4. \/ search' = search
        \/ \E found \in {fresh, None, search.found} :
               search' = [search EXCEPT !.scanning = None, !.busy = FALSE, !.asked = None,
                             !.found = found]
    BY <1>2 DEF ReceiveSnapshot
  <2> HIDE DEF fresh
  <2>5. search' \in Search
    BY <1>a, <2>3, <2>4 DEF Search
  <2>6. UNCHANGED <<shared, coreVars, uiVars, acts, applied>>
    BY <1>2 DEF ReceiveSnapshot
  <2>7. QED
    BY <2>2, <2>5, <2>6 DEF TypeOK
<1>3. CASE GiveUpScan
  <2>1. search' \in Search
    BY <1>a, <1>3 DEF GiveUpScan, Search
  <2>2. QED
    BY <1>3, <2>1 DEF GiveUpScan, TypeOK
<1>4. QED
  BY <1>1, <1>2, <1>3

LEMMA MonitorTyping ==
    ASSUME TypeOK, [Next]_vars
    PROVE  TypeOK'
<1>1. CASE UNCHANGED vars
  BY <1>1 DEF TypeOK, vars, shared, coreVars, uiVars, workVars
<1>2. CASE Next
  BY <1>2, MonitorSteps, ToolsTyping, CoreTyping, WorkerTyping
<1>3. QED
  BY <1>1, <1>2

\* What the shared fields, the core thread, the tools and the worker hold, always.
THEOREM MonitorTypes == Spec => []TypeOK
<1>1. Init => TypeOK
  BY MonitorTypingInit
<1>2. TypeOK /\ [Next]_vars => TypeOK'
  BY MonitorTyping
<1>3. QED
  BY <1>1, <1>2, PTL DEF Spec

-----------------------------------------------------------------------------
(* Every edit once, by the core it was meant for. The frontend has counted  *)
(* one edit more than it has pushed while it is about to push.              *)

Made == IF pc = "push" THEN tools.nextEdit - 1 ELSE tools.nextEdit

\* What waits is meant for the core that runs and was made after all that was applied.
Sent ==
    /\ \A i \in DOMAIN edits.queue : edits.queue[i].for = core.id /\ edits.queue[i].id < Made
    /\ \A i, j \in DOMAIN edits.queue : i < j => edits.queue[i].id < edits.queue[j].id
    /\ \A i \in DOMAIN applied : applied[i].id < Made
    /\ \A i \in DOMAIN applied, j \in DOMAIN edits.queue : applied[i].id < edits.queue[j].id
    /\ EditsOnce

LEMMA SentTypes ==
    ASSUME TypeOK
    PROVE  /\ tools.nextEdit \in Nat /\ Made \in Int
           /\ edits.queue \in Seq(Edit)
           /\ \A i \in DOMAIN edits.queue : edits.queue[i].id \in Nat
           /\ \A i \in DOMAIN applied : applied[i].id \in Nat
<1>1. tools.nextEdit \in Nat
  BY DEF TypeOK, ToolsState
<1>2. edits.queue \in Seq(Edit) /\ applied \in Seq([id : Nat, for : Nat, by : Nat])
  BY DEF TypeOK
<1>3. \A i \in DOMAIN edits.queue : edits.queue[i] \in Edit
  BY <1>2
<1>4. \A i \in DOMAIN edits.queue : edits.queue[i].id \in Nat
  BY <1>3 DEF Edit
<1>5. \A i \in DOMAIN applied : applied[i] \in [id : Nat, for : Nat, by : Nat]
  BY <1>2, Queued
<1>6. \A i \in DOMAIN applied : applied[i].id \in Nat
  BY <1>5
<1>7. Made \in Int
  BY <1>1 DEF Made
<1>8. QED
  BY <1>1, <1>2, <1>4, <1>6, <1>7

LEMMA SentKept ==
    ASSUME TypeOK, TypeOK', Sent,
           edits'.queue = edits.queue, applied' = applied, core'.id = core.id, Made' >= Made
    PROVE  Sent'
<1>1. tools'.nextEdit \in Nat
  BY DEF TypeOK, ToolsState
<1>2. Made \in Int /\ Made' \in Int
  BY <1>1, SentTypes DEF Made
<1>3. /\ \A i \in DOMAIN edits.queue : edits.queue[i].id < Made'
      /\ \A i \in DOMAIN applied : applied[i].id < Made'
  BY <1>2, SentTypes DEF Sent
<1>4. QED
  BY <1>3 DEF Sent, EditsOnce

LEMMA SentToolsStep ==
    ASSUME TypeOK, TypeOK', Sent,
           \/ \E viewer \in BOOLEAN : Change(viewer)
           \/ Write \/ Undo \/ StartScan \/ CancelScan \/ DropCore
           \/ Tick \/ UpdateRequest \/ Attach \/ CountEdit \/ TakeSample
           \/ \E done \in SUBSET DOMAIN ring : Drain(done)
    PROVE  Sent'
<1> USE DEF shared, coreVars, uiVars, workVars
<1>a. tools \in ToolsState /\ tools.nextEdit \in Nat
  BY DEF TypeOK, ToolsState
<1>b. edits \in [queue : Seq(Edit), gen : Nat]
  BY DEF TypeOK
<1>1. ASSUME UNCHANGED <<edits, applied, core>>, tools'.nextEdit = tools.nextEdit,
             pc # "push", pc' # "push"
      PROVE  Sent'
  <2>1. Made' >= Made
    BY <1>1, <1>a DEF Made
  <2>2. QED
    BY <1>1, <2>1, SentKept
<1>2. ASSUME NEW undoes, NEW undo, Send(undoes, undo), pc = "ready"
      PROVE  Sent'
  <2>1. tools'.nextEdit = tools.nextEdit + 1
    BY <1>2, <1>a DEF Send, ToolsState
  <2>2. Made' >= Made
    BY <1>2, <1>a, <2>1 DEF Made, Send
  <2>3. UNCHANGED <<edits, applied, core>>
    BY <1>2 DEF Send
  <2>4. QED
    BY <2>2, <2>3, SentKept
<1>3. ASSUME NEW viewer \in BOOLEAN, Change(viewer) PROVE Sent'
  BY <1>a, <1>1, <1>3 DEF Change, ToolsState
<1>4. CASE Write
  BY <1>2, <1>4 DEF Write
<1>5. CASE Undo
  BY <1>a, <1>1, <1>2, <1>5 DEF Undo, ToolsState
<1>6. CASE StartScan
  BY <1>a, <1>1, <1>6 DEF StartScan, ToolsState
<1>7. CASE CancelScan
  BY <1>1, <1>7 DEF CancelScan
<1>8. CASE DropCore
  BY <1>1, <1>8 DEF DropCore
<1>9. CASE Tick
  <2>1. tools'.nextEdit = tools.nextEdit
    BY <1>a, <1>9 DEF Tick, EndTick, ToolsState
  <2>2. QED
    BY <1>1, <1>9, <2>1 DEF Tick, EndTick
<1>10. CASE UpdateRequest
  BY <1>a, <1>1, <1>10 DEF UpdateRequest, ToolsState
<1>11. CASE Attach
  BY <1>a, <1>1, <1>11 DEF Attach, ToolsState
<1>12. CASE CountEdit
  <2>1. edits'.queue = edits.queue
    BY <1>b, <1>12 DEF CountEdit
  <2>2. Made' >= Made
    BY <1>a, <1>12 DEF CountEdit, Made
  <2>3. applied' = applied /\ core' = core
    BY <1>12 DEF CountEdit
  <2>4. QED
    BY <2>1, <2>2, <2>3, SentKept
<1>13. CASE TakeSample
  BY <1>a, <1>1, <1>13 DEF TakeSample, ToolsState
<1>14. ASSUME NEW done \in SUBSET DOMAIN ring, Drain(done) PROVE Sent'
  <2>1. PICK push, pending, undo :
            EndTick(push, [tools EXCEPT !.pending = pending, !.undo = undo])
    BY <1>14 DEF Drain
  <2>2. tools'.nextEdit = tools.nextEdit /\ pc' # "push"
    BY <1>a, <2>1 DEF EndTick, ToolsState
  <2>3. QED
    BY <1>1, <1>14, <2>2 DEF Drain
<1>15. QED
  BY <1>3, <1>4, <1>5, <1>6, <1>7, <1>8, <1>9, <1>10, <1>11, <1>12, <1>13, <1>14

LEMMA SentPush ==
    ASSUME TypeOK, TypeOK', Sent, PushEdit
    PROVE  Sent'
<1> DEFINE new(edit) == [id |-> edit.id, undoes |-> edit.undoes, for |-> core.id]
           q == edits.queue
<1>1. PICK edit \in tools.pending :
          /\ pc = "push" /\ edit.id = tools.nextEdit - 1
          /\ edits' = [edits EXCEPT !.queue = Append(q, new(edit))]
          /\ pc' = "count" /\ applied' = applied /\ tools' = tools /\ core' = core
  BY DEF PushEdit, coreVars
<1>2. edits \in [queue : Seq(Edit), gen : Nat]
  BY DEF TypeOK
<1>3. edits'.queue = Append(q, new(edit)) /\ q \in Seq(Edit)
  BY <1>1, <1>2
<1>4. /\ Made = new(edit).id /\ Made' = tools.nextEdit
      /\ new(edit).for = core.id /\ Made \in Int /\ Made' = Made + 1
  BY <1>1, SentTypes DEF Made
<1> DEFINE n == new(edit)
<1> HIDE DEF new
<1>5. DOMAIN Append(q, n) = 1..(Len(q) + 1) /\ DOMAIN q = 1..Len(q) /\ Len(q) \in Nat
  BY <1>3
<1>6. \A i \in DOMAIN Append(q, n) :
          \/ i \in DOMAIN q /\ Append(q, n)[i] = q[i]
          \/ i = Len(q) + 1 /\ Append(q, n)[i] = n
  BY <1>3, <1>5
<1> DEFINE r == Append(q, n)
<1> HIDE DEF r, n
<1>7. edits'.queue = r /\ n.id = Made /\ n.for = core.id
  BY <1>3, <1>4 DEF r, n
<1>8. \A i \in DOMAIN r : (i \in DOMAIN q /\ r[i] = q[i]) \/ (i = Len(q) + 1 /\ r[i] = n)
  BY <1>6 DEF r
<1>9. /\ \A i \in DOMAIN q : q[i].for = core.id /\ q[i].id < Made /\ q[i].id \in Nat
      /\ \A i, j \in DOMAIN q : i < j => q[i].id < q[j].id
      /\ \A i \in DOMAIN applied : applied[i].id < Made /\ applied[i].id \in Nat
      /\ \A i \in DOMAIN applied, j \in DOMAIN q : applied[i].id < q[j].id
  BY SentTypes DEF Sent
<1> HIDE DEF q
<1>10. \A i \in DOMAIN r : r[i].for = core.id /\ r[i].id < Made'
  BY <1>4, <1>7, <1>8, <1>9
<1>11. \A i, j \in DOMAIN r : i < j => r[i].id < r[j].id
  BY <1>5, <1>7, <1>8, <1>9
<1>12. \A i \in DOMAIN applied : applied[i].id < Made'
  BY <1>4, <1>9
<1>13. \A i \in DOMAIN applied, j \in DOMAIN r : applied[i].id < r[j].id
  BY <1>7, <1>8, <1>9
<1>14. QED
  BY <1>1, <1>7, <1>10, <1>11, <1>12, <1>13 DEF Sent, EditsOnce

LEMMA SentService ==
    ASSUME TypeOK, TypeOK', Sent, NEW taken \in BOOLEAN, NEW frame \in BOOLEAN,
           Service(taken, frame)
    PROVE  Sent'
<1> DEFINE q == edits.queue
           done == [i \in DOMAIN q |-> [id |-> q[i].id, for |-> q[i].for, by |-> core.id]]
<1>a. edits \in [queue : Seq(Edit), gen : Nat] /\ applied \in Seq([id : Nat, for : Nat, by : Nat])
  BY DEF TypeOK
<1>b. Made' = Made /\ core' = core
  BY DEF Service, Made, uiVars
<1>1. CASE ~taken
  <2> DEFINE none == [i \in DOMAIN <<>> |->
                         [id |-> <<>>[i].id, for |-> <<>>[i].for, by |-> core.id]]
  <2>1. edits' = edits /\ applied' = applied \o none
    BY <1>1 DEF Service
  <2>2. applied' = applied
    <3>1. none = <<>>
      OBVIOUS
    <3>2. QED
      BY <1>a, <2>1, <3>1
  <2>3. Made' >= Made
    BY <1>b, SentTypes
  <2>4. QED
    BY <1>b, <2>1, <2>2, <2>3, SentKept
<1>2. CASE taken
  <2>1. edits' = [edits EXCEPT !.queue = <<>>] /\ applied' = applied \o done
    BY <1>2 DEF Service
  <2>2. edits'.queue = <<>>
    BY <1>a, <2>1
  <2>3. q \in Seq(Edit)
    BY <1>a
  <2>4. done \in Seq([id : Nat, for : Nat, by : Nat])
    <3> HIDE DEF q
    <3>1. QED
      BY <2>3, ServedTypes
  <2>5. DOMAIN done = DOMAIN q
    OBVIOUS
  <2>6. \A i \in DOMAIN q : done[i].id = q[i].id /\ done[i].for = q[i].for /\ done[i].by = core.id
    OBVIOUS
  <2>7. DOMAIN applied = 1..Len(applied) /\ Len(applied) \in Nat
        /\ DOMAIN q = 1..Len(q) /\ Len(q) \in Nat
    BY <1>a, <2>3
  <2> HIDE DEF done
  <2> DEFINE all == applied \o done
  <2>8. \A i \in DOMAIN all :
            \/ i \in DOMAIN applied /\ all[i] = applied[i]
            \/ \E j \in DOMAIN done : i = Len(applied) + j /\ all[i] = done[j]
    BY <1>a, <2>4, Batch
  <2> HIDE DEF all, q
  <2>9. /\ \A i \in DOMAIN q : q[i].for = core.id /\ q[i].id < Made
        /\ \A i, j \in DOMAIN q : i < j => q[i].id < q[j].id
        /\ \A i \in DOMAIN applied : applied[i].id < Made /\ applied[i].by = applied[i].for
        /\ \A i \in DOMAIN applied, j \in DOMAIN q : applied[i].id < q[j].id
        /\ \A i, j \in DOMAIN applied : i < j => applied[i].id < applied[j].id
    BY DEF Sent, EditsOnce, q
  <2>10. \A i \in DOMAIN all : all[i].by = all[i].for /\ all[i].id < Made
    BY <2>5, <2>6, <2>8, <2>9
  <2>11. \A i, j \in DOMAIN all : i < j => all[i].id < all[j].id
    <3>1. SUFFICES ASSUME NEW i \in DOMAIN all, NEW j \in DOMAIN all, i < j
                   PROVE  all[i].id < all[j].id
      OBVIOUS
    <3>2. CASE i \in DOMAIN applied /\ all[i] = applied[i]
      BY <2>5, <2>6, <2>8, <2>9, <3>1, <3>2
    <3>3. CASE \E k \in DOMAIN done : i = Len(applied) + k /\ all[i] = done[k]
      <4>1. PICK k \in DOMAIN done : i = Len(applied) + k /\ all[i] = done[k]
        BY <3>3
      <4>2. ~(j \in DOMAIN applied)
        BY <2>5, <2>7, <3>1, <4>1
      <4>3. PICK l \in DOMAIN done : j = Len(applied) + l /\ all[j] = done[l]
        BY <2>8, <4>2
      <4>4. k < l
        BY <2>5, <2>7, <3>1, <4>1, <4>3
      <4>5. QED
        BY <2>5, <2>6, <2>9, <4>1, <4>3, <4>4
    <3>4. QED
      BY <2>8, <3>2, <3>3
  <2>12. applied' = all
    BY <2>1 DEF all
  <2>13. QED
    BY <1>b, <2>2, <2>10, <2>11, <2>12 DEF Sent, EditsOnce
<1>3. QED
  BY <1>1, <1>2

LEMMA SentStep ==
    ASSUME TypeOK, TypeOK', Sent, [Next]_vars
    PROVE  Sent'
<1> USE DEF shared, coreVars, uiVars, workVars
<1>a. core \in [id : Nat, game : Game \union {None}, epoch : Nat, attached : BOOLEAN]
  BY DEF TypeOK
<1>1. ASSUME UNCHANGED <<edits, applied, uiVars>>, core'.id = core.id PROVE Sent'
  <2>1. Made' >= Made
    BY <1>1, SentTypes DEF Made
  <2>2. QED
    BY <1>1, <2>1, SentKept
<1>2. CASE UNCHANGED vars
  BY <1>1, <1>2 DEF vars
<1>3. CASE HandleCommand \/ Jump
  <2>1. core'.id = core.id
    BY <1>a, <1>3 DEF HandleCommand, Jump
  <2>2. QED
    BY <1>1, <1>3, <2>1 DEF HandleCommand, Jump
<1>4. CASE BeginPass \/ PullRequest \/ Publish \/ Flush \/ Snapshot
  BY <1>1, <1>4 DEF BeginPass, PullRequest, Publish, Flush, Snapshot
<1>5. CASE TakeJob \/ ReceiveSnapshot \/ GiveUpScan
  BY <1>1, <1>5 DEF TakeJob, ReceiveSnapshot, GiveUpScan
<1>6. ASSUME NEW game \in Game \union {None}, SwitchCore(game) PROVE Sent'
  <2>1. edits' = EditsDiscarded /\ applied' = applied /\ pc = "closing" /\ pc' = "request"
    BY <1>6 DEF SwitchCore
  <2>2. edits'.queue = <<>>
    BY <2>1 DEF EditsDiscarded, TypeOK
  <2>3. tools'.nextEdit = tools.nextEdit
    BY <1>6 DEF SwitchCore, TypeOK, ToolsState
  <2>4. Made' = Made
    BY <2>1, <2>3 DEF Made
  <2>5. QED
    BY <2>1, <2>2, <2>4 DEF Sent, EditsOnce
<1>7. CASE Next
  BY <1>3, <1>4, <1>5, <1>6, <1>7, MonitorSteps, SentToolsStep, SentPush, SentService
<1>8. QED
  BY <1>2, <1>7

\* An edit is applied once at most, in the order they were made, and by the core it
\* was meant for.
THEOREM OnceEach == Spec => []EditsOnce
<1>1. Init => Sent
  BY DEF Init, Sent, EditsOnce
<1>2. TypeOK /\ TypeOK' /\ Sent /\ [Next]_vars => Sent'
  BY SentStep
<1>3. Sent => EditsOnce
  BY DEF Sent
<1>4. QED
  BY <1>1, <1>2, <1>3, MonitorTypes, PTL DEF Spec

-----------------------------------------------------------------------------
(* A sample shows what it says. Its claim to answer the newest request is   *)
(* true, except while the request of a core just installed is to be pushed: *)
(* that push is what makes the claims of the old core's samples old.        *)

SoundSample(s) ==
    /\ s.claims <= request.gen
    /\ s.claims = request.gen => s.answers = request.gen /\ (s.core = core.id \/ pc = "request")

\* The core thread has pulled nothing newer than there is, and what it pulled under
\* the newest generation is the newest request.
Sampled ==
    /\ request.gen > 0 /\ tools.probesGen = request.gen
    /\ SoundSample(slot) /\ SoundSample(tools.sample) /\ SoundSample(local.sample)
    /\ local.seen <= request.gen
    /\ local.seen = request.gen => local.request.gen = request.gen
    /\ corePc = "request" => local.loaded <= request.gen

LEMMA SampledTypes ==
    ASSUME TypeOK
    PROVE  /\ request \in Request /\ request.gen \in Nat
           /\ local \in Local /\ local.seen \in Nat /\ local.loaded \in Nat
           /\ tools \in ToolsState
           /\ core \in [id : Nat, game : Game \union {None}, epoch : Nat, attached : BOOLEAN]
BY DEF TypeOK, Request, Local

\* What keeps the request: samples change places, the core goes on or is replaced.
LEMMA SampledKept ==
    ASSUME TypeOK, Sampled,
           request' = request, tools'.probesGen = tools.probesGen,
           slot' \in {slot, local.sample, NoSample},
           tools'.sample \in {tools.sample, slot},
           local'.sample \in {local.sample, NoSample},
           core'.id = core.id \/ pc' = "request",
           pc = "request" => pc' = "request",
           (local'.seen = local.seen /\ local'.request = local.request) \/ local'.seen = 0,
           corePc' = "request" => local'.loaded <= request.gen
    PROVE  Sampled'
<1>1. request.gen > 0 /\ request.gen \in Nat
  BY SampledTypes DEF Sampled
<1>2. SoundSample(slot) /\ SoundSample(tools.sample) /\ SoundSample(local.sample)
  BY DEF Sampled
<1>3. SoundSample(NoSample)
  BY <1>1, NoSampleType DEF SoundSample
<1>4. ASSUME NEW s, SoundSample(s)
      PROVE  /\ s.claims <= request.gen
             /\ s.claims = request.gen =>
                    s.answers = request.gen /\ (s.core = core'.id \/ pc' = "request")
  BY <1>4 DEF SoundSample
<1>5. SoundSample(slot)'
  BY <1>2, <1>3, <1>4 DEF SoundSample
<1>6. SoundSample(tools.sample)'
  BY <1>2, <1>4 DEF SoundSample
<1>7. SoundSample(local.sample)'
  BY <1>2, <1>3, <1>4 DEF SoundSample
<1>8. /\ local'.seen <= request.gen
      /\ local'.seen = request.gen => local'.request.gen = request.gen
  BY <1>1 DEF Sampled
<1>9. QED
  BY <1>1, <1>5, <1>6, <1>7, <1>8 DEF Sampled

LEMMA SampledToolsStep ==
    ASSUME TypeOK, Sampled,
           \/ \E viewer \in BOOLEAN : Change(viewer)
           \/ Write \/ Undo \/ StartScan \/ CancelScan \/ DropCore
           \/ Tick \/ Attach \/ PushEdit \/ CountEdit \/ TakeSample
           \/ \E done \in SUBSET DOMAIN ring : Drain(done)
           \/ \E game \in Game \union {None} : SwitchCore(game)
    PROVE  Sampled'
<1> USE DEF shared, coreVars, uiVars, workVars
<1>a. tools \in ToolsState
  BY DEF TypeOK
<1>b. corePc = "request" => local.loaded <= request.gen
  BY DEF Sampled
<1>1. ASSUME UNCHANGED <<request, core, corePc, local>>,
             slot' \in {slot, NoSample}, tools'.sample \in {tools.sample, slot},
             tools'.probesGen = tools.probesGen, pc # "request"
      PROVE  Sampled'
  BY <1>b, <1>1, SampledKept
<1>2. ASSUME NEW undoes, NEW undo, Send(undoes, undo), pc # "request"
      PROVE  Sampled'
  BY <1>a, <1>1, <1>2 DEF Send, ToolsState
<1>3. ASSUME NEW viewer \in BOOLEAN, Change(viewer) PROVE Sampled'
  BY <1>a, <1>1, <1>3 DEF Change, ToolsState
<1>4. CASE Write
  BY <1>2, <1>4 DEF Write
<1>5. CASE Undo
  BY <1>a, <1>1, <1>2, <1>5 DEF Undo, ToolsState
<1>6. CASE StartScan
  BY <1>a, <1>1, <1>6 DEF StartScan, ToolsState
<1>7. CASE CancelScan \/ DropCore
  BY <1>1, <1>7 DEF CancelScan, DropCore
<1>8. CASE Tick
  <2>1. tools'.sample = tools.sample /\ tools'.probesGen = tools.probesGen
    BY <1>a, <1>8 DEF Tick, EndTick, ToolsState
  <2>2. QED
    BY <1>1, <1>8, <2>1 DEF Tick
<1>9. CASE Attach
  <2>1. tools'.sample = tools.sample /\ tools'.probesGen = tools.probesGen
    BY <1>a, <1>9 DEF Attach, ToolsState
  <2>2. QED
    BY <1>1, <1>9, <2>1 DEF Attach
<1>10. CASE PushEdit \/ CountEdit
  BY <1>1, <1>10 DEF PushEdit, CountEdit
<1>11. CASE TakeSample
  BY <1>a, <1>1, <1>11 DEF TakeSample, ToolsState
<1>12. ASSUME NEW done \in SUBSET DOMAIN ring, Drain(done) PROVE Sampled'
  <2>1. PICK push, pending, undo :
            EndTick(push, [tools EXCEPT !.pending = pending, !.undo = undo])
    BY <1>12 DEF Drain
  <2>2. tools'.sample = tools.sample /\ tools'.probesGen = tools.probesGen
    BY <1>a, <2>1 DEF EndTick, ToolsState
  <2>3. QED
    BY <1>1, <1>12, <2>2 DEF Drain
<1>13. ASSUME NEW game \in Game \union {None}, SwitchCore(game) PROVE Sampled'
  <2>1. tools'.sample = tools.sample /\ tools'.probesGen = tools.probesGen
    BY <1>a, <1>13 DEF SwitchCore, ToolsState
  <2>2. pc' = "request" /\ corePc' = "idle" /\ UNCHANGED <<request, slot, local>>
    BY <1>13 DEF SwitchCore
  <2>3. QED
    BY <2>1, <2>2, SampledKept
<1>14. QED
  BY <1>3, <1>4, <1>5, <1>6, <1>7, <1>8, <1>9, <1>10, <1>11, <1>12, <1>13

\* A new request makes every claim there is old.
LEMMA SampledRequest ==
    ASSUME TypeOK, Sampled, UpdateRequest
    PROVE  Sampled'
<1>1. request.gen \in Nat /\ tools \in ToolsState /\ local.seen \in Nat /\ local.loaded \in Nat
  BY SampledTypes
<1>2. /\ request'.gen = request.gen + 1
      /\ tools'.probesGen = request.gen + 1 /\ tools'.sample = tools.sample
      /\ UNCHANGED <<slot, core, corePc, local>>
  BY <1>1 DEF UpdateRequest, ToolsState, coreVars
<1>3. /\ slot.claims \in Nat /\ tools.sample.claims \in Nat /\ local.sample.claims \in Nat
  BY DEF TypeOK, SampleType, ToolsState, Local
<1>4. ASSUME NEW s, SoundSample(s), s.claims \in Nat
      PROVE  s.claims <= request.gen + 1 /\ s.claims # request.gen + 1
  BY <1>1, <1>4 DEF SoundSample
<1>5. SoundSample(slot)' /\ SoundSample(tools.sample)' /\ SoundSample(local.sample)'
  BY <1>2, <1>3, <1>4 DEF SoundSample, Sampled
<1>6. /\ local.seen <= request.gen + 1 /\ local.seen # request.gen + 1
      /\ corePc = "request" => local.loaded <= request.gen + 1
  BY <1>1 DEF Sampled
<1>7. QED
  BY <1>1, <1>2, <1>5, <1>6 DEF Sampled

LEMMA SampledCoreStep ==
    ASSUME TypeOK, Sampled,
           HandleCommand \/ Jump \/ BeginPass \/ PullRequest \/ Publish \/ Flush \/ Snapshot
    PROVE  Sampled'
<1> USE DEF shared, coreVars, uiVars, workVars
<1>a. /\ request.gen \in Nat /\ local \in Local /\ local.loaded \in Nat
      /\ core \in [id : Nat, game : Game \union {None}, epoch : Nat, attached : BOOLEAN]
  BY SampledTypes
<1>1. ASSUME UNCHANGED <<request, tools, pc>>, core'.id = core.id,
             slot' \in {slot, local.sample}, local'.sample \in {local.sample, NoSample},
             (local'.seen = local.seen /\ local'.request = local.request) \/ local'.seen = 0,
             corePc' = "request" => local'.loaded <= request.gen
      PROVE  Sampled'
  BY <1>1, SampledKept
<1>2. CASE HandleCommand
  <2>1. core'.id = core.id
    BY <1>a, <1>2 DEF HandleCommand
  <2>2. local'.seen = 0 /\ local'.loaded = 0 /\ local'.sample = NoSample
    BY <1>2 DEF HandleCommand, NewLocal
  <2>3. 0 <= request.gen
    BY <1>a
  <2>4. QED
    BY <1>1, <1>2, <2>1, <2>2, <2>3 DEF HandleCommand
<1>3. CASE Jump
  <2>1. core'.id = core.id
    BY <1>a, <1>3 DEF Jump
  <2>2. corePc' = "idle" /\ UNCHANGED <<request, tools, pc, slot, local>>
    BY <1>3 DEF Jump
  <2>3. QED
    BY <1>1, <2>1, <2>2
<1>4. CASE BeginPass
  <2>1. /\ local'.seen = local.seen /\ local'.request = local.request
        /\ local'.sample = local.sample /\ local'.loaded = request.gen
    BY <1>a, <1>4 DEF BeginPass, Local
  <2>2. request.gen <= request.gen
    BY <1>a
  <2>3. QED
    BY <1>1, <1>4, <2>1, <2>2 DEF BeginPass
<1>5. CASE PullRequest
  <2>1. /\ corePc = "request" /\ corePc' = "edits"
        /\ UNCHANGED <<request, tools, pc, slot, core>>
    BY <1>5 DEF PullRequest
  <2>2. CASE local' = [local EXCEPT !.changed = FALSE, !.loaded = edits.gen]
    <3>1. /\ local'.seen = local.seen /\ local'.request = local.request
          /\ local'.sample = local.sample
      BY <1>a, <2>2 DEF Local
    <3>2. QED
      BY <1>1, <2>1, <3>1
  <2>3. CASE local' = [local EXCEPT !.request = request, !.seen = local.loaded,
                          !.loaded = edits.gen, !.changed = TRUE]
    <3>1. /\ local'.seen = local.loaded /\ local'.request = request
          /\ local'.sample = local.sample
      BY <1>a, <2>3 DEF Local
    <3>2. QED
      BY <2>1, <3>1 DEF Sampled, SoundSample
  <2>4. QED
    BY <1>5, <2>2, <2>3 DEF PullRequest
<1>6. CASE Publish
  <2>1. /\ corePc' = "flush"
        /\ UNCHANGED <<request, tools, pc, core>>
    BY <1>6 DEF Publish
  <2>2. \/ /\ slot' = local.sample
           /\ local' = [local EXCEPT !.sample = NoSample, !.unpublished = FALSE]
        \/ UNCHANGED <<slot, local>>
    BY <1>6 DEF Publish
  <2>3. /\ slot' \in {slot, local.sample} /\ local'.sample \in {local.sample, NoSample}
        /\ local'.seen = local.seen /\ local'.request = local.request
    BY <1>a, <2>2 DEF Local
  <2>4. QED
    BY <1>1, <2>1, <2>3
<1>7. CASE Flush
  <2>1. /\ corePc' = "snapshot"
        /\ UNCHANGED <<request, tools, pc, core, slot>>
    BY <1>7 DEF Flush
  <2>2. local' = local \/ local' = [local EXCEPT !.answers = <<>>]
    BY <1>7 DEF Flush
  <2>3. /\ local'.seen = local.seen /\ local'.request = local.request
        /\ local'.sample = local.sample
    BY <1>a, <2>2 DEF Local
  <2>4. QED
    BY <1>1, <2>1, <2>3
<1>8. CASE Snapshot
  BY <1>1, <1>8 DEF Snapshot
<1>9. QED
  BY <1>2, <1>3, <1>4, <1>5, <1>6, <1>7, <1>8

LEMMA SampledService ==
    ASSUME TypeOK, Sampled, NEW taken \in BOOLEAN, NEW frame \in BOOLEAN,
           Service(taken, frame)
    PROVE  Sampled'
<1> DEFINE due == local.request.sampling /\ (local.changed \/ taken \/ frame)
<1>1. local \in Local
  BY DEF TypeOK
<1>2. PICK seenEdits, answers, next, unpublished :
          local' = [local EXCEPT
            !.seenEdits = seenEdits, !.loaded = 0, !.changed = FALSE,
            !.answers = answers, !.sample = IF due THEN Sample ELSE local.sample,
            !.next = next, !.unpublished = unpublished]
  BY DEF Service
<1>3. /\ corePc' = "publish"
      /\ UNCHANGED <<request, slot, core, tools, pc>>
  BY DEF Service, uiVars
<1>4. /\ local'.sample = IF due THEN Sample ELSE local.sample
      /\ local'.seen = local.seen /\ local'.request = local.request
  BY <1>1, <1>2 DEF Local
<1>5. SoundSample(Sample)
  BY DEF Sampled, SoundSample, Sample
<1>6. SoundSample(local'.sample)
  BY <1>4, <1>5 DEF Sampled
<1>7. QED
  BY <1>3, <1>4, <1>6 DEF Sampled, SoundSample

LEMMA SampledStep ==
    ASSUME TypeOK, Sampled, [Next]_vars
    PROVE  Sampled'
<1>1. CASE UNCHANGED vars
  BY <1>1 DEF vars, shared, coreVars, uiVars, Sampled, SoundSample
<1>2. CASE TakeJob \/ ReceiveSnapshot \/ GiveUpScan
  BY <1>2 DEF TakeJob, ReceiveSnapshot, GiveUpScan, shared, coreVars, uiVars, Sampled, SoundSample
<1>3. CASE Next
  BY <1>2, <1>3, MonitorSteps, SampledToolsStep, SampledRequest, SampledCoreStep, SampledService
<1>4. QED
  BY <1>1, <1>3

\* A sample that says it answers the newest request was read for that very list of
\* probes, by the core that runs.
THEOREM HonestSamples == Spec => []ShowsWhatItSays
<1>1. Init => Sampled
  BY DEF Init, NewLocal, NoSample, Sampled, SoundSample
<1>2. TypeOK /\ Sampled /\ [Next]_vars => Sampled'
  BY SampledStep
<1>3. TypeOK /\ Sampled => ShowsWhatItSays
  <2>1. SUFFICES ASSUME TypeOK, Sampled, pc \in {"ready", "take", "drain"},
                        tools.sample.claims >= tools.probesGen
                 PROVE  tools.sample.answers = request.gen /\ tools.sample.core = core.id
    BY DEF ShowsWhatItSays
  <2>2. tools.sample.claims \in Nat /\ request.gen \in Nat
    BY <2>1 DEF TypeOK, ToolsState, SampleType, Request
  <2>3. tools.sample.claims = request.gen
    BY <2>1, <2>2 DEF Sampled, SoundSample
  <2>4. QED
    BY <2>1, <2>3 DEF Sampled, SoundSample
<1>4. QED
  BY <1>1, <1>2, <1>3, MonitorTypes, PTL DEF Spec

-----------------------------------------------------------------------------
(* A search finds what is in memory when it is asked for, or later. The     *)
(* jobs are counted up, so the newest scan's snapshot can only have been    *)
(* taken after that scan began.                                             *)

Newest == tools.nextJob - 1
Since(id, epoch, then) == id > then.core \/ (id = then.core /\ epoch >= then.epoch)

\* The jobs the worker has yet to take: the newest scan once at most.
JobsInOrder ==
    \A i \in DOMAIN search.jobs : search.jobs[i] # Reset =>
        /\ search.busy /\ search.scanning = None
        /\ search.jobs[i] = Newest
        /\ \A j \in DOMAIN search.jobs : search.jobs[j] # Reset => i = j

\* Every snapshot on its way is of a known scan, and the newest scan's is no older
\* than the scan.
SnapshotsFresh ==
    \A i \in DOMAIN snapshots :
        /\ snapshots[i].job <= Newest
        /\ search.busy /\ snapshots[i].job = Newest =>
               Since(snapshots[i].core, snapshots[i].epoch, search.asked)

Searched ==
    /\ tools.nextJob > 0 /\ job <= Newest
    /\ tools.scan # None => tools.scan <= Newest
    /\ search.busy => search.asked \in Moment /\ Since(core.id, core.epoch, search.asked)
    /\ ~search.busy => search.scanning = None
    /\ search.scanning # None => search.scanning = Newest
    /\ JobsInOrder
    /\ SnapshotsFresh
    /\ search.found # None => Since(search.found.core, search.found.epoch, search.found.asked)

LEMMA SearchedTypes ==
    ASSUME TypeOK
    PROVE  /\ tools \in ToolsState /\ tools.nextJob \in Nat /\ tools.scan \in Nat \union {None}
           /\ search \in Search /\ search.jobs \in Seq(Nat) /\ job \in Nat
           /\ snapshots \in Seq([job : Nat, core : Nat, epoch : Nat])
           /\ core \in [id : Nat, game : Game \union {None}, epoch : Nat, attached : BOOLEAN]
           /\ core.id \in Nat /\ core.epoch \in Nat
BY DEF TypeOK, ToolsState, Search

\* What a queue holds after its head is taken, or something is appended.
LEMMA QueueSteps ==
    ASSUME NEW S, NEW s \in Seq(S), NEW x \in S
    PROVE  /\ s # <<>> => /\ 1 \in DOMAIN s /\ Head(s) = s[1]
                          /\ \A i \in DOMAIN Tail(s) : i + 1 \in DOMAIN s /\ Tail(s)[i] = s[i + 1]
           /\ \A i \in DOMAIN Append(s, x) :
                  \/ i \in DOMAIN s /\ Append(s, x)[i] = s[i]
                  \/ i = Len(s) + 1 /\ Append(s, x)[i] = x
           /\ DOMAIN s = 1..Len(s) /\ Len(s) \in Nat
OBVIOUS

\* Time goes on: what a core holds now is no older than before.
LEMMA SinceMonotone ==
    ASSUME NEW then \in Moment, NEW id \in Nat, NEW epoch \in Nat, NEW id2 \in Nat, NEW epoch2 \in Nat,
           id2 > id \/ (id2 = id /\ epoch2 >= epoch), Since(id, epoch, then)
    PROVE  Since(id2, epoch2, then)
BY DEF Since, Moment

LEMMA SearchedKept ==
    ASSUME TypeOK, TypeOK', Searched,
           tools'.nextJob = tools.nextJob, tools'.scan \in {tools.scan, None},
           job' <= Newest,
           UNCHANGED <<search, snapshots>>,
           core'.id > core.id \/ (core'.id = core.id /\ core'.epoch >= core.epoch)
    PROVE  Searched'
<1>1. search.busy => Since(core'.id, core'.epoch, search.asked)
  <2>1. core'.id \in Nat /\ core'.epoch \in Nat
    BY DEF TypeOK
  <2>2. QED
    BY <2>1, SearchedTypes, SinceMonotone DEF Searched
<1>2. QED
  BY <1>1 DEF Searched, JobsInOrder, SnapshotsFresh, Newest, Since

LEMMA SearchedToolsStep ==
    ASSUME TypeOK, TypeOK', Searched,
           \/ \E viewer \in BOOLEAN : Change(viewer)
           \/ Write \/ Undo \/ DropCore
           \/ Tick \/ UpdateRequest \/ Attach \/ PushEdit \/ CountEdit \/ TakeSample
           \/ \E done \in SUBSET DOMAIN ring : Drain(done)
    PROVE  Searched'
<1> USE DEF shared, coreVars, uiVars, workVars
<1>a. tools \in ToolsState /\ job <= Newest /\ core.epoch >= core.epoch
  BY SearchedTypes DEF Searched
<1>1. ASSUME UNCHANGED <<job, core, search, snapshots>>,
             tools'.nextJob = tools.nextJob, tools'.scan = tools.scan
      PROVE  Searched'
  BY <1>a, <1>1, SearchedKept
<1>2. ASSUME NEW undoes, NEW undo, Send(undoes, undo) PROVE Searched'
  BY <1>a, <1>1, <1>2 DEF Send, ToolsState
<1>3. ASSUME NEW viewer \in BOOLEAN, Change(viewer) PROVE Searched'
  BY <1>a, <1>1, <1>3 DEF Change, ToolsState
<1>4. CASE Write
  BY <1>2, <1>4 DEF Write
<1>5. CASE Undo
  BY <1>a, <1>1, <1>2, <1>5 DEF Undo, ToolsState
<1>6. CASE DropCore
  BY <1>1, <1>6 DEF DropCore
<1>7. CASE Tick
  <2>1. tools'.nextJob = tools.nextJob /\ tools'.scan = tools.scan
    BY <1>a, <1>7 DEF Tick, EndTick, ToolsState
  <2>2. QED
    BY <1>1, <1>7, <2>1 DEF Tick
<1>8. CASE UpdateRequest
  BY <1>a, <1>1, <1>8 DEF UpdateRequest, ToolsState
<1>9. CASE Attach
  <2>1. tools'.nextJob = tools.nextJob /\ tools'.scan = None
    BY <1>a, <1>9 DEF Attach, ToolsState
  <2>2. job' <= Newest
    BY <1>9 DEF Attach, Searched
  <2>3. UNCHANGED <<search, snapshots, core>>
    BY <1>9 DEF Attach
  <2>4. QED
    BY <1>a, <2>1, <2>2, <2>3, SearchedKept
<1>10. CASE PushEdit \/ CountEdit
  BY <1>1, <1>10 DEF PushEdit, CountEdit
<1>11. CASE TakeSample
  BY <1>a, <1>1, <1>11 DEF TakeSample, ToolsState
<1>12. ASSUME NEW done \in SUBSET DOMAIN ring, Drain(done) PROVE Searched'
  <2>1. PICK push, pending, undo :
            EndTick(push, [tools EXCEPT !.pending = pending, !.undo = undo])
    BY <1>12 DEF Drain
  <2>2. tools'.nextJob = tools.nextJob /\ tools'.scan = tools.scan
    BY <1>a, <2>1 DEF EndTick, ToolsState
  <2>3. QED
    BY <1>1, <1>12, <2>2 DEF Drain
<1>13. QED
  BY <1>3, <1>4, <1>5, <1>6, <1>7, <1>8, <1>9, <1>10, <1>11, <1>12

\* A scan begins: no snapshot there is bears its job.
LEMMA SearchedStart ==
    ASSUME TypeOK, TypeOK', Searched, StartScan
    PROVE  Searched'
<1>1. /\ tools.nextJob \in Nat /\ search \in Search /\ search.jobs \in Seq(Nat) /\ job \in Nat
      /\ tools \in ToolsState /\ core.id \in Nat /\ core.epoch \in Nat
  BY SearchedTypes
<1>2. /\ ~search.busy
      /\ tools' = [tools EXCEPT !.searching = TRUE, !.scan = tools.nextJob,
                       !.nextJob = tools.nextJob + 1]
      /\ search' = [search EXCEPT !.busy = TRUE, !.cancel = FALSE,
                       !.jobs = Append(search.jobs, tools.nextJob),
                       !.asked = [core |-> core.id, epoch |-> core.epoch]]
      /\ UNCHANGED <<job, core, snapshots>>
  BY DEF StartScan, shared, coreVars
<1>3. /\ tools'.nextJob = tools.nextJob + 1 /\ tools'.scan = tools.nextJob
      /\ search'.busy /\ search'.jobs = Append(search.jobs, tools.nextJob)
      /\ search'.asked = [core |-> core.id, epoch |-> core.epoch]
      /\ search'.scanning = search.scanning /\ search'.found = search.found
  BY <1>1, <1>2 DEF ToolsState, Search
<1>4. Newest' = tools.nextJob /\ Newest' = Newest + 1 /\ Newest \in Int
  <2>1. \A n \in Nat : n + 1 - 1 = n /\ n = n - 1 + 1 /\ n - 1 \in Int
    OBVIOUS
  <2>2. tools'.nextJob = tools.nextJob + 1
    BY <1>3
  <2>3. Newest' = tools'.nextJob - 1 /\ Newest = tools.nextJob - 1
    BY DEF Newest
  <2>4. QED
    BY <1>1, <2>1, <2>2, <2>3
<1>5. search.scanning = None /\ \A i \in DOMAIN search.jobs : search.jobs[i] = Reset
  BY <1>2 DEF Searched, JobsInOrder
<1>6. JobsInOrder'
  <2>1. \A i \in DOMAIN search'.jobs :
            \/ i \in DOMAIN search.jobs /\ search'.jobs[i] = Reset
            \/ i = Len(search.jobs) + 1 /\ search'.jobs[i] = tools.nextJob
    BY <1>1, <1>3, <1>5, QueueSteps
  <2>2. QED
    BY <1>3, <1>4, <1>5, <2>1 DEF JobsInOrder
<1>7. SnapshotsFresh'
  <2>1. \A i \in DOMAIN snapshots : snapshots[i].job \in Nat
    <3>1. \A i \in DOMAIN snapshots : snapshots[i] \in [job : Nat, core : Nat, epoch : Nat]
      BY SearchedTypes, Queued
    <3>2. QED
      BY <3>1
  <2>2. \A i \in DOMAIN snapshots : snapshots[i].job <= Newest' /\ snapshots[i].job # Newest'
    BY <1>4, <2>1 DEF Searched, SnapshotsFresh
  <2>3. QED
    BY <1>2, <2>2 DEF SnapshotsFresh
<1>8. search'.asked \in Moment /\ Since(core'.id, core'.epoch, search'.asked)
  BY <1>1, <1>2, <1>3 DEF Moment, Since
<1>9. /\ tools'.nextJob > 0 /\ job' <= Newest' /\ tools'.scan <= Newest'
  BY <1>1, <1>2, <1>3, <1>4 DEF Searched
<1>10. search'.found # None => Since(search'.found.core, search'.found.epoch, search'.found.asked)
  BY <1>3 DEF Searched
<1>11. QED
  BY <1>3, <1>5, <1>6, <1>7, <1>8, <1>9, <1>10 DEF Searched, Since

LEMMA SearchedSwitch ==
    ASSUME TypeOK, TypeOK', Searched, NEW game \in Game \union {None}, SwitchCore(game)
    PROVE  Searched'
<1>1. /\ search \in Search /\ search.jobs \in Seq(Nat) /\ tools \in ToolsState
      /\ core \in [id : Nat, game : Game \union {None}, epoch : Nat, attached : BOOLEAN]
      /\ core.id \in Nat /\ core.epoch \in Nat
  BY SearchedTypes
<1>2. /\ core'.id = core.id + 1 /\ core'.epoch = 0
      /\ tools'.nextJob = tools.nextJob /\ tools'.scan = tools.scan
      /\ job' = job /\ snapshots' = snapshots
  BY <1>1 DEF SwitchCore, ToolsState
<1>3. /\ search'.busy = search.busy /\ search'.asked = search.asked
      /\ search'.scanning = search.scanning /\ search'.found = search.found
      /\ search'.jobs = search.jobs \/ search'.jobs = Append(search.jobs, Reset)
  BY <1>1 DEF SwitchCore, Search
<1>4. \A i \in DOMAIN search'.jobs : search'.jobs[i] # Reset =>
          i \in DOMAIN search.jobs /\ search'.jobs[i] = search.jobs[i]
  <2>1. Reset \in Nat
    BY DEF Reset
  <2>2. \A i \in DOMAIN Append(search.jobs, Reset) :
            \/ i \in DOMAIN search.jobs /\ Append(search.jobs, Reset)[i] = search.jobs[i]
            \/ Append(search.jobs, Reset)[i] = Reset
    BY <1>1, <2>1, QueueSteps
  <2>3. QED
    BY <1>3, <2>2
<1>5. JobsInOrder'
  BY <1>2, <1>3, <1>4 DEF Searched, JobsInOrder, Newest
<1>6. SnapshotsFresh'
  BY <1>2, <1>3 DEF Searched, SnapshotsFresh, Newest, Since
<1>7. search.busy => Since(core'.id, core'.epoch, search.asked)
  <2>1. core'.id \in Nat /\ core'.epoch \in Nat /\ core'.id > core.id
    BY <1>1, <1>2
  <2>2. QED
    BY <1>1, <2>1, SinceMonotone DEF Searched
<1>8. QED
  BY <1>2, <1>3, <1>5, <1>6, <1>7 DEF Searched, Newest, Since

LEMMA SearchedCoreStep ==
    ASSUME TypeOK, TypeOK', Searched,
           \/ HandleCommand \/ Jump \/ BeginPass \/ PullRequest \/ Publish \/ Flush
           \/ \E taken, frame \in BOOLEAN : Service(taken, frame)
    PROVE  Searched'
<1> USE DEF shared, coreVars, uiVars, workVars
<1>a. /\ core \in [id : Nat, game : Game \union {None}, epoch : Nat, attached : BOOLEAN]
      /\ core.epoch \in Nat /\ job <= Newest
  BY SearchedTypes DEF Searched
<1>1. ASSUME UNCHANGED <<job, tools, search, snapshots>>,
             core'.id = core.id /\ core'.epoch \in {core.epoch, core.epoch + 1}
      PROVE  Searched'
  <2>1. core'.epoch >= core.epoch
    BY <1>a, <1>1
  <2>2. QED
    BY <1>a, <1>1, <2>1, SearchedKept
<1>2. CASE HandleCommand
  <2>1. core'.id = core.id /\ core'.epoch = core.epoch
    BY <1>a, <1>2 DEF HandleCommand
  <2>2. QED
    BY <1>1, <1>2, <2>1 DEF HandleCommand
<1>3. CASE Jump
  <2>1. core'.id = core.id /\ core'.epoch = core.epoch + 1
    BY <1>a, <1>3 DEF Jump
  <2>2. QED
    BY <1>1, <1>3, <2>1 DEF Jump
<1>4. CASE BeginPass \/ PullRequest \/ Publish \/ Flush
  BY <1>1, <1>4 DEF BeginPass, PullRequest, Publish, Flush
<1>5. ASSUME NEW taken \in BOOLEAN, NEW frame \in BOOLEAN, Service(taken, frame) PROVE Searched'
  BY <1>1, <1>5 DEF Service
<1>6. QED
  BY <1>2, <1>3, <1>4, <1>5

\* The core thread sends what the newest scan asks for, as it is now.
LEMMA SearchedSnapshot ==
    ASSUME TypeOK, TypeOK', Searched, Snapshot
    PROVE  Searched'
<1> DEFINE new == [job |-> job, core |-> core.id, epoch |-> core.epoch]
<1>1. /\ snapshots \in Seq([job : Nat, core : Nat, epoch : Nat])
      /\ core.id \in Nat /\ core.epoch \in Nat /\ job \in Nat /\ tools.nextJob \in Nat
  BY SearchedTypes
<1>2. /\ snapshots' \in {snapshots, Append(snapshots, new)}
      /\ job' = 0 /\ UNCHANGED <<core, tools, search>>
  BY DEF Snapshot, uiVars
<1>3. new \in [job : Nat, core : Nat, epoch : Nat]
  BY <1>1
<1>4. \A i \in DOMAIN snapshots' :
          \/ i \in DOMAIN snapshots /\ snapshots'[i] = snapshots[i]
          \/ snapshots'[i] = new
  <2> HIDE DEF new
  <2>1. \A i \in DOMAIN Append(snapshots, new) :
            \/ i \in DOMAIN snapshots /\ Append(snapshots, new)[i] = snapshots[i]
            \/ Append(snapshots, new)[i] = new
    BY <1>1, <1>3, QueueSteps
  <2>2. QED
    BY <1>2, <2>1
<1>5. SnapshotsFresh'
  BY <1>2, <1>4 DEF Searched, SnapshotsFresh, Newest, Since
<1>6. job' <= Newest
  BY <1>1, <1>2 DEF Newest, Searched
<1>7. QED
  BY <1>2, <1>5, <1>6 DEF Searched, JobsInOrder, Newest, Since

LEMMA SearchedWorker ==
    ASSUME TypeOK, TypeOK', Searched, TakeJob \/ ReceiveSnapshot \/ GiveUpScan
    PROVE  Searched'
<1> USE DEF shared, coreVars, uiVars
<1>a. /\ search \in Search /\ search.jobs \in Seq(Nat)
      /\ snapshots \in Seq([job : Nat, core : Nat, epoch : Nat])
  BY SearchedTypes
<1>1. ASSUME UNCHANGED <<job, tools, core>>,
             search'.busy => search.busy /\ search'.asked = search.asked,
             search'.scanning # None => search'.scanning = Newest /\ search'.busy,
             JobsInOrder', SnapshotsFresh',
             search'.found # None =>
                 Since(search'.found.core, search'.found.epoch, search'.found.asked)
      PROVE  Searched'
  BY <1>1 DEF Searched, Newest, Since
<1>2. CASE TakeJob
  <2>1. /\ search.scanning = None /\ search.jobs # <<>>
        /\ UNCHANGED <<job, tools, core, snapshots>>
    BY <1>2 DEF TakeJob
  <2>2. /\ search'.jobs = Tail(search.jobs)
        /\ search'.busy = search.busy /\ search'.asked = search.asked
        /\ search'.scanning = IF Head(search.jobs) = Reset THEN search.scanning ELSE Head(search.jobs)
        /\ search'.found = IF Head(search.jobs) = Reset THEN None ELSE search.found
    BY <1>a, <1>2 DEF TakeJob, Search
  <2>3. /\ 1 \in DOMAIN search.jobs /\ Head(search.jobs) = search.jobs[1]
        /\ \A i \in DOMAIN search'.jobs :
               i + 1 \in DOMAIN search.jobs /\ search'.jobs[i] = search.jobs[i + 1] /\ i \in Nat \ {0}
    <3>1. Tail(search.jobs) \in Seq(Nat)
      BY <1>a, <2>1, Queued
    <3>2. \A i \in DOMAIN Tail(search.jobs) : i \in Nat \ {0}
      BY <3>1
    <3>3. 0 \in Nat
      OBVIOUS
    <3>4. QED
      BY <1>a, <2>1, <2>2, <3>2, <3>3, QueueSteps
  <2>4. Head(search.jobs) # Reset =>
            /\ Head(search.jobs) = Newest /\ search.busy
            /\ \A i \in DOMAIN search'.jobs : search'.jobs[i] = Reset
    BY <2>3 DEF Searched, JobsInOrder
  <2>5. JobsInOrder'
    <3>1. CASE Head(search.jobs) = Reset
      <4>1. \A i, j \in DOMAIN search'.jobs : i + 1 = j + 1 => i = j
        BY <2>3
      <4>2. QED
        BY <2>1, <2>2, <2>3, <3>1, <4>1 DEF Searched, JobsInOrder, Newest
    <3>2. CASE Head(search.jobs) # Reset
      BY <2>4, <3>2 DEF JobsInOrder
    <3>3. QED
      BY <3>1, <3>2
  <2>6. SnapshotsFresh'
    BY <2>1, <2>2 DEF Searched, SnapshotsFresh, Newest, Since
  <2>7. search'.found # None =>
            Since(search'.found.core, search'.found.epoch, search'.found.asked)
    BY <2>2 DEF Searched
  <2>8. search'.scanning # None => search'.scanning = Newest /\ search'.busy
    BY <2>1, <2>2, <2>4
  <2>9. QED
    BY <1>1, <2>1, <2>2, <2>5, <2>6, <2>7, <2>8
<1>3. CASE ReceiveSnapshot
  <2> DEFINE fresh == [core |-> Head(snapshots).core, epoch |-> Head(snapshots).epoch,
                       asked |-> search.asked]
  <2>1. /\ search.scanning # None /\ snapshots # <<>> /\ snapshots' = Tail(snapshots)
        /\ UNCHANGED <<job, tools, core>>
    BY <1>3 DEF ReceiveSnapshot
  <2>2. search.busy /\ search.scanning = Newest
    BY <2>1 DEF Searched
  <2>3. /\ 1 \in DOMAIN snapshots /\ Head(snapshots) = snapshots[1]
        /\ \A i \in DOMAIN snapshots' :
               i + 1 \in DOMAIN snapshots /\ snapshots'[i] = snapshots[i + 1]
    <3>1. Head(snapshots) \in [job : Nat, core : Nat, epoch : Nat]
      BY <1>a, <2>1, Queued
    <3>2. QED
      BY <1>a, <2>1, <3>1, QueueSteps
  <2>4. \A i \in DOMAIN search.jobs : search.jobs[i] = Reset
    BY <2>1 DEF Searched, JobsInOrder
  <2>5. CASE ~IsTheScans(Head(snapshots))
    <3>1. search' = search
      BY <1>3, <2>5 DEF ReceiveSnapshot
    <3>2. JobsInOrder'
      BY <2>4, <3>1 DEF JobsInOrder
    <3>3. SnapshotsFresh'
      BY <2>1, <2>3, <3>1 DEF Searched, SnapshotsFresh, Newest, Since
    <3>4. QED
      BY <1>1, <2>1, <2>2, <3>1, <3>2, <3>3 DEF Searched
  <2>6. CASE IsTheScans(Head(snapshots))
    <3>1. Since(fresh.core, fresh.epoch, fresh.asked)
      BY <2>2, <2>3, <2>6 DEF IsTheScans, Searched, SnapshotsFresh
    <3>2. PICK found \in {fresh, None, search.found} :
              search' = [search EXCEPT !.scanning = None, !.busy = FALSE, !.asked = None,
                            !.found = found]
      BY <1>3, <2>6 DEF ReceiveSnapshot
    <3>3. found # None => Since(found.core, found.epoch, found.asked)
      BY <3>1, <3>2 DEF Searched
    <3> HIDE DEF fresh
    <3>4. /\ search'.scanning = None /\ ~search'.busy /\ search'.found = found
          /\ search'.jobs = search.jobs
      BY <1>a, <3>2 DEF Search
    <3>5. JobsInOrder'
      BY <2>4, <3>4 DEF JobsInOrder
    <3>6. SnapshotsFresh'
      BY <2>1, <2>3, <3>4 DEF Searched, SnapshotsFresh, Newest
    <3>7. QED
      BY <1>1, <2>1, <3>3, <3>4, <3>5, <3>6
  <2>7. QED
    BY <2>5, <2>6
<1>4. CASE GiveUpScan
  <2>1. /\ search.scanning # None /\ snapshots = <<>>
        /\ UNCHANGED <<job, tools, core, snapshots>>
    BY <1>4 DEF GiveUpScan
  <2>2. /\ search'.scanning = None /\ ~search'.busy
        /\ search'.jobs = search.jobs /\ search'.found = search.found
    BY <1>a, <1>4 DEF GiveUpScan, Search
  <2>3. JobsInOrder'
    BY <2>1, <2>2 DEF Searched, JobsInOrder
  <2>4. SnapshotsFresh'
    BY <2>1, <2>2 DEF Searched, SnapshotsFresh, Newest
  <2>5. QED
    BY <1>1, <2>1, <2>2, <2>3, <2>4 DEF Searched
<1>5. QED
  BY <1>2, <1>3, <1>4

LEMMA SearchedStep ==
    ASSUME TypeOK, TypeOK', Searched, [Next]_vars
    PROVE  Searched'
<1>1. CASE UNCHANGED vars
  BY <1>1 DEF vars, shared, coreVars, uiVars, workVars, Searched, JobsInOrder, SnapshotsFresh,
              Newest, Since
<1>2. CASE CancelScan
  <2>1. search' = [search EXCEPT !.cancel = TRUE] /\ search \in Search
    BY <1>2, SearchedTypes DEF CancelScan
  <2>2. /\ search'.busy = search.busy /\ search'.asked = search.asked
        /\ search'.scanning = search.scanning /\ search'.found = search.found
        /\ search'.jobs = search.jobs
    BY <2>1 DEF Search
  <2>3. UNCHANGED <<job, tools, core, snapshots>>
    BY <1>2 DEF CancelScan, shared, coreVars, uiVars
  <2>4. QED
    BY <2>2, <2>3 DEF Searched, JobsInOrder, SnapshotsFresh, Newest, Since
<1>3. CASE Next
  BY <1>2, <1>3, MonitorSteps, SearchedToolsStep, SearchedStart, SearchedSwitch, SearchedCoreStep,
     SearchedSnapshot, SearchedWorker
<1>4. QED
  BY <1>1, <1>3

\* A search found what it did in memory as it was when the scan was asked for, or later.
THEOREM FreshScans == Spec => []ScanIsFresh
<1>1. Init => Searched
  BY DEF Init, Searched, JobsInOrder, SnapshotsFresh, Newest
<1>2. TypeOK /\ TypeOK' /\ Searched /\ [Next]_vars => Searched'
  BY SearchedStep
<1>3. Searched => ScanIsFresh
  BY DEF Searched, Since, ScanIsFresh
<1>4. QED
  BY <1>1, <1>2, <1>3, MonitorTypes, PTL DEF Spec
=============================================================================
