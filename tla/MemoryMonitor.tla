--------------------------- MODULE MemoryMonitor ---------------------------
(* The RAM tools' memory monitor: MemoryTools on the frontend's thread asks *)
(* for samples, edits and full snapshots through MemoryMonitorShared; the   *)
(* core thread's MemoryMonitorLocal answers between frames and never waits, *)
(* it gives up on a lock that is held (try_lock) and comes back on its next *)
(* pass; a worker thread scans the snapshots. Cores are replaced (a new ROM *)
(* or save file) under all this.                                            *)
(*                                                                          *)
(* A request stands for its generation and whether it samples. Of an edit   *)
(* only its id and whom it was meant for are kept, of a sample what it was  *)
(* taken for and from. Traces and freezes, which one pass handles alone on  *)
(* the core thread, are left out, and so is redo, undo's mirror image.      *)
EXTENDS Integers, Sequences

CONSTANTS
    Game,        \* what can be loaded
    None,        \* no game, no snapshot
    RingCapacity,\* EVENT_RING_CAPACITY
    MaxActs      \* bound: what the user does (changes, writes, scans, states loaded, cores
                 \* replaced), frames that end with a sample due, and locks the core thread
                 \* finds held

ASSUME BoundsAssumption == None \notin Game /\ RingCapacity \in Nat /\ MaxActs \in Nat

VARIABLES
    request,     \* the request: its generation, and whether it asks for samples
    edits,       \* the edits waiting for a core, and edits_generation
    slot,        \* the sample in the shared mutex
    slotGen,     \* sample_generation
    ring,        \* the answers to edits that the tools have not drained
    job,         \* snapshot_requested
    core,        \* the core: which, its game, its epoch, whether attached
    corePc,      \* where the core thread is in its loop
    commands,    \* its command queue
    local,       \* MemoryMonitorLocal
    tools,       \* MemoryTools
    pc,          \* where the frontend's thread is in it
    search,      \* SearchShared, the jobs and the worker
    snapshots,   \* the channel from the core to the worker
    acts,        \* how much is used up of the bound
    applied      \* history: the edits applied, in order, each with the core that did

shared == <<request, edits, slot, slotGen, ring, job>>
uiVars == <<tools, pc>>
coreVars == <<core, corePc, commands, local>>
workVars == <<search, snapshots>>
vars == <<shared, coreVars, uiVars, workVars, acts, applied>>

NoSample == [gen |-> 0, claims |-> 0, answers |-> 0, core |-> 0, epoch |-> 0]

\* A mutant of the next definition: it counts from what it finds.
NewLocalRestarting == [
    request |-> [gen |-> 0, sampling |-> FALSE], seen |-> 0, seenEdits |-> 0, loaded |-> 0,
    changed |-> FALSE, answers |-> <<>>, sample |-> NoSample, unpublished |-> FALSE, next |-> 1]

\* MemoryMonitorLocal::new: sample generations go on where the last core's ended.
NewLocal == [
    request |-> [gen |-> 0, sampling |-> FALSE], seen |-> 0, seenEdits |-> 0, loaded |-> 0,
    changed |-> FALSE, answers |-> <<>>, sample |-> NoSample, unpublished |-> FALSE, next |-> slotGen + 1]

\* After the first game was loaded and core_switched has pushed an idle request.
Init ==
    /\ request = [gen |-> 2, sampling |-> FALSE]
    /\ edits = [queue |-> <<>>, gen |-> 0]
    /\ slot = NoSample /\ slotGen = 0
    /\ ring = <<>>
    /\ job = 0
    /\ \E game \in Game :
        core = [id |-> 1, game |-> game, epoch |-> 0, attached |-> FALSE]
    /\ corePc = "idle"
    /\ commands = <<>>
    /\ local = NewLocal
    /\ tools = [attached |-> FALSE, viewer |-> FALSE, sample |-> NoSample, probesGen |-> 2,
                pending |-> {}, nextEdit |-> 1, undo |-> {},
                searching |-> FALSE, scan |-> None, nextJob |-> 1]
    /\ pc = "ready"
    /\ search = [busy |-> FALSE, cancel |-> FALSE, jobs |-> <<>>, scanning |-> None,
                 found |-> None, asked |-> None]
    /\ snapshots = <<>>
    /\ acts = 0
    /\ applied = <<>>

\* The bound on what happens to the tools and the core.
Act == acts < MaxActs /\ acts' = acts + 1

-----------------------------------------------------------------------------
(* MemoryTools, on the frontend's thread. Each of its critical sections and *)
(* each atomic it stores is a step of its own.                              *)

\* Anything that changes what the tools want (a viewer, a watch, a rate) and pushes
\* the request.
Change(viewer) ==
    /\ pc = "ready"
    /\ Act
    /\ tools' = [tools EXCEPT !.viewer = viewer]
    /\ pc' = "request"
    /\ UNCHANGED <<shared, coreVars, workVars, applied>>

\* push_request, the critical section of update_request.
UpdateRequest ==
    /\ pc = "request"
    /\ request' = [gen |-> request.gen + 1, sampling |-> tools.viewer]
    /\ tools' = [tools EXCEPT !.probesGen = request.gen + 1]
    /\ pc' = "attach"
    /\ UNCHANGED <<edits, slot, slotGen, ring, job, coreVars, workVars, acts, applied>>

\* A mutant of the next definition: an edit's answer is not waited for.
NeededUnlessEditing == core.game # None /\ (request.sampling \/ tools.searching)

Needed ==
    /\ core.game # None
    /\ request.sampling \/ tools.searching \/ tools.pending # {}

\* ... and the monitor is attached or detached; a scan then asks for its snapshot.
Attach ==
    /\ pc = "attach"
    /\ tools' = [tools EXCEPT !.attached = Needed, !.scan = None]
    /\ commands' = IF Needed = tools.attached THEN commands
                   ELSE Append(commands, IF Needed THEN "attach" ELSE "detach")
    /\ job' = IF tools.scan = None THEN job ELSE tools.scan
    /\ pc' = "ready"
    /\ UNCHANGED <<request, edits, slot, slotGen, ring, core, corePc, local, workVars, acts, applied>>

\* send_edit, up to push_edit's critical section.
Send(undoes, undo) ==
    /\ tools' = [tools EXCEPT !.undo = undo, !.nextEdit = @ + 1,
                    !.pending = @ \union {[id |-> tools.nextEdit, undoes |-> undoes]}]
    /\ pc' = "push"
    /\ UNCHANGED <<shared, coreVars, workVars, applied>>

Write ==
    /\ pc = "ready"
    /\ core.game # None
    /\ Act
    /\ Send(None, tools.undo)

\* The newest record is taken off the stack; one of another epoch than the sample's is
\* refused.
Undo == \E record \in tools.undo :
    /\ pc = "ready"
    /\ core.game # None
    /\ \A r \in tools.undo : r.id <= record.id
    /\ Act
    /\ IF record.epoch = tools.sample.epoch
       THEN Send(record.made, tools.undo \ {record})
       ELSE /\ tools' = [tools EXCEPT !.undo = @ \ {record}]
            /\ UNCHANGED <<shared, coreVars, pc, workVars, applied>>

PushEdit == \E edit \in tools.pending :
    /\ pc = "push"
    /\ edit.id = tools.nextEdit - 1
    /\ edits' = [edits EXCEPT !.queue =
                    Append(@, [id |-> edit.id, undoes |-> edit.undoes, for |-> core.id])]
    /\ pc' = "count"
    /\ UNCHANGED <<request, slot, slotGen, ring, job, coreVars, tools, workVars, acts, applied>>

\* push_edit bumps the generation after it let go of the lock.
CountEdit ==
    /\ pc = "count"
    /\ edits' = [edits EXCEPT !.gen = @ + 1]
    /\ pc' = "request"
    /\ UNCHANGED <<request, slot, slotGen, ring, job, coreVars, tools, workVars, acts, applied>>

StartScan ==
    /\ pc = "ready"
    /\ core.game # None
    /\ ~search.busy
    /\ Act
    /\ search' = [search EXCEPT !.busy = TRUE, !.cancel = FALSE,
                     !.jobs = Append(@, tools.nextJob),
                     !.asked = [core |-> core.id, epoch |-> core.epoch]]
    /\ tools' = [tools EXCEPT !.searching = TRUE, !.scan = tools.nextJob, !.nextJob = @ + 1]
    /\ pc' = "request"
    /\ UNCHANGED <<shared, coreVars, snapshots, applied>>

CancelScan ==
    /\ pc = "ready"
    /\ search.busy /\ ~search.cancel
    /\ search' = [search EXCEPT !.cancel = TRUE]
    /\ UNCHANGED <<shared, coreVars, uiVars, snapshots, acts, applied>>

\* assign_core: the old core is dropped, which waits for its thread to end ...
DropCore ==
    /\ pc = "ready"
    /\ Act
    /\ commands' = Append(commands, "close")
    /\ pc' = "closing"
    /\ UNCHANGED <<shared, core, corePc, local, tools, workVars, applied>>

Reset == 0

\* Mutant of the next definition: the new core gets the old one's edits.
EditsKept == edits

EditsDiscarded == [edits EXCEPT !.queue = <<>>]

\* ... and core_switched is told of the new one, which nobody serves yet.
SwitchCore(game) ==
    /\ pc = "closing"
    /\ corePc = "ended"
    /\ core' = [core EXCEPT !.id = @ + 1, !.game = game, !.epoch = 0]
    /\ corePc' = "idle"
    /\ commands' = <<>>
    /\ tools' = [tools EXCEPT !.attached = FALSE, !.pending = {},
                    !.undo = IF game = core.game THEN @ ELSE {}]
    /\ search' = IF game # core.game /\ search.found # None
                 THEN [search EXCEPT !.jobs = Append(@, Reset)] ELSE search
    /\ edits' = EditsDiscarded
    /\ pc' = "request"
    /\ UNCHANGED <<request, slot, slotGen, ring, job, local, snapshots, acts, applied>>

\* The end of tick: a scan that ended is noted, and the request pushed again when that
\* or an answer changed what is wanted. (The worker's flag is read in the step before.)
EndTick(push, change) ==
    LET ended == tools.searching /\ ~search.busy IN
    /\ tools' = [change EXCEPT !.searching = @ /\ ~ended]
    /\ pc' = IF push \/ ended THEN "request" ELSE "ready"

\* tick, as far as take_sample's load of sample_generation; a detached monitor is
\* neither sampled nor drained.
Tick ==
    /\ pc = "ready"
    /\ IF tools.attached
       THEN /\ pc' = IF slotGen > tools.sample.gen THEN "take" ELSE "drain"
            /\ UNCHANGED tools
       ELSE EndTick(FALSE, tools)
    /\ UNCHANGED <<shared, coreVars, workVars, acts, applied>>

\* A sample is swapped for the one seen last, whose buffers the core thread reuses.
TakeSample ==
    /\ pc = "take"
    /\ IF slot.gen > tools.sample.gen
       THEN slot' = NoSample /\ tools' = [tools EXCEPT !.sample = slot]
       ELSE UNCHANGED <<slot, tools>>
    /\ pc' = "drain"
    /\ UNCHANGED <<request, edits, slotGen, ring, job, coreVars, workVars, acts, applied>>

\* take_pending_edit: what is older than an edit that was answered lost its answer.
StillPending(answers) ==
    {e \in tools.pending : \A i \in DOMAIN answers : answers[i].id < e.id}

\* absorb_events: the user's writes that were done go on the undo stack.
Drain(done) ==
    LET pending == StillPending(ring)
        record(i) == [id |-> ring[i].id, epoch |-> tools.sample.epoch,
                      made |-> [core |-> ring[i].core, epoch |-> ring[i].epoch]]
    IN
    /\ pc = "drain"
    /\ \A i \in done : [id |-> ring[i].id, undoes |-> None] \in tools.pending
    /\ ring' = <<>>
    /\ EndTick(tools.pending # {} /\ pending = {},
               [tools EXCEPT !.pending = pending,
                   !.undo = @ \union {record(i) : i \in done}])
    /\ UNCHANGED <<request, edits, slot, slotGen, job, coreVars, workVars, acts, applied>>

-----------------------------------------------------------------------------
(* The core thread: commands first, then a pass of MemoryMonitorLocal::     *)
(* service, cut at each lock and each atomic.                               *)

HandleCommand ==
    LET command == Head(commands) IN
    /\ corePc = "idle"
    /\ commands # <<>>
    /\ commands' = Tail(commands)
    /\ core' = [core EXCEPT !.attached = command = "attach"]
    /\ local' = NewLocal
    /\ corePc' = IF command = "close" THEN "ended" ELSE corePc
    /\ UNCHANGED <<shared, uiVars, workVars, acts, applied>>

\* A state is loaded, the console reset, a replay seeked.
Jump ==
    /\ corePc = "idle"
    /\ core.game # None
    /\ Act
    /\ core' = [core EXCEPT !.epoch = @ + 1]
    /\ UNCHANGED <<shared, corePc, commands, local, uiVars, workVars, applied>>

BeginPass ==
    /\ corePc = "idle"
    /\ commands = <<>>
    /\ core.attached
    /\ local' = [local EXCEPT !.loaded = request.gen]
    /\ corePc' = "request"
    /\ UNCHANGED <<shared, core, commands, uiVars, workVars, acts, applied>>

\* try_lock on what the frontend's thread holds: it is at that critical section.
Miss(sections) == pc \in sections /\ Act

\* pull_request, and the load of edits_generation that pull_edits begins with.
PullRequest ==
    /\ corePc = "request"
    /\ \/ /\ local.loaded # local.seen
          /\ local' = [local EXCEPT !.request = request, !.seen = local.loaded, !.loaded = edits.gen,
                          !.changed = TRUE]
          /\ UNCHANGED acts
       \/ /\ local' = [local EXCEPT !.changed = FALSE, !.loaded = edits.gen]
          /\ IF local.loaded = local.seen THEN UNCHANGED acts ELSE Miss({"request"})
    /\ corePc' = "edits"
    /\ UNCHANGED <<shared, core, commands, uiVars, workVars, applied>>

\* A mutant of the next definition: a sample is stamped with the newest request there is.
SampleOfNewest == [gen |-> local.next, claims |-> request.gen, answers |-> local.request.gen,
                   core |-> core.id, epoch |-> core.epoch]

\* fill_sample
Sample == [gen |-> local.next, claims |-> local.seen, answers |-> local.request.gen,
           core |-> core.id, epoch |-> core.epoch]

\* pull_edits and the middle of service, which meets nobody: each edit is applied (or
\* refused: unmapped, read only, a replay is played) and answered, and a sample is
\* filled when one is due.
Service(taken, frame) ==
    LET missed == ~taken /\ local.loaded # local.seenEdits
        new == IF taken THEN edits.queue ELSE <<>>
        due == local.request.sampling /\ (local.changed \/ taken \/ frame)
    IN
    /\ corePc = "edits"
    /\ taken => local.loaded # local.seenEdits
    /\ missed => pc = "push"
    /\ IF frame \/ missed THEN Act ELSE UNCHANGED acts
    /\ edits' = IF taken THEN [edits EXCEPT !.queue = <<>>] ELSE edits
    /\ applied' = applied \o [i \in DOMAIN new |->
                                [id |-> new[i].id, for |-> new[i].for, by |-> core.id]]
    /\ local' = [local EXCEPT
            !.seenEdits = IF taken THEN local.loaded ELSE @, !.loaded = 0, !.changed = FALSE,
            !.answers = @ \o [i \in DOMAIN new |->
                                [id |-> new[i].id, core |-> core.id, epoch |-> core.epoch]],
            !.sample = IF due THEN Sample ELSE @,
            !.next = IF due THEN @ + 1 ELSE @,
            !.unpublished = @ \/ due]
    /\ corePc' = "publish"
    /\ UNCHANGED <<request, slot, slotGen, ring, job, core, commands, uiVars, workVars>>

\* try_publish_sample: a sample that could not be swapped is offered again. Of the one
\* swapped for it only the buffers are used again. (The generation, stored after the
\* unlock, only saves the tools a lock in vain.)
Publish ==
    /\ corePc = "publish"
    /\ \/ /\ local.unpublished
          /\ slot' = local.sample
          /\ slotGen' = local.sample.gen
          /\ local' = [local EXCEPT !.sample = NoSample, !.unpublished = FALSE]
          /\ UNCHANGED acts
       \/ /\ IF local.unpublished THEN Miss({"take"}) ELSE UNCHANGED acts
          /\ UNCHANGED <<slot, slotGen, local>>
    /\ corePc' = "flush"
    /\ UNCHANGED <<request, edits, ring, job, core, commands, uiVars, workVars, applied>>

\* try_flush_events: the ring keeps the newest.
Flush ==
    /\ corePc = "flush"
    /\ \/ /\ local.answers # <<>>
          /\ LET all == ring \o local.answers
                 surplus == IF Len(all) > RingCapacity THEN Len(all) - RingCapacity ELSE 0
             IN ring' = SubSeq(all, surplus + 1, Len(all))
          /\ local' = [local EXCEPT !.answers = <<>>]
          /\ UNCHANGED acts
       \/ /\ IF local.answers # <<>> THEN Miss({"drain"}) ELSE UNCHANGED acts
          /\ UNCHANGED <<ring, local>>
    /\ corePc' = "snapshot"
    /\ UNCHANGED <<request, edits, slot, slotGen, job, core, commands, uiVars, workVars, applied>>

\* The newest snapshot asked for is taken and sent.
Snapshot ==
    /\ corePc = "snapshot"
    /\ job' = 0
    /\ snapshots' = IF job = 0 THEN snapshots
                    ELSE Append(snapshots, [job |-> job, core |-> core.id, epoch |-> core.epoch])
    /\ corePc' = "idle"
    /\ UNCHANGED <<request, edits, slot, slotGen, ring, core, commands, local, uiVars, search,
                   acts, applied>>

-----------------------------------------------------------------------------
(* search_worker, on a thread of its own.                                   *)

TakeJob ==
    /\ search.scanning = None
    /\ search.jobs # <<>>
    /\ search' = IF Head(search.jobs) = Reset
                 THEN [search EXCEPT !.jobs = Tail(@), !.found = None]
                 ELSE [search EXCEPT !.jobs = Tail(@), !.scanning = Head(search.jobs)]
    /\ UNCHANGED <<shared, coreVars, uiVars, snapshots, acts, applied>>

\* A mutant of the next definition: any snapshot will do.
AnySnapshot(snapshot) == TRUE

IsTheScans(snapshot) == snapshot.job = search.scanning

\* A scan may find nothing to refine, fail, or be cancelled while it compares.
ReceiveSnapshot ==
    LET snapshot == Head(snapshots)
        fresh == [core |-> snapshot.core, epoch |-> snapshot.epoch, asked |-> search.asked]
        ends == {fresh, None} \union IF search.cancel THEN {search.found} ELSE {}
    IN
    /\ search.scanning # None
    /\ snapshots # <<>>
    /\ snapshots' = Tail(snapshots)
    /\ IF ~IsTheScans(snapshot) THEN UNCHANGED search
       ELSE \E found \in ends :
            search' = [search EXCEPT !.scanning = None, !.busy = FALSE, !.asked = None,
                          !.found = found]
    /\ UNCHANGED <<shared, coreVars, uiVars, acts, applied>>

\* The worker looks at the cancel flag when it waited in vain for a while.
GiveUpScan ==
    /\ search.scanning # None
    /\ search.cancel
    /\ snapshots = <<>>
    /\ search' = [search EXCEPT !.scanning = None, !.busy = FALSE, !.asked = None]
    /\ UNCHANGED <<shared, coreVars, uiVars, snapshots, acts, applied>>

-----------------------------------------------------------------------------

User ==
    \/ \E viewer \in BOOLEAN : Change(viewer)
    \/ Write \/ Undo
    \/ StartScan \/ CancelScan
    \/ DropCore

Tools ==
    \/ UpdateRequest \/ Attach
    \/ PushEdit \/ CountEdit
    \/ TakeSample
    \/ \E done \in SUBSET DOMAIN ring : Drain(done)
    \/ \E game \in Game \union {None} : SwitchCore(game)

CoreThread ==
    \/ HandleCommand \/ BeginPass
    \/ PullRequest
    \/ \E taken, frame \in BOOLEAN : Service(taken, frame)
    \/ Publish \/ Flush \/ Snapshot

Worker == TakeJob \/ ReceiveSnapshot \/ GiveUpScan

Next == User \/ Tick \/ Tools \/ CoreThread \/ Jump \/ Worker

Spec == Init /\ [][Next]_vars

\* The frontend ticks and finishes what it began, the core thread's loop goes round
\* (parked for 100 ms at most), the worker works.
FairSpec ==
    Spec /\ WF_vars(Tools) /\ WF_vars(Tick) /\ WF_vars(CoreThread) /\ WF_vars(Worker)

-----------------------------------------------------------------------------
(* Properties.                                                              *)

\* Where and when memory was as it was.
Moment == [core : Nat, epoch : Nat]
Edit == [id : Nat, undoes : Moment \union {None}, for : Nat]
Answer == [id : Nat, core : Nat, epoch : Nat]
SampleType == [gen : Nat, claims : Nat, answers : Nat, core : Nat, epoch : Nat]
Request == [gen : Nat, sampling : BOOLEAN]

Local == [request : Request, seen : Nat, seenEdits : Nat, loaded : Nat, changed : BOOLEAN,
          answers : Seq(Answer), sample : SampleType, unpublished : BOOLEAN, next : Nat]
ToolsState == [attached : BOOLEAN, viewer : BOOLEAN, sample : SampleType, probesGen : Nat,
               pending : SUBSET [id : Nat, undoes : Moment \union {None}], nextEdit : Nat,
               undo : SUBSET [id : Nat, epoch : Nat, made : Moment],
               searching : BOOLEAN, scan : Nat \union {None}, nextJob : Nat]
Search == [busy : BOOLEAN, cancel : BOOLEAN, jobs : Seq(Nat), scanning : Nat \union {None},
           asked : Moment \union {None},
           found : [core : Nat, epoch : Nat, asked : Moment \union {None}] \union {None}]

\* What the shared fields, the core thread, the tools and the worker hold.
TypeOK ==
    /\ request \in Request
    /\ edits \in [queue : Seq(Edit), gen : Nat]
    /\ slot \in SampleType /\ slotGen \in Nat
    /\ ring \in Seq(Answer)
    /\ job \in Nat
    /\ core \in [id : Nat, game : Game \union {None}, epoch : Nat, attached : BOOLEAN]
    /\ corePc \in {"idle", "request", "edits", "publish", "flush", "snapshot", "ended"}
    /\ commands \in Seq({"attach", "detach", "close"})
    /\ local \in Local
    /\ tools \in ToolsState
    /\ pc \in {"ready", "request", "attach", "push", "count", "closing", "take", "drain"}
    /\ search \in Search
    /\ snapshots \in Seq([job : Nat, core : Nat, epoch : Nat])
    /\ acts \in Nat
    /\ applied \in Seq([id : Nat, for : Nat, by : Nat])

\* A sample that says it answers the newest request (absorb_sample compares its
\* request_generation with probes_request_generation before it shows any value by
\* its place in the list of probes) was read for that very list, by the core
\* that now runs, however requests, passes and cores overtake each other.
ShowsWhatItSays ==
    pc \in {"ready", "take", "drain"} /\ tools.sample.claims >= tools.probesGen =>
        tools.sample.answers = request.gen /\ tools.sample.core = core.id

\* Every edit is applied once at most, in the order they were made, and by the core
\* it was meant for: never by the one that replaced it.
EditsOnce ==
    /\ \A i \in DOMAIN applied : applied[i].by = applied[i].for
    /\ \A i, j \in DOMAIN applied : i < j => applied[i].id < applied[j].id

\* A search found what it did in memory as it was when the scan was asked for, or
\* later: a snapshot asked for by a scan that was cancelled is not taken for this one's.
ScanIsFresh ==
    LET found == search.found IN
    found # None =>
        \/ found.core > found.asked.core
        \/ found.core = found.asked.core /\ found.epoch >= found.asked.epoch

\* An edit does not wait for ever, whatever locks the core thread found held: it is
\* applied (or refused), or dropped with the core it was meant for.
EditsArrive == edits.queue # <<>> ~> edits.queue = <<>>

\* A viewer ends up showing what it last asked for, of the core that runs, also when
\* that game is paused, and also after the core was replaced.
ViewerCatchesUp ==
    []<>(tools.viewer /\ core.game # None =>
            tools.sample.answers = request.gen /\ tools.sample.core = core.id)

\* A scan ends, also when the core is replaced under it, as long as there is a game.
ScansEnd == search.busy ~> ~search.busy \/ core.game = None

\* Nothing asked of a core waits for ever, whatever becomes of the cores.
NothingWaits == EditsArrive /\ ScansEnd

\* What the tools' undo stack and the specification say of it: a write is undone in the
\* memory it was made in, or not at all.
UndoneWhereMade ==
    \A i \in DOMAIN edits.queue :
        LET edit == edits.queue[i] IN edit.undoes # None => edit.undoes.core = edit.for
=============================================================================
