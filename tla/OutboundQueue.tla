---------------------------- MODULE OutboundQueue ----------------------------
(***************************************************************************)
(* One connection's way out (conn.rs): the bounded OutboundQueue with its  *)
(* urgent lane, the writer thread that drains it and merges, drops and     *)
(* splits into runs, and begin_close, which any thread may call.           *)
(***************************************************************************)
EXTENDS Naturals, Sequences

CONSTANTS
    Kind,        \* kinds of ordinary items; "stream" items are merged
    Size(_),     \* the bytes an item counts for, here and on the wire
    TooLarge,    \* kinds that do not fit a message, found when encoding
    MaxItems,    \* MAX_QUEUE_ITEMS
    MaxBytes,    \* MAX_QUEUE_BYTES
    WriteRun,    \* WRITE_RUN
    MergeLimit,  \* STREAM_MERGE_LIMIT
    MaxPushes,   \* bound: items pushed
    MaxPings     \* bound: pings sent

ASSUME CapsAssumption == MaxItems \in Nat \ {0} /\ MaxBytes \in Nat \ {0}
ASSUME LimitsAssumption == WriteRun \in Nat \ {0} /\ MergeLimit \in Nat \ {0}
ASSUME PushBoundsAssumption == MaxPushes \in Nat /\ MaxPings \in Nat

\* An item, numbered by when it was accepted; on the urgent lane they are link messages.
Item == [n : 1..MaxPushes, kind : Kind \union {"link"}]

ASSUME SizeAssumption == \A item \in Item : Size(item) \in Nat

VARIABLES
    items,       \* QueueState::items
    urgent,      \* QueueState::urgent
    bytes,       \* QueueState::bytes
    closed,      \* QueueState::closed
    closing,     \* ConnShared::closing
    flush,       \* whether begin_close was asked to flush
    closer,      \* how far begin_close has got
    writer,      \* where the writer thread is
    hot,         \* urgent messages the writer has taken
    batch,       \* ordinary items it has taken
    ping,        \* a Ping is appended to the batch
    last,        \* Drained::closed of that batch
    failed,      \* writer_body returned an error
    writerDone,  \* ConnShared::writer_done
    shut,        \* the socket has been shut down
    wire,        \* items written, in order (pings left out)
    owed,        \* history: urgent messages pending when the last run ended
    pushes, pings

queueVars  == <<items, urgent, bytes, closed>>
closeVars  == <<closing, flush, closer>>
writerVars == <<writer, hot, batch, ping, last, failed, writerDone, wire, owed, pings>>
vars == <<queueVars, closeVars, writerVars, shut, pushes>>

-----------------------------------------------------------------------------
(* Sizes, merging and runs.                                                *)

Total(s) ==
    LET total[i \in 0..Len(s)] == IF i = 0 THEN 0 ELSE total[i - 1] + Size(s[i])
    IN total[Len(s)]

Fits(item) == item.kind \notin TooLarge

\* encode_outbound's `pending` after the i-th item: the bytes of the stream
\* message being merged, 0 when it was flushed.
Merged(s) ==
    LET merged[i \in 0..Len(s)] ==
            IF i = 0 \/ s[i].kind # "stream" THEN 0
            ELSE LET size == merged[i - 1] + Size(s[i])
                 IN IF size >= MergeLimit THEN 0 ELSE size
    IN merged

\* EncodedBatch::boundaries, as the items that end a message. An item that does
\* not fit ends none, but the stream message before it ends there.
Boundaries(s) ==
    {i \in 1..Len(s) : /\ Fits(s[i])
                       /\ \/ i = Len(s)
                          \/ Merged(s)[i] = 0
                          \/ s[i + 1].kind # "stream"}

\* What is written of s, and its bytes.
Encoded(s) ==
    LET encoded[i \in 0..Len(s)] ==
            IF i = 0 THEN <<>>
            ELSE IF Fits(s[i]) THEN Append(encoded[i - 1], s[i]) ELSE encoded[i - 1]
    IN encoded[Len(s)]
EncodedBytes(s) == Total(Encoded(s))

\* A mutant of the next definition: the batch is written in one run.
WholeBatch(s) == Len(s)

\* EncodedBatch::runs: the first run ends with its last item.
RunEnd(s) ==
    CHOOSE i \in Boundaries(s) :
        /\ \/ EncodedBytes(SubSeq(s, 1, i)) >= WriteRun
           \/ \A j \in Boundaries(s) : j <= i
        /\ \A j \in Boundaries(s) : j < i => EncodedBytes(SubSeq(s, 1, j)) < WriteRun

-----------------------------------------------------------------------------

Init ==
    /\ items = <<>> /\ urgent = <<>> /\ bytes = 0 /\ closed = FALSE
    /\ closing = FALSE /\ flush = FALSE /\ closer = "open"
    /\ writer = "waiting" /\ hot = <<>> /\ batch = <<>> /\ ping = FALSE /\ last = FALSE
    /\ failed = FALSE /\ writerDone = FALSE /\ wire = <<>> /\ owed = 0 /\ pings = 0
    /\ shut = FALSE /\ pushes = 0

-----------------------------------------------------------------------------
(* What the caps allow, and what a partial drain gives back.               *)

\* Whether the item may be pushed where `count` are counted already.
Room(item, count) ==
    /\ bytes + Size(item) <= MaxBytes
    /\ count + 1 <= MaxItems

\* A mutant of the next definition: a partial drain resets the count.
AllBytes == bytes

\* take_urgent: the cost of the urgent lane, and never more than is counted.
UrgentBytes == IF Total(urgent) <= bytes THEN Total(urgent) ELSE bytes

-----------------------------------------------------------------------------
(* Anyone who sends. A push that fails changes nothing; what the caller    *)
(* then does about a full queue is BeginClose(FALSE).                      *)

TryPush(kind) ==
    LET item == [n |-> pushes + 1, kind |-> kind] IN
    /\ pushes < MaxPushes
    /\ ~closed
    /\ Room(item, Len(items))
    /\ bytes' = bytes + Size(item)
    /\ items' = Append(items, item)
    /\ pushes' = pushes + 1
    /\ UNCHANGED <<urgent, closed, closeVars, writerVars, shut>>

TryPushUrgent ==
    LET item == [n |-> pushes + 1, kind |-> "link"] IN
    /\ pushes < MaxPushes
    /\ ~closed
    /\ Room(item, Len(items) + Len(urgent))
    /\ bytes' = bytes + Size(item)
    /\ urgent' = Append(urgent, item)
    /\ pushes' = pushes + 1
    /\ UNCHANGED <<items, closed, closeVars, writerVars, shut>>

-----------------------------------------------------------------------------
(* begin_close, by the first thread that calls it.                         *)

BeginClose(flushing) ==
    /\ ~closing
    /\ closing' = TRUE
    /\ flush' = flushing
    /\ closer' = "begun"
    /\ UNCHANGED <<queueVars, writerVars, shut, pushes>>

\* OutboundQueue::close.
CloseQueue ==
    /\ closer = "begun"
    /\ closer' = "closed"
    /\ closed' = TRUE
    /\ IF flush
       THEN UNCHANGED <<items, urgent, bytes, owed>>
       ELSE /\ items' = <<>> /\ urgent' = <<>> /\ bytes' = 0
            /\ owed' = IF owed <= Len(hot) THEN owed ELSE Len(hot)
    /\ UNCHANGED <<closing, flush, writer, hot, batch, ping, last, failed, writerDone,
                   wire, pings, shut, pushes>>

CheckWriterDone ==
    /\ closer = "closed"
    /\ closer' = "done"
    /\ shut' = (shut \/ writerDone)
    /\ UNCHANGED <<queueVars, closing, flush, writerVars, pushes>>

CloserStep == CloseQueue \/ CheckWriterDone

-----------------------------------------------------------------------------
(* The writer thread.                                                      *)

\* wait_drain, encode_outbound and the decision to ping. A wait that times out
\* with nothing to send and no ping due goes round again.
Drain(pinging) ==
    /\ writer = "waiting"
    /\ pinging => ~closed /\ pings < MaxPings
    /\ items # <<>> \/ urgent # <<>> \/ closed \/ pinging
    /\ writer' = "urgent"
    /\ hot' = urgent
    /\ batch' = items
    /\ last' = closed
    /\ ping' = pinging
    /\ pings' = IF pinging THEN pings + 1 ELSE pings
    /\ items' = <<>> /\ urgent' = <<>> /\ bytes' = 0
    /\ UNCHANGED <<closed, closeVars, failed, writerDone, wire, owed, shut, pushes>>

\* write_urgent: one message.
WriteUrgent ==
    /\ writer = "urgent"
    /\ hot # <<>>
    /\ wire' = Append(wire, Head(hot))
    /\ hot' = Tail(hot)
    /\ owed' = IF owed = 0 THEN 0 ELSE owed - 1
    /\ UNCHANGED <<queueVars, closeVars, writer, batch, ping, last, failed, writerDone,
                   pings, shut, pushes>>

TurnToBatch ==
    /\ writer = "urgent"
    /\ hot = <<>>
    /\ writer' = IF Boundaries(batch) # {} \/ ping THEN "run" ELSE "flush"
    /\ UNCHANGED <<queueVars, closeVars, hot, batch, ping, last, failed, writerDone,
                   wire, owed, pings, shut, pushes>>

\* One run, and with the last one the ping.
WriteNextRun ==
    /\ writer = "run"
    /\ LET end  == IF Boundaries(batch) = {} THEN 0 ELSE RunEnd(batch)
           rest == SubSeq(batch, end + 1, Len(batch))
       IN
        /\ wire' = wire \o Encoded(SubSeq(batch, 1, end))
        /\ batch' = IF Boundaries(rest) = {} THEN <<>> ELSE rest
        /\ owed' = IF end = 0 THEN owed ELSE Len(urgent)
    /\ writer' = IF batch' = <<>> THEN "flush" ELSE "between"
    /\ ping' = (ping /\ batch' # <<>>)
    /\ UNCHANGED <<queueVars, closeVars, hot, last, failed, writerDone, pings, shut, pushes>>

\* take_urgent, between two runs.
TakeUrgent ==
    /\ writer = "between"
    /\ writer' = "urgent"
    /\ hot' = urgent
    /\ urgent' = <<>>
    /\ bytes' = bytes - UrgentBytes
    /\ UNCHANGED <<items, closed, closeVars, batch, ping, last, failed, writerDone, wire,
                   owed, pings, shut, pushes>>

\* The end of an iteration: round again, or out after the last batch.
EndBatch ==
    /\ writer = "flush"
    /\ writer' = IF last THEN "ending" ELSE "waiting"
    /\ UNCHANGED <<queueVars, closeVars, hot, batch, ping, last, failed, writerDone, wire,
                   owed, pings, shut, pushes>>

\* A write or a flush fails: the peer is gone, or the write timed out and the
\* connection is closing. (A round that wrote nothing may fail its flush here.)
WriteFails ==
    /\ \/ writer = "urgent" /\ hot # <<>>
       \/ writer \in {"run", "flush"}
    /\ writer' = "ending"
    /\ failed' = TRUE
    /\ UNCHANGED <<queueVars, closeVars, hot, batch, ping, last, writerDone, wire, owed,
                   pings, shut, pushes>>

\* writer_loop, after writer_body.
StoreDone ==
    /\ writer = "ending"
    /\ writer' = "checking"
    /\ writerDone' = TRUE
    /\ UNCHANGED <<queueVars, closeVars, hot, batch, ping, last, failed, wire, owed,
                   pings, shut, pushes>>

\* A mutant of the next definition: only a failed write shuts the socket here.
CheckFailure ==
    /\ writer = "checking"
    /\ writer' = IF failed THEN "reporting" ELSE "done"
    /\ shut' = (shut \/ failed)
    /\ UNCHANGED <<queueVars, closeVars, hot, batch, ping, last, failed, writerDone, wire,
                   owed, pings, pushes>>

CheckClosing ==
    /\ writer = "checking"
    /\ writer' = IF failed THEN "reporting" ELSE "done"
    /\ shut' = (shut \/ closing \/ failed)
    /\ UNCHANGED <<queueVars, closeVars, hot, batch, ping, last, failed, writerDone, wire,
                   owed, pings, pushes>>

\* The writer's thread closes the connection whose socket failed.
ReportFailure ==
    /\ writer = "reporting"
    /\ writer' = "done"
    /\ closing' = TRUE
    /\ flush' = (flush /\ closing)
    /\ closer' = IF closing THEN closer ELSE "begun"
    /\ UNCHANGED <<queueVars, hot, batch, ping, last, failed, writerDone, wire, owed,
                   pings, shut, pushes>>

\* Steps the writer takes without the peer's help, and those it needs it for.
WriterSteps == TurnToBatch \/ TakeUrgent \/ EndBatch \/ StoreDone \/ CheckClosing \/ ReportFailure
SocketSteps == WriteUrgent \/ WriteNextRun \/ WriteFails

Next ==
    \/ \E kind \in Kind : TryPush(kind)
    \/ TryPushUrgent
    \/ \E flushing \in BOOLEAN : BeginClose(flushing)
    \/ CloserStep
    \/ \E pinging \in BOOLEAN : Drain(pinging)
    \/ WriterSteps
    \/ SocketSteps

Spec == Init /\ [][Next]_vars

\* The threads run. A peer may stall a write for as long as it likes, until the
\* connection is closing: then the write's timeout is an error.
Fairness ==
    /\ WF_vars(CloserStep)
    /\ WF_vars(Drain(FALSE))
    /\ WF_vars(WriterSteps)
    /\ WF_vars(closing /\ SocketSteps)

FairSpec == Spec /\ Fairness

-----------------------------------------------------------------------------
(* Properties.                                                             *)

TypeOK ==
    /\ items \in Seq(Item) /\ urgent \in Seq(Item) /\ bytes \in 0..MaxBytes
    /\ closed \in BOOLEAN /\ closing \in BOOLEAN /\ flush \in BOOLEAN
    /\ closer \in {"open", "begun", "closed", "done"}
    /\ writer \in {"waiting", "urgent", "run", "between", "flush", "ending", "checking",
                   "reporting", "done"}
    /\ hot \in Seq(Item) /\ batch \in Seq(Item) /\ ping \in BOOLEAN /\ last \in BOOLEAN
    /\ failed \in BOOLEAN /\ writerDone \in BOOLEAN /\ shut \in BOOLEAN
    /\ wire \in Seq(Item) /\ owed \in 0..MaxPushes
    /\ pushes \in 0..MaxPushes /\ pings \in 0..MaxPings

\* The byte count that caps the queue is the cost of what waits in it, through
\* every drain, partial drain and discard: the guard in take_urgent against
\* subtracting more than there is never comes into play.
BytesExact ==
    /\ bytes = Total(items) + Total(urgent)
    /\ bytes <= MaxBytes

\* The writer has left its loop: nothing more is written.
Over == writer \in {"ending", "checking", "reporting", "done"}

Lanes == INSTANCE TwoLanes WITH
    Message  <- Item,
    RunLimit <- WriteRun + MergeLimit,
    ordinary <- IF Over THEN <<>> ELSE Encoded(batch \o items),
    urgent   <- IF Over THEN <<>> ELSE hot \o urgent,
    owed     <- IF Over THEN 0 ELSE owed,
    sent     <- wire,
    phase    <- IF Over THEN "shut"
                ELSE IF ~closed THEN "open"
                ELSE IF flush THEN "flushing" ELSE "dropping"

\* The queue, the writer and begin_close keep the promise of TwoLanes: both
\* lanes in order, at most one bounded run ahead of an urgent message, nothing
\* lost but what is too large or dropped on purpose, and a flushing close sends
\* all that was accepted unless the socket fails.
KeepsLanes == Lanes!Spec

\* A connection that is closing, or whose socket failed, is closed and its socket
\* shut in the end, so that its reader stops waiting: begin_close leaves that to the
\* writer and the writer to begin_close, each by a look at what the other has stored
\* (conn.rs:446-455, 499-506).
ClosingEnds == closing \/ failed ~> closing /\ shut
=============================================================================
