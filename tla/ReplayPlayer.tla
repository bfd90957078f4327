---------------------------- MODULE ReplayPlayer ----------------------------
(***************************************************************************)
(* ReplayFilePlayer (supershuckie-replay-recorder, playback.rs): reading a *)
(* replay file packet by packet and seeking in it, with the deltas between *)
(* keyframes folded on the way.                                            *)
(*                                                                         *)
(* A file is its top-level packets; a blob holds a list of packets of its  *)
(* own, of which the first `sound` can be decompressed. A console's state  *)
(* is the number of things that happened to it, as in Recorder, and a      *)
(* delta knows the state it was taken against. The operators take a player *)
(* and return it as the call leaves it, with the call's `error` and, from  *)
(* NextPacket, the packet handed out. What is not about a keyframe's state *)
(* (bookmarks, times, pictures, counters) is left out.                     *)
(***************************************************************************)
EXTENDS Integers, Sequences, SequencesExt, FiniteSets, FiniteSetsExt

None == -1
Garbage == -2      \* a delta applied to another state than its own

(***************************************************************************)
(* Packets and files                                                       *)
(***************************************************************************)

Frame == [op |-> "frame"]
Other == [op |-> "other"]
NoPacket == [op |-> "none"]
Key(frame, state) == [op |-> "key", frame |-> frame, state |-> state]
Delta(frame, state, base) == [op |-> "delta", frame |-> frame, state |-> state, base |-> base]
StoredKey(frame, state, base, level) ==
    [op |-> "stored", frame |-> frame, state |-> state, base |-> base, level |-> level]
\* `table`: the blob lists its keyframes' offsets (format v6).
Blob(packets, sound, table) == [op |-> "blob", packets |-> packets, sound |-> sound, table |-> table]

\* is_keyframe_class.
IsKeyframe(p) == p.op \in {"key", "delta", "stored"}

\* ListId: the top-level list, or the blob at a top-level index.
TopLevel == 0
PacketsOf(file, list) == IF list = TopLevel THEN file ELSE file[list].packets
BlobsOf(file) == {i \in DOMAIN file : file[i].op = "blob"}
KeyframesIn(file, list) ==
    {i \in DOMAIN PacketsOf(file, list) : IsKeyframe(PacketsOf(file, list)[i])}

AllKeyframes(file) ==
    UNION {{<<list, i>> : i \in KeyframesIn(file, list)} : list \in {TopLevel} \cup BlobsOf(file)}
FrameOf(file, at) == PacketsOf(file, at[1])[at[2]].frame
KeyframeFrames(file) == {FrameOf(file, at) : at \in AllKeyframes(file)}

\* The stored keyframe a delta is against (build): the latest of a level at most its own.
Reference(file, i) ==
    LET below == {j \in KeyframesIn(file, TopLevel) : j < i /\ file[j].level <= file[i].level} IN
    IF file[i].level = 0 \/ below = {} THEN None ELSE Max(below)

(***************************************************************************)
(* The 3DS recorder's side of it: insert_stored_keyframe chooses a level,  *)
(* encode_stored_keyframe diffs against the state its level holds.         *)
(***************************************************************************)

\* The file of a recording with a keyframe on every frame; `full` are those asked
\* for in full, and `every` is stored_keyframe_levels.
RecordedStored(last, full, every) ==
    LET Step(r, frame) ==
            LET level == IF frame = 0 \/ frame \in full \/ r.since0 >= every[1] * every[2] THEN 0
                         ELSE IF r.since1 >= every[2] THEN 1 ELSE 2
                packet == StoredKey(frame, frame, r.states[level], level)
            IN [packets |-> r.packets \o (IF frame = 0 THEN <<>> ELSE <<Frame>>) \o <<packet>>,
                since0 |-> IF level = 0 THEN 0 ELSE r.since0 + 1,
                since1 |-> IF level = 2 THEN r.since1 + 1 ELSE 0,
                states |-> [m \in 0..2 |-> IF m >= level THEN frame ELSE r.states[m]]]
        start == [packets |-> <<>>, since0 |-> 0, since1 |-> 0, states |-> [m \in 0..2 |-> None]]
    IN FoldLeft(Step, start, [i \in 1..(last + 1) |-> i - 1]).packets

(***************************************************************************)
(* The player                                                              *)
(***************************************************************************)

\* top, offset: the cursor (offset: the next packet of the blob at top, or None).
\* list, last, state: ChainState. holds, held, current: StoredBuffers, a stored
\* keyframe and its state for every level. fresh: materialise_next. decoded,
\* working: blobs at hand, and those a worker decompresses.
NewPlayer ==
    [top |-> 1, offset |-> None, list |-> None, last |-> None, state |-> None,
     holds |-> [b \in 0..2 |-> None], held |-> [b \in 0..2 |-> None], current |-> None,
     fresh |-> FALSE, decoded |-> {}, working |-> {}, error |-> FALSE, packet |-> NoPacket]

Failed(p) == [p EXCEPT !.error = TRUE]

\* current_keyframe_state.
CurrentState(p) == IF p.current = None THEN p.state ELSE p.held[p.current]

\* Whether the packet at i of a blob can be read (DecodedBlob); a blob without the
\* table is decompressed whole before its first keyframe is used.
Whole(blob) == blob.sound = Len(blob.packets)
Readable(blob, i) == IF blob.table THEN i <= blob.sound ELSE Whole(blob)

\* decompress_immediately, with what the worker came to if there is one: "died", or
\* else it sends the whole blob or an error.
Decompress(file, p, b, worker) ==
    LET reaped == [p EXCEPT !.working = @ \ {b}]
        begun == [reaped EXCEPT !.decoded = @ \cup {b}]
    IN IF b \in p.decoded THEN p
       ELSE IF b \in p.working /\ worker # "died" /\ ~Whole(file[b]) THEN Failed(reaped)
       ELSE begun

\* hint_decompress_next_blob_and_cleanup: everything before the blob behind the
\* cursor is dropped; the blob after the cursor is given to a worker or collected.
Hint(file, p, worker) ==
    LET behind == {b \in BlobsOf(file) : b < p.top}
        ahead == {b \in BlobsOf(file) : b > p.top}
        dropped == IF behind = {} THEN {} ELSE {b \in behind : b < Max(behind)}
        kept == [p EXCEPT !.decoded = @ \ dropped, !.working = @ \ dropped]
        next == Min(ahead)
    IN IF ahead = {} \/ next \in kept.decoded THEN kept
       ELSE IF next \notin kept.working THEN [kept EXCEPT !.working = @ \cup {next}]
       ELSE IF worker = "busy" THEN kept
       ELSE [kept EXCEPT !.working = @ \ {next},
                         !.decoded = IF worker = "done" /\ Whole(file[next]) THEN @ \cup {next} ELSE @]

\* ChainState::fold, and fold_top_level / fold_in_blob around it: a delta needs the
\* keyframe just before it to be the one held.
HoldsPredecessor(file, p, list, i) ==
    /\ p.list = list /\ p.last # None /\ p.last < i
    /\ \A k \in KeyframesIn(file, list) : ~(p.last < k /\ k < i)

FoldPlain(file, p, list, i) ==
    LET packet == PacketsOf(file, list)[i] IN
    IF p.list = list /\ p.last = i THEN p
    ELSE IF packet.op = "key"
         THEN [p EXCEPT !.list = list, !.last = i, !.state = packet.state, !.current = None]
    ELSE IF ~HoldsPredecessor(file, p, list, i) THEN Failed(p)
    ELSE [p EXCEPT !.last = i, !.state = IF @ = packet.base THEN packet.state ELSE Garbage]

\* StoredBuffers::holding.
Holding(p, k) == {b \in 0..2 : p.holds[b] = k}

\* Mutant for Faithful (ChainTrue): a delta is applied in the buffer of its reference.
MaterialiseInPlace(file, p, k) ==
    LET level == file[k].level
        from == Holding(p, Reference(file, k))
        buffer == IF level = 0 THEN 0 ELSE Min(from)
        state == IF level = 0 \/ p.held[buffer] = file[k].base THEN file[k].state ELSE Garbage
    IN IF p.error THEN p
       ELSE IF level > 0 /\ (Reference(file, k) = None \/ from = {}) THEN Failed(p)
       ELSE [p EXCEPT !.holds[level] = k, !.held[buffer] = state, !.current = level]

\* materialise_stored: a full keyframe into buffer 0, a delta into its level's buffer
\* on what the buffer of its reference has.
Materialise(file, p, k) ==
    LET level == file[k].level
        from == Holding(p, Reference(file, k))
        state == IF level = 0 \/ p.held[Min(from)] = file[k].base THEN file[k].state ELSE Garbage
    IN IF p.error THEN p
       ELSE IF level > 0 /\ (Reference(file, k) = None \/ from = {}) THEN Failed(p)
       ELSE [p EXCEPT !.holds[level] = k, !.held[level] = state, !.current = level]

\* fold_stored: back along the references to one a buffer holds, and forth again.
StoredAt(p, k) ==
    IF p.error THEN p
    ELSE [p EXCEPT !.current = Min(Holding(p, k)), !.list = TopLevel, !.last = k]

FoldStored(file, p, k) ==
    LET walk[at \in KeyframesIn(file, TopLevel) \cup {None}] ==
            IF at = None \/ Holding(p, at) # {} THEN <<>>
            ELSE Append(walk[Reference(file, at)], at)
    IN StoredAt(FoldLeft(LAMBDA q, at : Materialise(file, q, at), p, walk[k]), k)

\* fold_top_level and fold_in_blob.
Fold(file, p, list, i) ==
    LET packet == PacketsOf(file, list)[i] IN
    IF p.error \/ ~IsKeyframe(packet) THEN p
    ELSE IF list # TopLevel /\ ~Readable(file[list], i) THEN Failed(p)
    ELSE IF packet.op = "stored" THEN FoldStored(file, p, i)
    ELSE FoldPlain(file, p, list, i)

\* locate_keyframe: the last keyframe on the frame.
Locate(file, frame) ==
    LET on == {at \in AllKeyframes(file) : FrameOf(file, at) = frame}
        order(at) == IF at[1] = TopLevel THEN at[2] ELSE at[1]
        last == Max({order(at) : at \in on})
        there == {at \in on : order(at) = last}
    IN CHOOSE at \in there : \A other \in there : at[2] >= other[2]

\* Mutant for PlaysToItsEnd: from the chain, also when that leaves out what is before it.
FastForwardFromNearest(file, p, list, target) ==
    LET keyframes == {i \in KeyframesIn(file, list) : i <= target}
        full == {i \in keyframes : PacketsOf(file, list)[i].op = "key"}
        restart == Max(full)
        start == IF p.list = list /\ p.last # None THEN p.last + 1 ELSE restart
        way == SetToSortSeq({i \in keyframes : start <= i /\ i < target}, <)
    IN IF full = {} \/ (list # TopLevel /\ ~Readable(file[list], target)) THEN Failed(p)
       ELSE FoldLeft(LAMBDA q, i : Fold(file, q, list, i), p, way)

\* fast_forward_chain: from the chain if it is on the way, or else from the nearest
\* full keyframe, up to the keyframe before the target.
FastForwardPlain(file, p, list, target) ==
    LET keyframes == {i \in KeyframesIn(file, list) : i <= target}
        full == {i \in keyframes : PacketsOf(file, list)[i].op = "key"}
        restart == Max(full)
        start == IF p.list = list /\ p.last # None /\ p.last <= target
                 THEN Max({p.last + 1, restart}) ELSE restart
        way == SetToSortSeq({i \in keyframes : start <= i /\ i < target}, <)
    IN IF full = {} \/ (list # TopLevel /\ ~Readable(file[list], target)) THEN Failed(p)
       ELSE FoldLeft(LAMBDA q, i : Fold(file, q, list, i), p, way)

\* fast_forward_stored_chain, for a 3DS file.
FastForward(file, p, list, target) ==
    IF p.error THEN p
    ELSE IF PacketsOf(file, list)[target].op # "stored" THEN FastForwardPlain(file, p, list, target)
    ELSE IF Holding(p, target) # {} \/ file[target].level = 0 THEN p
    ELSE FoldStored(file, p, Reference(file, target))

\* go_to_keyframe, for a frame that has one.
Standing(p, list, i) ==
    IF p.error THEN p
    ELSE [p EXCEPT !.fresh = TRUE,
                   !.top = IF list = TopLevel THEN i ELSE list,
                   !.offset = IF list = TopLevel THEN None ELSE i]

ToKeyframe(file, p, list, i, worker) ==
    LET entered == IF list = TopLevel THEN p ELSE Decompress(file, p, list, worker)
    IN Standing(FastForward(file, entered, list, i), list, i)

GoToKeyframe(file, p, frame, worker) ==
    LET at == Locate(file, frame)
    IN ToKeyframe(file, [p EXCEPT !.error = FALSE], at[1], at[2], worker)

\* next_packet with keyframe states not wanted: at the end of a blob on to the packet
\* behind it; a stored keyframe that no seek asked for is handed out as it is.
Handed(p, i, packet) == IF p.error THEN p ELSE [p EXCEPT !.offset = i + 1, !.packet = packet]

TakeInBlob(file, p) ==
    LET i == IF p.offset = None THEN 1 ELSE p.offset
        blob == file[p.top]
    IN IF p.error THEN p
       ELSE IF ~Readable(blob, i) THEN Failed(p)
       ELSE Handed(Fold(file, p, p.top, i), i, blob.packets[i])

Take(file, p, worker) ==
    LET packet == file[p.top]
        plain == [p EXCEPT !.top = @ + 1, !.packet = packet]
    IN IF packet.op = "blob" THEN TakeInBlob(file, Decompress(file, p, p.top, worker))
       ELSE IF packet.op = "stored" /\ ~p.fresh THEN plain
       ELSE Fold(file, [plain EXCEPT !.fresh = FALSE], TopLevel, p.top)

\* Mutant for Faithful (ConsoleTrue): a blob is left before its last packet.
NextPacketLeavesEarly(file, p, worker) ==
    LET clear == [p EXCEPT !.error = FALSE, !.packet = NoPacket]
        finished == /\ clear.top <= Len(file) /\ file[clear.top].op = "blob"
                    /\ clear.offset # None /\ clear.offset >= Len(file[clear.top].packets)
        here == IF finished THEN [clear EXCEPT !.top = @ + 1, !.offset = None] ELSE clear
    IN IF here.top > Len(file) THEN here ELSE Take(file, Hint(file, here, worker), worker)

NextPacket(file, p, worker) ==
    LET clear == [p EXCEPT !.error = FALSE, !.packet = NoPacket]
        finished == /\ clear.top <= Len(file) /\ file[clear.top].op = "blob"
                    /\ clear.offset # None /\ clear.offset > Len(file[clear.top].packets)
        here == IF finished THEN [clear EXCEPT !.top = @ + 1, !.offset = None] ELSE clear
    IN IF here.top > Len(file) THEN here ELSE Take(file, Hint(file, here, worker), worker)

(***************************************************************************)
(* What a file means, read from its start with nothing kept or skipped     *)
(***************************************************************************)

\* Everything before a cursor, blobs opened.
Before(file, p) ==
    FlattenSeq([i \in 1..(p.top - 1) |-> IF file[i].op = "blob" THEN file[i].packets ELSE <<file[i]>>])
    \o (IF p.offset = None THEN <<>> ELSE SubSeq(file[p.top].packets, 1, p.offset - 1))

FramesIn(packets) == Len(SelectSeq(packets, LAMBDA q : q.op = "frame"))
HappenedIn(packets) == Len(SelectSeq(packets, LAMBDA q : q.op \in {"frame", "other"}))

AtEnd(file, p) ==
    \/ p.top > Len(file)
    \/ p.top = Len(file) /\ file[p.top].op = "blob"
       /\ p.offset # None /\ p.offset > Len(file[p.top].packets)

TotalFrames(file) == FramesIn(Before(file, [top |-> Len(file) + 1, offset |-> None]))
Intact(file) == \A b \in BlobsOf(file) : Whole(file[b])
IsStored(file) == \E i \in DOMAIN file : file[i].op = "stored"
=============================================================================
