------------------------------ MODULE Recorder ------------------------------
(***************************************************************************)
(* Recording a replay (supershuckie-replay-recorder, record.rs,            *)
(* record/thread.rs, record/resume.rs): what the core reports of a console *)
(* goes through a channel to a recorder thread, which buffers it in a blob *)
(* and writes every finished blob to the replay file, and everything at    *)
(* once to a temporary copy that is there for a crash.                     *)
(*                                                                         *)
(* A console is deterministic, so its state is the number of things that   *)
(* happened to it: frames, and whatever else is recorded between them. A   *)
(* keyframe holds a state whole ("key") or as its difference from another  *)
(* ("delta", with the state it was taken against). Times, counters, speed, *)
(* compression, the byte limit of a blob and the Nintendo 3DS's stored     *)
(* keyframes are left out.                                                 *)
(***************************************************************************)
EXTENDS Integers, Sequences, SequencesExt, FiniteSets, FiniteSetsExt

CONSTANTS
    BlobFrames,     \* ReplayFileRecorderSettings::max_frames_per_blob
    MaxReports,     \* bound: things the core reports
    MaxQueue,       \* bound: length of the channel
    MaxFinalFaults, \* bound: writes of the replay file that fail
    MaxTempFaults,  \* bound: writes of the temporary copy that fail
    MaxPanics       \* bound: panics of the recorder thread

ASSUME BlobFramesAssumption == BlobFrames \in Nat \ {0}
ASSUME RecorderBoundsAssumption ==
    {MaxReports, MaxQueue, MaxFinalFaults, MaxTempFaults, MaxPanics} \subseteq Nat

VARIABLES
    rec,       \* the ReplayFileRecorder and its two files
    queue,     \* commands on their way to the recorder thread
    inFlight,  \* keyframes_in_flight
    helper,    \* the recorder thread
    errors,    \* what it reported and the core has not polled
    core,      \* the core: its console, and whether it records
    lived,     \* the console's state at the end of every frame recorded
    faults     \* how many of the bounded things happened

vars == <<rec, queue, inFlight, helper, errors, core, lived, faults>>

None == -1

(***************************************************************************)
(* Files and the packets in them                                           *)
(***************************************************************************)

Happening(op) == [op |-> op]                       \* NextFrame, and any other
Keyframe(frame, state) == [op |-> "key", frame |-> frame, state |-> state]
Delta(frame, state, base) == [op |-> "delta", frame |-> frame, state |-> state, base |-> base]
Table(bookmarks) == [op |-> "table", bookmarks |-> bookmarks]

IsKeyframe(p) == p.op \in {"key", "delta"}
Keyframes(packets) == SelectSeq(packets, IsKeyframe)

\* A file: finished blobs, packets after them, and once closed the recorded end
\* of the packets and the bookmark section after it. `sound`: nothing failed yet
\* that was not made up for.
NewFile == [blobs |-> <<>>, tail |-> <<>>, ended |-> FALSE, section |-> None, sound |-> TRUE]

(***************************************************************************)
(* ReplayFileRecorder: every operation takes the recorder and the sinks    *)
(* that fail during it, and leaves its outcome in `result`                 *)
(***************************************************************************)

\* new_blank.
Blank ==
    [frames |-> 0, packets |-> <<>>, last |-> None, bookmarks |-> 0, written |-> FALSE,
     pending |-> FALSE, final |-> NewFile, temp |-> NewFile, closed |-> FALSE, result |-> "ok"]

\* The `?` of Rust: go on only if the step before went well.
Ok(r) == r.result = "ok"

\* temp_write: after its first failure, which alone is reported, nothing is written.
WriteTemp(r, failing, file) ==
    IF ~r.temp.sound THEN r
    ELSE IF "temp" \in failing THEN [r EXCEPT !.temp.sound = FALSE, !.result = "temp"]
    ELSE [r EXCEPT !.temp = file]

\* final_write.
WriteFinal(r, failing, file) ==
    IF "final" \in failing THEN [r EXCEPT !.final.sound = FALSE, !.result = "final"]
    ELSE [r EXCEPT !.final = [file EXCEPT !.sound = TRUE]]

\* write_packet_unchecked: into the blob in progress, and the temporary copy.
WritePacket(r, failing, p) ==
    LET buffered == [r EXCEPT !.packets = Append(@, p)] IN
    WriteTemp(buffered, failing, [r.temp EXCEPT !.tail = Append(@, p)])

\* A mutant: the blob is given up before the file holds it.
NextBlobGivenUp(r, failing) ==
    IF Keyframes(r.packets) = <<>> THEN r
    ELSE LET blob == [start |-> Head(Keyframes(r.packets)).frame, end |-> r.frames, packets |-> r.packets]
             Holding(file) == [file EXCEPT !.blobs = Append(@, blob), !.tail = <<>>]
             stored == [WriteFinal(r, failing, Holding(r.final)) EXCEPT !.packets = <<>>]
         IN IF ~Ok(stored) THEN stored ELSE WriteTemp(stored, failing, Holding(r.temp))

\* A mutant: the copy keeps the packets that the blob replaces.
NextBlobTwice(r, failing) ==
    IF Keyframes(r.packets) = <<>> THEN r
    ELSE LET blob == [start |-> Head(Keyframes(r.packets)).frame, end |-> r.frames, packets |-> r.packets]
             stored == WriteFinal(r, failing, [r.final EXCEPT !.blobs = Append(@, blob), !.tail = <<>>])
         IN IF ~Ok(stored) THEN stored
            ELSE WriteTemp([stored EXCEPT !.packets = <<>>], failing, [r.temp EXCEPT !.blobs = Append(@, blob)])

\* next_blob: the blob is kept until the file holds it; the copy then has it too,
\* in place of the packets it was made of.
NextBlob(r, failing) ==
    IF Keyframes(r.packets) = <<>> THEN r
    ELSE LET blob == [start |-> Head(Keyframes(r.packets)).frame, end |-> r.frames, packets |-> r.packets]
             Holding(file) == [file EXCEPT !.blobs = Append(@, blob), !.tail = <<>>]
             stored == WriteFinal(r, failing, Holding(r.final))
         IN IF ~Ok(stored) THEN stored
            ELSE WriteTemp([stored EXCEPT !.packets = <<>>], failing, Holding(r.temp))

\* blob_limit_reached.
BlobLimitReached(r) ==
    /\ Keyframes(r.packets) # <<>>
    /\ r.frames - Head(Keyframes(r.packets)).frame >= BlobFrames

\* write_bookmark_snapshot.
WriteSnapshot(r, failing) ==
    WritePacket([r EXCEPT !.pending = FALSE], failing, Table(r.bookmarks))

\* A mutant: the first keyframe of a blob is a delta on the last of the one before.
InsertKeyframeAcross(r, failing, state, full) ==
    LET split == IF BlobLimitReached(r) THEN NextBlob(r, failing) ELSE r
        packet == IF full \/ split.last = None
                  THEN Keyframe(r.frames, state)
                  ELSE Delta(r.frames, state, split.last)
        wrote == WritePacket(split, failing, packet)
        kept == [wrote EXCEPT !.last = state]
        first == Len(Keyframes(kept.packets)) = 1
    IN IF ~Ok(split) THEN split
       ELSE IF ~Ok(wrote) THEN wrote
       ELSE IF kept.pending \/ (first /\ kept.written) THEN WriteSnapshot(kept, failing)
       ELSE kept

\* A mutant: the table is not written again at the start of a blob.
InsertKeyframeOnly(r, failing, state, full) ==
    LET split == IF BlobLimitReached(r) THEN NextBlob(r, failing) ELSE r
        ready == IF BlobLimitReached(r) THEN [split EXCEPT !.last = None] ELSE r
        packet == IF full \/ ready.last = None
                  THEN Keyframe(r.frames, state)
                  ELSE Delta(r.frames, state, ready.last)
        wrote == WritePacket(ready, failing, packet)
        kept == [wrote EXCEPT !.last = state]
    IN IF ~Ok(split) THEN split
       ELSE IF ~Ok(wrote) THEN wrote
       ELSE IF kept.pending THEN WriteSnapshot(kept, failing)
       ELSE kept

\* insert_keyframe_with: a delta against the state before, unless the blob starts
\* with it, it is asked for in full, or the delta would be larger (`full`).
InsertKeyframe(r, failing, state, full) ==
    LET split == IF BlobLimitReached(r) THEN NextBlob(r, failing) ELSE r
        ready == IF BlobLimitReached(r) THEN [split EXCEPT !.last = None] ELSE r
        packet == IF full \/ ready.last = None
                  THEN Keyframe(r.frames, state)
                  ELSE Delta(r.frames, state, ready.last)
        wrote == WritePacket(ready, failing, packet)
        kept == [wrote EXCEPT !.last = state]
        first == Len(Keyframes(kept.packets)) = 1
    IN IF ~Ok(split) THEN split
       ELSE IF ~Ok(wrote) THEN wrote
       ELSE IF kept.pending \/ (first /\ kept.written) THEN WriteSnapshot(kept, failing)
       ELSE kept

\* next_frame.
NextFrame(r, failing) == WritePacket([r EXCEPT !.frames = @ + 1], failing, Happening("frame"))

\* set_input, reset_console, write_memory, set_speed, load_save_state, serial_in,
\* change_counter.
Other(r, failing) == WritePacket(r, failing, Happening("other"))

\* set_bookmark_table.
SetBookmarkTable(r, failing, table) ==
    LET set == [r EXCEPT !.bookmarks = table, !.written = TRUE] IN
    IF table = r.bookmarks THEN r
    ELSE IF Keyframes(r.packets) = <<>> THEN [set EXCEPT !.pending = TRUE]
    ELSE WriteSnapshot(set, failing)

\* sync_header: refused while the replay file's last write failed.
SyncHeader(r, failing, ended) ==
    IF ~r.final.sound THEN [r EXCEPT !.result = "final"]
    ELSE LET synced == WriteFinal(r, failing, [r.final EXCEPT !.ended = ended]) IN
         IF ~Ok(synced) THEN synced
         ELSE WriteTemp(synced, failing, [r.temp EXCEPT !.ended = ended])

\* mark_start, mark_end.
Mark(r, failing) == SyncHeader(r, failing, r.final.ended)

\* close: the last blob, the end of the packets, the bookmark section. A failure
\* of the temporary copy is no failure; `failing` may hold "section", for a file
\* that takes the header but not the section.
Close(r, failing) ==
    LET Genuine(x) == x.result = "final"
        Going(x) == [x EXCEPT !.result = "ok"]
        blob == NextBlob(r, failing)
        header == SyncHeader(Going(blob), failing, TRUE)
        section == WriteFinal(Going(header), IF "section" \in failing THEN {"final"} ELSE {},
                              [header.final EXCEPT !.section = r.bookmarks])
        copied == WriteTemp(section, failing, [section.temp EXCEPT !.section = r.bookmarks])
        done == IF Genuine(blob) THEN blob
                ELSE IF Genuine(header) THEN header
                ELSE IF Genuine(section) THEN section
                ELSE Going(copied)
    IN [done EXCEPT !.closed = TRUE]

(***************************************************************************)
(* Reading a file back (playback.rs)                                       *)
(***************************************************************************)

\* Folding one packet into the keyframe chain while playing: `chain` is the state
\* of the last keyframe, `at` the console's. A delta on another state than it was
\* taken against is not the state recorded.
PlayPacket(play, p) ==
    LET state == IF p.op = "key" \/ (p.op = "delta" /\ p.base = play.chain) THEN p.state ELSE None IN
    CASE p.op = "frame" -> [play EXCEPT !.at = @ + 1, !.ends = Append(@, play.at)]
      [] p.op = "other" -> [play EXCEPT !.at = @ + 1]
      [] IsKeyframe(p)  -> [play EXCEPT !.chain = state, !.at = state,
                                        !.exact = @ /\ state # None /\ (play.at = None \/ play.at = state)]
      [] OTHER          -> play

\* The lists of a file: every blob, entered with no chain, then what follows them.
Lists(file) == [i \in DOMAIN file.blobs |-> file.blobs[i].packets] \o <<file.tail>>

PlayList(play, packets) == FoldLeft(PlayPacket, [play EXCEPT !.chain = None], packets)

\* Playing a file from its start: the state at the end of every frame, and if
\* every keyframe held the very state the console had.
Played(file) ==
    LET end == FoldLeft(PlayList, [chain |-> None, at |-> None, ends |-> <<>>, exact |-> TRUE], Lists(file)) IN
    [ends |-> IF end.at = None THEN end.ends ELSE Append(end.ends, end.at), exact |-> end.exact]

Frames(file) == Len(Played(file).ends) - 1

\* newest_stream_snapshot: from the tail, or else from the last blob alone.
TablesIn(packets) == SelectSeq(packets, LAMBDA p : p.op = "table")
NewestSnapshot(file) ==
    LET tail == TablesIn(file.tail)
        inBlob == IF file.blobs = <<>> THEN <<>> ELSE TablesIn(Last(file.blobs).packets)
    IN IF tail # <<>> THEN Last(tail).bookmarks
       ELSE IF inBlob # <<>> THEN Last(inBlob).bookmarks
       ELSE None

\* The bookmarks a player finds: the section of a closed file, or the stream's.
BookmarksOf(file) ==
    IF file.ended /\ file.section # None THEN file.section ELSE NewestSnapshot(file)

\* A mutant: the frame after the target is fed too.
UpToFrameAfter(packets, n) ==
    LET isFrame(i) == packets[i].op = "frame"
        cuts == {i \in DOMAIN packets : isFrame(i) /\ Cardinality({j \in 1..i : isFrame(j)}) > n + 1}
    IN IF cuts = {} THEN packets ELSE SubSeq(packets, 1, Min(cuts) - 1)

\* The longest part of a sequence of packets that ends with frame n complete.
UpToFrame(packets, n) ==
    LET isFrame(i) == packets[i].op = "frame"
        cuts == {i \in DOMAIN packets : isFrame(i) /\ Cardinality({j \in 1..i : isFrame(j)}) = n + 1}
    IN IF cuts = {} THEN packets ELSE SubSeq(packets, 1, Min(cuts) - 1)

\* Every keyframe as next_packet hands it out: materialised.
Materialised(packets) ==
    [i \in DOMAIN packets |->
        IF IsKeyframe(packets[i])
        THEN Keyframe(packets[i].frame, PlayList([chain |-> None, at |-> None, ends |-> <<>>, exact |-> TRUE],
                                                 SubSeq(packets, 1, i)).chain)
        ELSE packets[i]]

(***************************************************************************)
(* build_resumed_recorder                                                  *)
(***************************************************************************)

Refeed(r, p) ==
    CASE p.op = "frame"   -> NextFrame(r, {})
      [] p.op = "other"   -> Other(r, {})
      [] IsKeyframe(p)    -> InsertKeyframe(r, {}, p.state, FALSE)
      [] OTHER            -> r

\* The new file starts with the source's finished blobs that end before the target,
\* as they are; the blob at the target is fed again, from the last keyframe on the
\* frame it starts at. A source that is not all blobs is fed again from frame 0.
Resumed(source, target, table) ==
    LET copied == IF source.tail # <<>> THEN <<>>
                  ELSE SelectSeq(source.blobs, LAMBDA b : b.end < target)
        lists == Lists(source)
        rest == FlattenSeq([i \in 1..(Len(lists) - Len(copied)) |-> Materialised(lists[Len(copied) + i])])
        start == Head(Keyframes(rest)).frame
        from == Max({i \in DOMAIN rest : IsKeyframe(rest[i]) /\ rest[i].frame = start})
        first == rest[from]
        holding == [NewFile EXCEPT !.blobs = copied]
        \* prime_for_resume, seed_bookmark_table.
        primed == [Blank EXCEPT !.frames = first.frame, !.final = holding, !.temp = holding,
                                !.bookmarks = table, !.written = TRUE, !.pending = TRUE]
        fed == UpToFrame(SubSeq(rest, from, Len(rest)), target - start)
    IN FoldLeft(Refeed, primed, fed)

(***************************************************************************)
(* The core, the channel and the recorder thread                           *)
(***************************************************************************)

\* new_with_metadata: the keyframe of frame 0 is in before the thread starts.
Init ==
    /\ rec = InsertKeyframe(Blank, {}, 0, FALSE)
    /\ queue = <<>>
    /\ inFlight = 0
    /\ helper = "running"
    /\ errors = {}
    /\ core = [state |-> 0, recording |-> "yes", table |-> 0]
    /\ lived = <<0>>
    /\ faults = [reports |-> 0, final |-> 0, temp |-> 0, panics |-> 0]

\* A send to a thread that is gone is ignored.
Report(command, state) ==
    /\ core.recording = "yes" /\ faults.reports < MaxReports
    /\ Len(queue) < MaxQueue \/ helper = "gone"
    /\ faults' = [faults EXCEPT !.reports = @ + 1]
    /\ queue' = IF helper = "gone" THEN queue ELSE Append(queue, command)
    /\ core' = [core EXCEPT !.state = state,
                            !.table = IF command.op = "table" THEN command.bookmarks ELSE @]
    /\ UNCHANGED <<rec, helper, errors, lived>>

Happens(op) ==
    /\ Report(Happening(op), core.state + 1)
    /\ UNCHANGED inFlight

\* send_keyframe: counted before it is sent, and back if it cannot be.
SendKeyframe(full) ==
    /\ Report([op |-> "key", state |-> core.state, full |-> full], core.state)
    /\ inFlight' = IF helper = "gone" THEN inFlight ELSE inFlight + 1

Bookmarks ==
    /\ Report(Table(core.table + 1), core.state)
    /\ UNCHANGED inFlight

Marks ==
    /\ Report([op |-> "mark"], core.state)
    /\ UNCHANGED inFlight

\* The recorder's operation for a command, with the sinks that fail during it.
Handled(c, failing) ==
    LET r == [rec EXCEPT !.result = "ok"] IN
    CASE c.op = "frame" -> NextFrame(r, failing)
      [] c.op = "other" -> Other(r, failing)
      [] c.op = "key"   -> InsertKeyframe(r, failing, c.state, c.full)
      [] c.op = "table" -> SetBookmarkTable(r, failing, c.bookmarks)
      [] c.op = "mark"  -> Mark(r, failing)

Lived(c) ==
    LET now == Last(lived) IN
    CASE c.op = "frame" -> Append(lived, now + 1)
      [] c.op = "other" -> [lived EXCEPT ![Len(lived)] = now + 1]
      [] OTHER          -> lived

Fails(failing) ==
    /\ "final" \in failing => faults.final < MaxFinalFaults
    /\ "temp" \in failing => faults.temp < MaxTempFaults
    /\ faults' = [faults EXCEPT !.final = @ + Cardinality(failing \cap {"final", "section"}),
                                !.temp = @ + Cardinality(failing \cap {"temp"})]

\* The thread has a recorder to write to: Weak::upgrade succeeds.
Serving == helper = "running" /\ core.recording # "dropped"

\* A mutant: a keyframe that could not be written stays counted.
HandleEarlyReturn ==
    /\ Serving /\ queue # <<>>
    /\ Head(queue).op # "close"
    /\ LET c == Head(queue) IN
       \E failing \in SUBSET {"final", "temp"} :
          /\ Fails(failing)
          /\ rec' = Handled(c, failing)
          /\ errors' = IF rec'.result = "ok" THEN errors ELSE errors \cup {rec'.result}
          /\ inFlight' = IF c.op = "key" /\ rec'.result = "ok" THEN inFlight - 1 ELSE inFlight
          /\ lived' = Lived(c)
          /\ queue' = Tail(queue)
    /\ UNCHANGED <<helper, core>>

\* run and handle_command: one command.
Handle ==
    /\ Serving /\ queue # <<>>
    /\ Head(queue).op # "close"
    /\ LET c == Head(queue) IN
       \E failing \in SUBSET {"final", "temp"} :
          /\ Fails(failing)
          /\ rec' = Handled(c, failing)
          /\ errors' = IF rec'.result = "ok" THEN errors ELSE errors \cup {rec'.result}
          /\ inFlight' = IF c.op = "key" THEN inFlight - 1 ELSE inFlight
          /\ lived' = Lived(c)
          /\ queue' = Tail(queue)
    /\ UNCHANGED <<helper, core>>

\* run at Close.
Finish ==
    /\ helper = "running" /\ queue # <<>>
    /\ Head(queue).op = "close"
    /\ helper' = "gone"
    /\ queue' = Tail(queue)
    /\ UNCHANGED <<rec, inFlight, errors, core, lived, faults>>

\* A mutant: no ExitNotice, so nobody hears of it.
PanicUnheard ==
    /\ Serving /\ queue # <<>>
    /\ faults.panics < MaxPanics
    /\ faults' = [faults EXCEPT !.panics = @ + 1]
    /\ helper' = "gone"
    /\ queue' = <<>>
    /\ UNCHANGED <<rec, inFlight, errors, core, lived>>

\* A panic in handle_command: the thread unwinds, and ExitNotice says so.
Panic ==
    /\ Serving /\ queue # <<>>
    /\ faults.panics < MaxPanics
    /\ faults' = [faults EXCEPT !.panics = @ + 1]
    /\ helper' = "gone"
    /\ queue' = <<>>
    /\ errors' = errors \cup {"stopped"}
    /\ UNCHANGED <<rec, inFlight, core, lived>>

\* run without a recorder: the next command, or the end of the channel, ends it. What
\* was queued is not written, and nobody is left to hear its ExitNotice.
Abandon ==
    /\ helper = "running" /\ core.recording = "dropped"
    /\ helper' = "gone"
    /\ queue' = <<>>
    /\ UNCHANGED <<rec, inFlight, errors, core, lived, faults>>

\* stop_recording_replay and close: Close is sent, behind everything sent before it.
StopRecording ==
    /\ core.recording = "yes"
    /\ core' = [core EXCEPT !.recording = "closing"]
    /\ queue' = IF helper = "gone" THEN queue ELSE Append(queue, [op |-> "close"])
    /\ UNCHANGED <<rec, inFlight, helper, errors, lived, faults>>

\* force_stop_recording_replay: the recorder is dropped as it is. Nothing is sent, and
\* neither the blob in progress nor the end of the file is written.
ForceStop == core' = [core EXCEPT !.recording = "dropped"]

\* handle_replay_recording_errors: any error but the temporary copy's stops it.
Poll ==
    /\ core.recording = "yes" /\ errors # {}
    /\ errors' = {}
    /\ IF errors \subseteq {"temp"} THEN UNCHANGED core ELSE ForceStop
    /\ UNCHANGED <<rec, queue, inFlight, helper, lived, faults>>

\* The rest of close, once the thread answered or died.
Closes ==
    /\ core.recording = "closing" /\ helper = "gone"
    /\ \E failing \in SUBSET {"final", "temp", "section"} :
          /\ Fails(failing)
          /\ ("section" \in failing) => ("final" \notin failing /\ faults.final < MaxFinalFaults)
          /\ rec' = Close([rec EXCEPT !.result = "ok"], failing)
    /\ core' = [core EXCEPT !.recording = "no"]
    /\ UNCHANGED <<queue, inFlight, helper, errors, lived>>

Core ==
    \/ Happens("frame") \/ Happens("other")
    \/ \E full \in BOOLEAN : SendKeyframe(full)
    \/ Bookmarks \/ Marks \/ StopRecording \/ Poll \/ Closes

Next == Core \/ Handle \/ Finish \/ Abandon \/ Panic

Spec == Init /\ [][Next]_vars

\* The recorder thread is scheduled, the core polls, and one that is closing waits
\* for the thread.
FairSpec == Spec /\ WF_vars(Handle \/ Finish \/ Abandon) /\ WF_vars(Poll \/ Closes)

(***************************************************************************)
(* Properties                                                              *)
(***************************************************************************)

Tells(file, states) == Played(file).ends = states

\* Whatever happens, a file never tells another story than the console's: every
\* keyframe in it, each a delta folded on the one before, is the state the console
\* had, and its frames are those that were recorded, up to some moment.
NeverLies ==
    \A file \in {rec.final, rec.temp} :
        LET play == Played(file) IN
        /\ play.exact
        /\ \A i \in DOMAIN play.ends :
              /\ i <= Len(lived)
              /\ i < Len(play.ends) => play.ends[i] = lived[i]
              /\ play.ends[i] <= lived[i]

\* What the SinkTuple's comment and the tests say of a write of the temporary copy
\* that fails: "the recording itself is unaffected". It is not: the keyframe being
\* written then is not what the next one is taken against (see the README).
RecordingUnaffected == Played(rec.final).exact

\* A crash loses nothing the recorder thread had handled: as long as it could be
\* written, the temporary copy tells everything.
CopyIsComplete == rec.temp.sound => Tells(rec.temp, lived)

\* A recording that closed well is complete, whatever failed on the way and was
\* tried again (next_blob keeps a blob until the file holds it).
ClosedIsComplete == rec.closed /\ rec.result = "ok" => Tells(rec.final, lived)

\* Neither a crash nor a failing write loses any of what was recorded without saying so.
NothingLost == CopyIsComplete /\ ClosedIsComplete

\* A player that looks for bookmarks in the end of a file alone (its section, the
\* packets after the blobs, the last blob) finds the table it would find by reading
\* all of it; a closed file has the one that was set last.
BookmarksFound ==
    \A file \in {rec.final, rec.temp} :
        LET all == TablesIn(FlattenSeq(Lists(file))) IN
        /\ ~file.ended /\ all # <<>> => BookmarksOf(file) = Last(all).bookmarks
        /\ file.ended /\ file.section # None => file.section = rec.bookmarks

BetweenKeyframes(file) ==
    LET all == FlattenSeq(Lists(file)) IN
    \E i, j \in DOMAIN all :
        /\ IsKeyframe(all[i]) /\ IsKeyframe(all[j]) /\ all[i].frame = all[j].frame
        /\ \E k \in i..j : all[k].op = "other"

\* What a crash or an error left, resumed at any of its frames, tells the same
\* frames: blobs copied as they are, and the rest fed again from the last keyframe
\* on the frame the fed part starts at. What else was recorded before that keyframe
\* on that frame is not fed, being in its state: only there may the new file have
\* a keyframe that what it tells before it does not lead to.
ResumedTells ==
    \A file \in {rec.final, rec.temp} : \A target \in 0..Frames(file) :
        Keyframes(FlattenSeq(Lists(file))) # <<>> =>
            LET ends == Played(file).ends
                again == Played(Resumed(file, target, rec.bookmarks).temp)
            IN /\ again.ends = SubSeq(ends, 1, target + 1)
               /\ again.exact \/ BetweenKeyframes(file)

\* keyframes_in_flight counts the keyframes in the channel while the thread lives,
\* so a core that waits for it to fall is not made to wait for nothing.
InFlightExact ==
    helper = "running" => inFlight = Len(SelectSeq(queue, LAMBDA c : c.op = "key"))

\* close returns, also when the recorder thread panicked or what it wrote failed. A core
\* that polls stops recording to a thread that writes no longer, and a thread whose
\* recorder was dropped under it ends, whatever is still queued.
CloseReturns ==
    /\ core.recording = "closing" ~> core.recording = "no"
    /\ helper = "gone" /\ core.recording = "yes" ~> core.recording \in {"no", "dropped"}
    /\ core.recording = "dropped" ~> helper = "gone"
=============================================================================
