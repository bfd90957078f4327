------------------------------ MODULE Playback ------------------------------
(***************************************************************************)
(* A replay file driving the console (supershuckie-core, lib.rs): played   *)
(* frame by frame, seeked in exactly or coarsely, stopped so that the user *)
(* plays on from there, and resumed. ReplayPlayer reads the file, with a   *)
(* worker that decompresses the next blob. That a picture may need output  *)
(* a keyframe left out (shows_stale_output, skipped_draws_left_stale) is a *)
(* choice; pictures, sound, speed and time are left out.                   *)
(***************************************************************************)
EXTENDS ReplayPlayer

CONSTANTS
    Files,      \* the replay files that are opened
    PostLoad,   \* POST_LOAD_FRAMES
    Fallbacks,  \* STALE_FALLBACK_KEYFRAMES, a sequence
    Settle,     \* MAX_COARSE_SETTLE_FRAMES
    MaxLive     \* bound: frames of a console the user has to himself

ASSUME PlaybackAssumption ==
    /\ {PostLoad, Settle, MaxLive} \subseteq Nat
    /\ Fallbacks \in Seq(Nat \ {0})

VARIABLES
    file,    \* the replay attached
    resync,  \* auto_resync_keyframes_in_replays, or a console that asks for it
    player,  \* ReplayFilePlayer
    console  \* what the core keeps about the console and its replay; goal: the frame
             \* the last call was to end on, if it was an exact seek

vars == <<file, resync, player, console>>

Lived == -3      \* a state the replay does not have: the user's

\* What the worker comes to during a call; one begun within the call is still busy.
Workers == IF player.working = {} THEN {"busy"} ELSE {"busy", "done", "died"}

\* A core and its player, as the operators below take and return them.
Session == [player |-> player, console |-> console]

(***************************************************************************)
(* One frame                                                               *)
(***************************************************************************)

Stalled(s) == [s EXCEPT !.console.stalled = TRUE]

\* apply_playback_packet, and a keyframe under auto-resync.
Applied(s, packet) ==
    CASE packet.op = "other" -> [s EXCEPT !.console.state = IF @ >= 0 THEN @ + 1 ELSE @]
      [] IsKeyframe(packet) /\ resync -> [s EXCEPT !.console.state = CurrentState(s.player)]
      [] OTHER -> s

\* handle_replay: every packet up to the next frame, then do_run_fn runs that frame.
RECURSIVE RunFrame(_, _)
Handle(s, worker) ==
    LET packet == s.player.packet IN
    IF s.player.error \/ packet = NoPacket THEN Stalled(s)
    ELSE IF packet.op = "frame"
         THEN [s EXCEPT !.console.state = IF @ >= 0 THEN @ + 1 ELSE @,
                        !.console.frames = @ + 1, !.console.goal = None]
    ELSE RunFrame(Applied(s, packet), worker)

RunFrame(s, worker) ==
    IF s.console.stalled THEN s
    ELSE Handle([s EXCEPT !.player = NextPacket(file, s.player, worker)], worker)

\* run_replay_to.
RECURSIVE RunTo(_, _, _)
RunTo(s, desired, worker) ==
    IF s.console.stalled \/ s.console.frames > desired THEN s
    ELSE RunTo(RunFrame(s, worker), desired, worker)

(***************************************************************************)
(* Seeking                                                                 *)
(***************************************************************************)

Error(s) == [s EXCEPT !.console.stalled = TRUE, !.console.result = "error"]
Fine(s) == s.console.result = "ok"

\* load_replay_keyframe_at_or_before.
Loaded(s, frame) ==
    IF s.player.error \/ ~IsKeyframe(s.player.packet) THEN Error(s)
    ELSE [s EXCEPT !.console = [@ EXCEPT !.state = CurrentState(s.player), !.frames = frame,
                                         !.loaded = frame, !.stalled = FALSE]]

LoadKeyframe(s, frame, worker) ==
    LET best == Max({k \in KeyframeFrames(file) : k <= frame})
        Read(there) == IF there.error THEN there ELSE NextPacket(file, there, worker)
    IN Loaded([s EXCEPT !.player = Read(GoToKeyframe(file, s.player, best, worker))], best)

WalkFrom(loaded, desired, worker) ==
    IF ~Fine(loaded) THEN loaded ELSE RunTo(loaded, desired, worker)

\* run_replay_to_complete_picture: the same walk again if drawing skipped something.
Walk(s, desired, again, worker) ==
    LET Repeated(once) ==
            IF ~again \/ once.console.stalled THEN once
            ELSE WalkFrom(LoadKeyframe(once, once.console.loaded, worker), desired, worker)
    IN Repeated(WalkFrom(s, desired, worker))

\* STALE_FALLBACK_KEYFRAMES: the walk from an earlier keyframe, for the first `times`
\* of them; if that cannot be read, from the one before the fallbacks.
RECURSIVE FallBack(_, _, _, _, _)
FallBack(s, keyframe, desired, times, worker) ==
    LET back == Fallbacks[Len(Fallbacks) - times + 1]
        before == SetToSortSeq({k \in KeyframeFrames(file) : k < keyframe}, >)
        Onward(earlier) ==
            IF Fine(earlier)
            THEN FallBack(RunTo(earlier, desired, worker), keyframe, desired, times - 1, worker)
            ELSE WalkFrom(LoadKeyframe([earlier EXCEPT !.console.result = "ok"], keyframe, worker),
                          desired, worker)
    IN IF times = 0 \/ back > Len(before) THEN s
       ELSE Onward(LoadKeyframe(s, before[back], worker))

\* seek_in_replay. `times` is how often the picture still lacks something, `again`
\* whether drawing skipped something on the way.
SeekInReplay(s, hint, wanted, exact, times, again, worker) ==
    LET last == TotalFrames(file) - 1
        desired == Min({wanted, last})
        Completed(walked) ==
            IF ~Fine(walked) \/ times = 0 THEN walked
            ELSE IF exact THEN FallBack(walked, walked.console.loaded, desired, times, worker)
            ELSE RunTo(walked, Min({walked.console.frames - 1 + times, last}), worker)
    IN Completed(Walk(LoadKeyframe([s EXCEPT !.console.result = "ok"], hint, worker),
                      desired, again, worker))

\* stop_replay_playback_here.
StopHere(s) == [s EXCEPT !.console.stopped = TRUE, !.console.stalled = FALSE,
                         !.console.resume = s.console.frames]

\* Mutant for SeeksLand: a seek on a stopped replay leaves where it is resumed alone.
GoToForgets(s, frame, exact, times, again, worker) ==
    LET Back(n) == IF n >= frame THEN 0 ELSE frame - n
        Marked(driven) == [driven EXCEPT !.console.goal = IF exact THEN frame ELSE None]
        Left(driven) == [driven EXCEPT !.console.stopped = s.console.stopped,
                                       !.console.stalled = @ /\ ~s.console.stopped]
    IN Left(Marked(SeekInReplay([s EXCEPT !.console.stopped = FALSE],
                                Back(PostLoad), Back(1), exact, times, again, worker)))

\* go_to_replay_frame_inner: a stopped replay drives the console for the seek only.
GoTo(s, frame, exact, times, again, worker) ==
    LET Back(n) == IF n >= frame THEN 0 ELSE frame - n
        Marked(driven) == [driven EXCEPT !.console.goal = IF exact THEN frame ELSE None]
        Left(driven) == IF s.console.stopped THEN StopHere(driven) ELSE driven
    IN Left(Marked(SeekInReplay([s EXCEPT !.console.stopped = FALSE],
                                Back(PostLoad), Back(1), exact, times, again, worker)))

\* coarse_replay_frame.
Coarse(frame) ==
    LET near == {k \in KeyframeFrames(file) : k + PostLoad <= frame} IN
    IF near = {} THEN frame ELSE Max(near) + PostLoad

(***************************************************************************)
(* The core's operations                                                   *)
(***************************************************************************)

Becomes(s) ==
    /\ player' = s.player
    /\ console' = s.console
    /\ UNCHANGED <<file, resync>>

Unattached ==
    [player |-> NewPlayer,
     console |-> [state |-> Lived, frames |-> 0, stalled |-> FALSE, stopped |-> FALSE,
                  resume |-> 0, loaded |-> 0, result |-> "ok", goal |-> None]]

\* attach_replay_player: to frame 0, and its first frame is run.
Attached ==
    LET first == [Unattached EXCEPT !.player = GoToKeyframe(file, NewPlayer, 0, "busy")]
    IN SeekInReplay(first, 0, 0, TRUE, 0, FALSE, "busy")

Init ==
    /\ file \in Files
    /\ resync \in BOOLEAN
    /\ player = Attached.player
    /\ console = Attached.console
    /\ console.result = "ok"

Play ==
    /\ ~console.stopped /\ ~console.stalled
    /\ \E worker \in Workers : Becomes(RunFrame(Session, worker))

\* Frames asked for, one of them behind the last.
Targets == 0..(TotalFrames(file) + 1)

SeekTo(frame) ==
    \E times \in 0..Len(Fallbacks), again \in BOOLEAN, worker \in Workers :
        Becomes(GoTo(Session, frame, TRUE, times, again, worker))

SeekCoarse ==
    \E frame \in {Coarse(asked) : asked \in Targets},
       times \in 0..Settle, again \in BOOLEAN, worker \in Workers :
        Becomes(GoTo(Session, frame, FALSE, times, again, worker))

StopPlayback ==
    /\ ~console.stopped
    /\ Becomes(StopHere(Session))

\* The user's own frames on a stopped replay.
Live ==
    /\ console.stopped
    /\ console.state # Lived \/ console.frames < MaxLive
    /\ Becomes([Session EXCEPT !.console.state = Lived, !.console.frames = @ + 1,
                               !.console.goal = None])

\* resume_replay_playback.
ResumePlayback ==
    /\ console.stopped
    /\ \E times \in 0..Len(Fallbacks), again \in BOOLEAN, worker \in Workers :
        Becomes(GoTo([Session EXCEPT !.console.stopped = FALSE], console.resume, TRUE, times, again, worker))

\* go_to_replay_resume_point.
GoToResumePoint ==
    /\ console.stopped
    /\ SeekTo(console.resume)

Next ==
    \/ Play \/ StopPlayback \/ Live \/ ResumePlayback \/ GoToResumePoint \/ SeekCoarse
    \/ \E frame \in Targets : SeekTo(frame)

Spec == Init /\ [][Next]_vars

(***************************************************************************)
(* Properties                                                              *)
(***************************************************************************)

Driving == ~console.stopped /\ ~console.stalled

\* While the replay drives the console, whatever was seeked, stopped, resumed or
\* damaged before, the console is where the recording was: its frame and its state
\* are those of everything in the file before the cursor. (Not with auto-resync on a
\* 3DS file: see the README.)
ConsoleTrue ==
    Driving =>
        /\ console.frames = FramesIn(Before(file, player))
        /\ ~(resync /\ IsStored(file)) => console.state = HappenedIn(Before(file, player))

\* The chain and every buffer hold the state of the keyframe they say they hold, also
\* after a seek that failed half way.
ChainTrue ==
    /\ player.last # None /\ player.current = None =>
          player.state = PacketsOf(file, player.list)[player.last].state
    /\ \A b \in 0..2 : player.holds[b] # None =>
          player.held[b] = file[player.holds[b]].state /\ file[player.holds[b]].level = b

\* What is played is what was recorded, before and after every seek, in the console and
\* in the buffers the next keyframes are decoded against.
Faithful == ConsoleTrue /\ ChainTrue

\* A file without damage is played to its end: no seek fails, and nothing but the
\* end stalls it.
PlaysToItsEnd ==
    Intact(file) => console.result = "ok" /\ (console.stalled => AtEnd(file, player))

\* In a file without damage an exact seek, and a resume of a stopped replay, end on
\* the frame asked for, within the replay: whatever fallbacks its picture took, wherever
\* the user had played to meanwhile. The replay can then be resumed from there.
SeeksLand ==
    Intact(file) /\ console.goal # None =>
        /\ console.frames = Max({1, Min({console.goal, TotalFrames(file)})})
        /\ console.stopped => console.resume = console.frames
=============================================================================
