---------------------------- MODULE MCRecorder ----------------------------
(* Recorder for TLC: its bounds are in the configurations.                 *)
EXTENDS Recorder
=============================================================================
