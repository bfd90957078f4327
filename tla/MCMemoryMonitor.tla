-------------------------- MODULE MCMemoryMonitor --------------------------
(* MemoryMonitor with a handful of changes, edits and cores.               *)
EXTENDS MemoryMonitor, TLC

CONSTANT g1
=============================================================================
