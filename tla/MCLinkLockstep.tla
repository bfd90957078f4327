--------------------------- MODULE MCLinkLockstep ---------------------------
(* LinkLockstep with frames of different lengths.                          *)
EXTENDS LinkLockstep

Ticks == [k \in Console |-> IF k = "first" THEN 2 ELSE 1]
=============================================================================
