---------------------------- MODULE MCHostRoster ----------------------------
(* HostRoster with a handful of connections.                               *)
EXTENDS HostRoster, TLC

\* The connections are interchangeable.
Symmetry == Permutations(Conn)
=============================================================================
