---------------------------- MODULE MCLinkCable ----------------------------
(* LinkCable for TLC: the clients are interchangeable.                     *)
EXTENDS LinkCable, TLC

Symmetry == Permutations(Client)

=============================================================================
