---------------------------- MODULE MCSharedPause ----------------------------
(* SharedPause with one or two clients.                                    *)
EXTENDS SharedPause, TLC

Symmetry == Permutations(Client)
=============================================================================
