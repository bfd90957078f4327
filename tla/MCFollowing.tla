---------------------------- MODULE MCFollowing ----------------------------
(* Following with one or two followers.                                    *)
EXTENDS Following, TLC

Symmetry == Permutations(Follower)
=============================================================================
