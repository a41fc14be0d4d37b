---------------------------- MODULE MCMembership ----------------------------
(* Membership for TLC: the users and the request slots are interchangeable. *)
EXTENDS Membership, TLC

Symmetry == Permutations(Users) \cup Permutations(Workers)
=============================================================================
