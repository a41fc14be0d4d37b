------------------------------ MODULE MCLogin -------------------------------
(* Login for TLC: pages, passwords, ids and challenges are interchangeable. *)
EXTENDS Login, TLC

CONSTANTS c1, c2, c3
RecoveryBatches == {{c1, c2}, {c3}}

Symmetry ==
    Permutations(Pages) \cup Permutations(Accounts) \cup Permutations(Passwords)
    \cup Permutations(Challenges) \cup Permutations(Sessions)
=============================================================================
