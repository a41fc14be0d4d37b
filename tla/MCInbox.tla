------------------------------ MODULE MCInbox -------------------------------
(* Inbox for TLC: messages and task slots are interchangeable.              *)
EXTENDS Inbox, TLC

Symmetry == Permutations(Msgs \ Expiring) \cup Permutations(Sends) \cup Permutations(Tasks)
=============================================================================
