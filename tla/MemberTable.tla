---------------------------- MODULE MemberTable -----------------------------
(* What other components may rely on about the members of one server: its   *)
(* rows of server_members change one at a time, a member joins with the     *)
(* role member and its founder as admin, and dropping the server drops all. *)

CONSTANT Users

VARIABLE role    \* server_members.role of each user, "none" without a row

Roles == {"admin", "moderator", "member"}
Members == {u \in Users : role[u] # "none"}

Put(u, r) == role' = [role EXCEPT ![u] = r]
Found(u) == Members = {} /\ Put(u, "admin")
Join(u) == role[u] = "none" /\ Put(u, "member")
SetRole(u, r) == u \in Members /\ Put(u, r)
Remove(u) == u \in Members /\ Put(u, "none")
Drop == role' = [u \in Users |-> "none"]

TableInit == role = [u \in Users |-> "none"]
TableNext ==
    \/ Drop
    \/ \E u \in Users :
          Found(u) \/ Join(u) \/ Remove(u) \/ \E r \in Roles : SetRole(u, r)

TableSpec == TableInit /\ [][TableNext]_role
=============================================================================
