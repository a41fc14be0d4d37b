---------------------------- MODULE TableProofs -----------------------------
(* Membership implements MemberTable.  Beyond the references, the only thing *)
(* a step needs to know is that a role request in progress carries a role.   *)
EXTENDS MembershipProofs

KnownRoles == \A w \in Workers : pc[w] \in RoleStatements => req[w].newRole \in Roles

TableInv == RefInv /\ KnownRoles

\* Whichever statement runs, the member rows change as MemberTable says.
LEMMA RowsImplement ==
    ASSUME TableInv, NEW w \in Workers, Step(w)
    PROVE  [Table!TableNext]_role
<1> DEFINE u == req[w].actor
           t == req[w].target
<1>1. /\ role \in [Users -> Roles \cup {"none"}]
      /\ pc[w] # "idle" => u \in Users
      /\ t \in Users \cup {NoUser} /\ NoUser \notin Users
  BY MembershipAssumption DEF TableInv, RefInv, TypeOK, RequestType
<1> USE DEF Table!TableNext
<1>2. ASSUME NEW x \in Users,
             \/ Table!Found(x) \/ Table!Join(x) \/ Table!Remove(x)
             \/ \E r \in Roles : Table!SetRole(x, r)
      PROVE  [Table!TableNext]_role
  BY <1>2 DEF Roles, Table!Roles
<1>3. ASSUME NEW x, DeleteMembers({x}), x \in Users \cup {NoUser}
      PROVE  [Table!TableNext]_role
  <2>1. CASE x \in Users /\ role[x] # "none"
    <3>1. role' = [role EXCEPT ![x] = "none"]
      BY <1>1, <1>3, <2>1 DEF DeleteMembers
    <3>2. Table!Remove(x)
      BY <2>1, <3>1 DEF Table!Remove, Table!Put, Table!Members
    <3> QED
      BY <1>2, <2>1, <3>2
  <2>2. CASE ~(x \in Users /\ role[x] # "none")
    <3>1. role' = [y \in Users |-> role[y]]
      BY <1>3, <2>2 DEF DeleteMembers
    <3>2. role' = role
      BY <1>1, <3>1
    <3> QED
      BY <3>2
  <2> QED
    BY <2>1, <2>2
<1>4. ASSUME DropServer PROVE [Table!TableNext]_role
  <2>1. role' = [y \in Users |-> "none"]
    BY <1>4 DEF DropServer, DeleteMembers
  <2> QED
    BY <2>1 DEF Table!Drop
<1>5. ASSUME NEW x, NEW r \in Roles, SetRole(x, r) PROVE [Table!TableNext]_role
  <2>1. CASE x \in Members
    <3>1. x \in Users /\ Table!SetRole(x, r)
      BY <1>5, <2>1 DEF SetRole, Members, Table!SetRole, Table!Members, Table!Put
    <3> QED
      BY <1>2, <3>1
  <2>2. CASE x \notin Members
    BY <1>5, <2>2 DEF SetRole
  <2> QED
    BY <2>1, <2>2
<1>6. CASE UNCHANGED role
  BY <1>6
<1>7. CASE CreateMember(w)
  <2>1. phase \in {"new", "gone"}
    BY <1>7 DEF CreateMember, TableInv, RefInv, Lifecycle
  <2>2. Members = {}
    BY <2>1 DEF TableInv, RefInv, ReferentialIntegrity
  <2>3. CASE CanInsert(u) /\ InsertMember(u, "admin")
    <3>1. Table!Found(u)
      BY <2>2, <2>3 DEF InsertMember, Table!Found, Table!Members, Table!Put, Members
    <3> QED
      BY <1>1, <1>2, <1>7, <3>1 DEF CreateMember
  <2> QED
    BY <1>6, <1>7, <2>3 DEF CreateMember, Unchanged, memberRows
<1>8. CASE JoinInsert(w)
  <2>1. CASE CanInsert(u) /\ InsertMember(u, "member")
    <3>1. Table!Join(u)
      BY <2>1 DEF CanInsert, InsertMember, Table!Join, Table!Put
    <3> QED
      BY <1>1, <1>2, <1>8, <3>1 DEF JoinInsert
  <2> QED
    BY <1>6, <1>8, <2>1 DEF JoinInsert, Unchanged, memberRows
<1>9. CASE LeaveDelete(w)
  <2>1. UNCHANGED role \/ DeleteMembers({u})
    BY <1>9 DEF LeaveDelete, Unchanged, memberRows
  <2> QED
    BY <1>1, <1>3, <1>6, <1>9, <2>1 DEF LeaveDelete
<1>10. CASE KickDelete(w)
  BY <1>1, <1>3, <1>10 DEF KickDelete
<1>11. CASE LeavePromote(w)
  BY <1>5, <1>11 DEF LeavePromote, Roles
<1>12. CASE RoleUpdate(w)
  <2>1. req[w].newRole \in Roles
    BY <1>12 DEF RoleUpdate, TableInv, KnownRoles, RoleStatements
  <2> QED
    BY <1>5, <1>12, <2>1 DEF RoleUpdate
<1>13. CASE LeaveDrop(w)
  BY <1>4, <1>13 DEF LeaveDrop
<1>14. CASE DeleteServer(w)
  BY <1>4, <1>6, <1>14 DEF DeleteServer, memberRows
<1>15. CASE DeleteAccount(w)
  BY <1>1, <1>3, <1>4, <1>15 DEF DeleteAccount
<1>16. CASE \/ CreateServer(w) \/ InviteRole(w) \/ InviteUpdate(w)
            \/ JoinServer(w) \/ JoinExisting(w) \/ JoinCount(w)
            \/ LeaveCount(w) \/ LeaveOldest(w) \/ LeaveOwner(w)
            \/ KickActor(w) \/ KickTarget(w) \/ KickCount(w)
            \/ RoleActor(w) \/ RoleTarget(w)
  <2>1. UNCHANGED role
    BY <1>16 DEF CreateServer, InviteRole, InviteUpdate, JoinServer, JoinExisting,
       JoinCount, LeaveCount, LeaveOldest, LeaveOwner, KickActor, KickTarget, KickCount,
       RoleActor, RoleTarget, ReadActor, CheckTarget, Unchanged, memberRows
  <2> QED
    BY <1>6, <2>1
<1> QED
  BY <1>7, <1>8, <1>9, <1>10, <1>11, <1>12, <1>13, <1>14, <1>15, <1>16 DEF Step

\* Every step of a handler but the first two of role leaves the role requests.
LEMMA OthersMove ==
    ASSUME TypeOK, NEW w \in Workers, Step(w), ~RoleActor(w), ~RoleTarget(w)
    PROVE  \E s, r : s \notin RoleStatements /\ Keep(w, s, r)
<1> USE DEF RoleStatements
<1>1. ASSUME NEW s \in Statements \cup {"idle"}, s \notin RoleStatements, Goto(w, s)
      PROVE  \E r : Keep(w, s, r)
  <2>1. req' = [req EXCEPT ![w] = req[w]]
    BY <1>1 DEF Goto, TypeOK
  <2> QED
    BY <1>1, <2>1 DEF Goto, Keep
<1>2. ASSUME Reply(w) PROVE Keep(w, "idle", NoRequest)
  BY <1>2 DEF Reply
<1> USE DEF Statements
<1>3. CASE CreateServer(w) \/ CreateMember(w)
  BY <1>1, <1>2, <1>3 DEF CreateServer, CreateMember
<1>4. CASE InviteRole(w) \/ InviteUpdate(w)
  BY <1>1, <1>2, <1>4 DEF InviteRole, InviteUpdate
<1>5. CASE JoinServer(w) \/ JoinExisting(w) \/ JoinInsert(w) \/ JoinCount(w)
  BY <1>1, <1>2, <1>5 DEF JoinServer, JoinExisting, JoinInsert, JoinCount
<1>6. CASE LeaveDelete(w) \/ LeaveCount(w) \/ LeaveOwner(w) \/ LeavePromote(w) \/ LeaveDrop(w)
  BY <1>1, <1>2, <1>6 DEF LeaveDelete, LeaveCount, LeaveOwner, LeavePromote, LeaveDrop
<1>7. CASE LeaveOldest(w)
  <2>1. CASE Goto(w, "leave_drop")
    BY <1>1, <2>1
  <2>2. CASE \E r : Keep(w, "leave_owner", r)
    BY <2>2
  <2> QED
    BY <1>7, <2>1, <2>2 DEF LeaveOldest
<1>8. CASE KickActor(w) \/ KickTarget(w)
  BY <1>1, <1>2, <1>8 DEF KickActor, KickTarget, ReadActor, CheckTarget
<1>9. CASE KickDelete(w) \/ KickCount(w) \/ RoleUpdate(w)
  BY <1>1, <1>2, <1>9 DEF KickDelete, KickCount, RoleUpdate
<1>10. CASE DeleteServer(w) \/ DeleteAccount(w)
  BY <1>2, <1>10 DEF DeleteServer, DeleteAccount
<1> QED
  BY <1>3, <1>4, <1>5, <1>6, <1>7, <1>8, <1>9, <1>10 DEF Step

\* A role request gets its role when it starts and keeps it.
LEMMA RolesKept ==
    ASSUME TypeOK, KnownRoles, NEW w \in Workers, Step(w)
    PROVE  KnownRoles'
<1> USE DEF TypeOK, RoleStatements
<1>1. CASE RoleActor(w)
  <2>1. pc[w] = "role" /\ (Reply(w) \/ Keep(w, "role_target",
           [req[w] EXCEPT !.seen = role[req[w].actor]]))
    BY <1>1 DEF RoleActor, ReadActor
  <2>2. CASE Reply(w)
    BY <2>2 DEF Reply, Keep, KnownRoles
  <2>3. CASE Keep(w, "role_target", [req[w] EXCEPT !.seen = role[req[w].actor]])
    <3>1. req'[w].newRole = req[w].newRole
      BY <2>1, <2>3 DEF Keep, RequestType
    <3> QED
      BY <2>1, <2>3, <3>1 DEF Keep, KnownRoles
  <2> QED
    BY <2>1, <2>2, <2>3
<1>2. CASE RoleTarget(w)
  <2>1. pc[w] = "role_target" /\ (Reply(w) \/ Goto(w, "role_update"))
    BY <1>2 DEF RoleTarget, CheckTarget
  <2>2. CASE Reply(w)
    BY <2>2 DEF Reply, Keep, KnownRoles
  <2>3. CASE Goto(w, "role_update")
    BY <2>1, <2>3 DEF Goto, KnownRoles
  <2> QED
    BY <2>1, <2>2, <2>3
<1>3. CASE ~RoleActor(w) /\ ~RoleTarget(w)
  BY <1>3, OthersMove DEF Keep, KnownRoles
<1> QED
  BY <1>1, <1>2, <1>3

LEMMA RolesStarted ==
    ASSUME TypeOK, KnownRoles, NEW w \in Workers, Start(w) \/ Fault(w)
    PROVE  KnownRoles'
<1> USE DEF TypeOK, RoleStatements, KnownRoles, Keep
<1>1. CASE Fault(w)
  BY <1>1 DEF Fault, Reply
<1>2. CASE StartRole(w)
  <2>1. PICK u \in Users, t \in Users, r \in Roles : Begin(w, "role", u, t, r)
    BY <1>2 DEF StartRole
  <2>2. pc' = [pc EXCEPT ![w] = "role"] /\ req' = [req EXCEPT ![w] =
           [NoRequest EXCEPT !.actor = u, !.target = t, !.newRole = r]]
    BY <2>1 DEF Begin
  <2>3. req'[w].newRole = r
    BY <2>2 DEF NoRequest
  <2> QED
    BY <2>2, <2>3
<1>3. CASE Start(w) /\ ~StartRole(w)
  BY <1>3 DEF Start, StartCreate, StartJoin, StartPlain, StartAccount, StartKick, Begin
<1> QED
  BY <1>1, <1>2, <1>3

LEMMA TableInvNext == TableInv /\ [Next]_vars => TableInv' /\ [Table!TableNext]_role
<1> SUFFICES ASSUME TableInv, [Next]_vars PROVE KnownRoles' /\ [Table!TableNext]_role
  BY RefNext DEF TableInv
<1> TypeOK /\ KnownRoles
  BY DEF TableInv, RefInv
<1>1. CASE UNCHANGED vars
  BY <1>1 DEF vars, memberRows, KnownRoles
<1>2. ASSUME NEW w \in Workers, Step(w) PROVE KnownRoles' /\ [Table!TableNext]_role
  BY <1>2, RowsImplement, RolesKept
<1>3. ASSUME NEW w \in Workers, Start(w) \/ Fault(w)
      PROVE  KnownRoles' /\ [Table!TableNext]_role
  BY <1>3, RolesStarted, SlotMoves DEF memberRows
<1> QED
  BY <1>1, <1>2, <1>3 DEF Next

\* The member rows of Membership behave as MemberTable, for any number of
\* requests at once and any faults (the whole of routes/servers.js but rotation,
\* and DELETE /account).
THEOREM ImplementsTable == Spec => ImplementsMemberTable
<1>1. Init => TableInv /\ Table!TableInit
  <2>1. Init => KnownRoles
    BY DEF Init, KnownRoles, RoleStatements
  <2> QED
    BY <2>1, RefInit DEF TableInv, Init, Table!TableInit
<1> QED
  BY <1>1, TableInvNext, PTL DEF Spec, ImplementsMemberTable, Table!TableSpec
=============================================================================
