-------------------------- MODULE MembershipProofs --------------------------
(* Theorems about Membership, for every set of users, every number of       *)
(* request slots and every cap.                                             *)
EXTENDS Membership, TLAPS, FiniteSetTheorems

USE MembershipAssumption

\* What a request carries has its type.
LEMMA RequestTypes ==
    /\ NoRequest \in RequestType
    /\ \A r \in RequestType, u \in Users \cup {NoUser}, x \in Roles \cup {"none"} :
          /\ [r EXCEPT !.target = u] \in RequestType /\ [r EXCEPT !.target = u].actor = r.actor
          /\ [r EXCEPT !.seen = x] \in RequestType /\ [r EXCEPT !.seen = x].actor = r.actor
          /\ r.actor \in Users \cup {NoUser} /\ r.target \in Users \cup {NoUser}
          /\ r.newRole \in Roles \cup {"none"} /\ r.seen \in Roles \cup {"none"}
BY DEF NoRequest, RequestType

\* The two halves of TypeOK: the request slots and the tables.
SlotsOK ==
    /\ pc \in [Workers -> Statements \cup {"idle"}]
    /\ req \in [Workers -> RequestType]
    /\ \A w \in Workers : pc[w] # "idle" => req[w].actor \in Users
RowsOK ==
    /\ phase \in {"absent", "new", "live", "gone"}
    /\ owner \in Users \cup {NoUser}
    /\ count \in Nat
    /\ invited \in BOOLEAN
    /\ role \in [Users -> Roles \cup {"none"}]
    /\ older \in [Users -> SUBSET Users]
    /\ accounts \subseteq Users

LEMMA TypeHalves ==
    /\ TypeOK <=> SlotsOK /\ RowsOK
    /\ TypeOK' <=> SlotsOK' /\ RowsOK'
BY DEF TypeOK, SlotsOK, RowsOK

\* Moving a slot to another statement keeps the types of pc and req.
LEMMA KeepType ==
    ASSUME SlotsOK, NEW w \in Workers, NEW s \in Statements \cup {"idle"},
           NEW r \in RequestType, r.actor \in Users \/ s = "idle", Keep(w, s, r)
    PROVE  SlotsOK'
BY DEF SlotsOK, Keep

LEMMA GotoType ==
    ASSUME SlotsOK, NEW w \in Workers, pc[w] # "idle",
           NEW s \in Statements \cup {"idle"}, Goto(w, s)
    PROVE  SlotsOK'
BY DEF SlotsOK, Goto

LEMMA ReplyType ==
    ASSUME SlotsOK, NEW w \in Workers, Reply(w)
    PROVE  SlotsOK'
BY KeepType, RequestTypes DEF Reply

LEMMA ReadActorType ==
    ASSUME SlotsOK, role \in [Users -> Roles \cup {"none"}], NEW w \in Workers,
           pc[w] # "idle", NEW s \in Statements, ReadActor(w, s)
    PROVE  SlotsOK'
<1>1. req[w] \in RequestType /\ req[w].actor \in Users
  BY DEF SlotsOK
<1> DEFINE x == role[req[w].actor]
<1>2. x \in Roles \cup {"none"}
  BY <1>1
<1>3. CASE Reply(w)
  BY <1>3, ReplyType
<1>4. CASE Keep(w, s, [req[w] EXCEPT !.seen = x])
  <2>1. [req[w] EXCEPT !.seen = x] \in RequestType /\ [req[w] EXCEPT !.seen = x].actor \in Users
    BY <1>1, <1>2, RequestTypes
  <2>2. QED BY <1>4, <2>1, KeepType
<1>5. QED BY <1>3, <1>4 DEF ReadActor

LEMMA BeginType ==
    ASSUME TypeOK, NEW w \in Workers, NEW op \in Endpoints, NEW u \in Users,
           NEW t \in Users \cup {NoUser}, NEW r \in Roles \cup {"none"}, Begin(w, op, u, t, r)
    PROVE  TypeOK'
<1> DEFINE request == [NoRequest EXCEPT !.actor = u, !.target = t, !.newRole = r]
<1>1. request \in RequestType /\ request.actor = u
  BY DEF NoRequest, RequestType
<1>2. op \in Statements \cup {"idle"}
  BY DEF Statements
<1>3. Keep(w, op, request) /\ Unchanged
  BY DEF Begin
<1>4. SlotsOK'
  BY <1>1, <1>2, <1>3, KeepType, TypeHalves
<1>5. RowsOK'
  BY <1>3, TypeHalves DEF Unchanged, RowsOK, serverRow, memberRows
<1>6. QED BY <1>4, <1>5, TypeHalves

\* The statements on the two tables keep the types of their columns.
LEMMA RowTypes ==
    ASSUME TypeOK
    PROVE  /\ \A u \in Users \cup {NoUser}, r \in Roles : InsertMember(u, r) =>
                 role' \in [Users -> Roles \cup {"none"}] /\ older' \in [Users -> SUBSET Users]
           /\ \A S : DeleteMembers(S) =>
                 role' \in [Users -> Roles \cup {"none"}] /\ older' \in [Users -> SUBSET Users]
           /\ DropServer =>
                 /\ phase' = "gone" /\ owner' = NoUser /\ count' = 0 /\ invited' = FALSE
                 /\ role' \in [Users -> Roles \cup {"none"}] /\ older' \in [Users -> SUBSET Users]
           /\ CountDown \in Nat
BY DEF TypeOK, InsertMember, DeleteMembers, DropServer, CountDown, Members

LEMMA DropRows ==
    ASSUME RowsOK, DropServer, accounts' \subseteq accounts
    PROVE  RowsOK'
<1>1. invited' \in BOOLEAN
  BY Zenon DEF DropServer
<1>2. QED BY <1>1 DEF RowsOK, DropServer, DeleteMembers

LEMMA DeleteRows ==
    ASSUME RowsOK, UNCHANGED serverRow, accounts' \subseteq accounts,
           UNCHANGED memberRows \/ \E S : DeleteMembers(S)
    PROVE  RowsOK'
BY DEF RowsOK, DeleteMembers, serverRow, memberRows

\* Every statement keeps the types, whatever the other slots are doing.
LEMMA StepSlots ==
    ASSUME TypeOK, NEW w \in Workers, Step(w)
    PROVE  SlotsOK'
<1> SlotsOK
  BY TypeHalves
<1> role \in [Users -> Roles \cup {"none"}]
  BY DEF TypeOK
<1> pc[w] # "idle" => req[w] \in RequestType /\ req[w].actor \in Users
  BY DEF TypeOK
<1> USE GotoType, KeepType, ReplyType, RequestTypes DEF Statements, Endpoints
<1>1. CASE CreateServer(w)
  BY <1>1 DEF CreateServer
<1>2. CASE CreateMember(w)
  BY <1>2 DEF CreateMember
<1>3. CASE InviteRole(w)
  BY <1>3 DEF InviteRole
<1>4. CASE InviteUpdate(w)
  BY <1>4 DEF InviteUpdate
<1>5. CASE JoinServer(w)
  BY <1>5 DEF JoinServer
<1>6. CASE JoinExisting(w)
  BY <1>6 DEF JoinExisting
<1>7. CASE JoinInsert(w)
  BY <1>7 DEF JoinInsert
<1>8. CASE JoinCount(w)
  BY <1>8 DEF JoinCount, SetCount
<1>9. CASE LeaveDelete(w)
  BY <1>9 DEF LeaveDelete
<1>10. CASE LeaveCount(w)
  BY <1>10 DEF LeaveCount, SetCount
<1>11. CASE LeaveOldest(w)
  BY <1>11 DEF LeaveOldest
<1>12. CASE LeaveOwner(w)
  BY <1>12 DEF LeaveOwner
<1>13. CASE LeavePromote(w)
  BY <1>13 DEF LeavePromote, SetRole
<1>14. CASE LeaveDrop(w)
  BY <1>14 DEF LeaveDrop
<1>15. CASE KickActor(w)
  BY <1>15, ReadActorType DEF KickActor
<1>16. CASE KickTarget(w)
  BY <1>16 DEF KickTarget, CheckTarget
<1>17. CASE KickDelete(w)
  BY <1>17 DEF KickDelete
<1>18. CASE KickCount(w)
  BY <1>18 DEF KickCount, SetCount
<1>19. CASE RoleActor(w)
  BY <1>19, ReadActorType DEF RoleActor
<1>20. CASE RoleTarget(w)
  BY <1>20 DEF RoleTarget, CheckTarget
<1>21. CASE RoleUpdate(w)
  BY <1>21 DEF RoleUpdate, SetRole
<1>22. CASE DeleteServer(w)
  BY <1>22 DEF DeleteServer
<1>23. CASE DeleteAccount(w)
  BY <1>23 DEF DeleteAccount
<1>24. QED
  BY <1>1, <1>2, <1>3, <1>4, <1>5, <1>6, <1>7, <1>8, <1>9, <1>10, <1>11,
     <1>12, <1>13, <1>14, <1>15, <1>16, <1>17, <1>18, <1>19, <1>20, <1>21,
     <1>22, <1>23
  DEF Step

LEMMA StepRows ==
    ASSUME TypeOK, NEW w \in Workers, Step(w)
    PROVE  RowsOK'
<1> RowsOK /\ SlotsOK
  BY TypeHalves
<1> USE RequestTypes, RowTypes
    DEF RowsOK, SlotsOK, Roles, Unchanged, serverRow, memberRows
<1>1. CASE CreateServer(w)
  BY <1>1 DEF CreateServer
<1>2. CASE CreateMember(w)
  BY <1>2 DEF CreateMember
<1>3. CASE InviteRole(w)
  BY <1>3 DEF InviteRole
<1>4. CASE InviteUpdate(w)
  BY <1>4 DEF InviteUpdate
<1>5. CASE JoinServer(w)
  BY <1>5 DEF JoinServer
<1>6. CASE JoinExisting(w)
  BY <1>6 DEF JoinExisting
<1>7. CASE JoinInsert(w)
  BY <1>7 DEF JoinInsert
<1>8. CASE JoinCount(w)
  BY <1>8 DEF JoinCount, SetCount
<1>9. CASE LeaveDelete(w)
  BY <1>9 DEF LeaveDelete
<1>10. CASE LeaveCount(w)
  BY <1>10 DEF LeaveCount, SetCount
<1>11. CASE LeaveOldest(w)
  BY <1>11 DEF LeaveOldest
<1>12. CASE LeaveOwner(w)
  BY <1>12 DEF LeaveOwner
<1>13. CASE LeavePromote(w)
  BY <1>13 DEF LeavePromote, SetRole
<1>14. CASE LeaveDrop(w)
  BY <1>14 DEF LeaveDrop
<1>15. CASE KickActor(w)
  BY <1>15 DEF KickActor, ReadActor
<1>16. CASE KickTarget(w)
  BY <1>16 DEF KickTarget, CheckTarget
<1>17. CASE KickDelete(w)
  BY <1>17 DEF KickDelete
<1>18. CASE KickCount(w)
  BY <1>18 DEF KickCount, SetCount
<1>19. CASE RoleActor(w)
  BY <1>19 DEF RoleActor, ReadActor
<1>20. CASE RoleTarget(w)
  BY <1>20 DEF RoleTarget, CheckTarget
<1>21. CASE RoleUpdate(w)
  BY <1>21 DEF RoleUpdate, SetRole
<1>22. CASE DeleteServer(w)
  BY <1>22, DropRows, DeleteRows DEF DeleteServer
<1>23. CASE DeleteAccount(w)
  BY <1>23, DropRows, DeleteRows DEF DeleteAccount
<1>24. QED
  BY <1>1, <1>2, <1>3, <1>4, <1>5, <1>6, <1>7, <1>8, <1>9, <1>10, <1>11,
     <1>12, <1>13, <1>14, <1>15, <1>16, <1>17, <1>18, <1>19, <1>20, <1>21,
     <1>22, <1>23
  DEF Step

LEMMA StepType == ASSUME TypeOK, NEW w \in Workers, Step(w) PROVE TypeOK'
BY StepSlots, StepRows, TypeHalves

LEMMA StartType ==
    ASSUME TypeOK, NEW w \in Workers, Start(w)
    PROVE  TypeOK'
BY BeginType
   DEF Start, StartCreate, StartJoin, StartPlain, StartAccount, StartKick, StartRole,
       Endpoints

LEMMA StutterType == ASSUME TypeOK, UNCHANGED vars PROVE TypeOK'
BY DEF TypeOK, vars, serverRow, memberRows

LEMMA FaultType ==
    ASSUME TypeOK, NEW w \in Workers, Fault(w)
    PROVE  TypeOK'
BY ReplyType, TypeHalves DEF Fault, Unchanged, RowsOK, serverRow, memberRows

LEMMA InitType == Init => TypeOK
<1> SUFFICES ASSUME Init PROVE SlotsOK /\ RowsOK
  BY TypeHalves
<1>1. SlotsOK
  BY RequestTypes DEF Init, SlotsOK
<1>2. invited \in BOOLEAN
  BY Zenon DEF Init
<1>3. QED BY <1>1, <1>2 DEF Init, RowsOK

LEMMA NextType == TypeOK /\ [Next]_vars => TypeOK'
<1> SUFFICES ASSUME TypeOK, [Next]_vars PROVE TypeOK'
  OBVIOUS
<1>1. CASE UNCHANGED vars
  BY <1>1, StutterType
<1>2. ASSUME NEW w \in Workers, Start(w) \/ Step(w) \/ Fault(w) PROVE TypeOK'
  BY <1>2, StartType, StepType, FaultType
<1>3. QED BY <1>1, <1>2 DEF Next

\* Type correctness.
THEOREM TypeCorrect == Spec => []TypeOK
BY InitType, NextType, PTL DEF Spec

-----------------------------------------------------------------------------
(* The references of the tables.                                           *)

\* Before the creator's row is in, nobody else's request names the server.
Lifecycle ==
    /\ phase \in {"absent", "new"} =>
          \A w \in Workers : pc[w] \in {"idle", "create", "create_member", "account"}
    /\ phase = "new" => count = 1
    /\ \A v, w \in Workers : pc[w] = "create_member" =>
          phase \in {"new", "gone"} /\ (pc[v] = "create_member" => v = w)

\* The inductive invariant behind ReferentialIntegrity.
RefInv == TypeOK /\ Lifecycle /\ ReferentialIntegrity

KickStatements == {"kick", "kick_target", "kick_delete", "kick_count"}
RoleStatements == {"role", "role_target", "role_update"}

\* What a statement may do to the slots and the phase.
LEMMA PhaseMoves ==
    ASSUME TypeOK, NEW w \in Workers, Step(w)
    PROVE  /\ \A v \in Workers \ {w} : pc'[v] = pc[v]
           /\ pc[w] \notin {"create", "create_member"} => phase' \in {phase, "gone"}
           /\ pc[w] = "create" => \/ phase' = phase /\ pc'[w] = "idle" /\ count' = count
                                  \/ phase = "absent" /\ phase' = "new" /\ count' = 1 /\ pc'[w] = "create_member"
           /\ pc[w] = "create_member" => phase' \in {phase, "live"} /\ pc'[w] = "idle" /\ count' = count
           /\ pc'[w] = "create_member" => phase = "absent"
           /\ pc'[w] \in KickStatements => pc[w] \in KickStatements
           /\ pc'[w] \in RoleStatements => pc[w] \in RoleStatements
           /\ pc'[w] # "account"
           /\ pc[w] = "account" => pc'[w] = "idle" /\ (phase' # "gone" => count' = count)
<1> USE DEF TypeOK, Goto, Keep, Reply, Unchanged, serverRow, memberRows, DropServer,
         KickStatements, RoleStatements
<1>1. CASE CreateServer(w)
  BY <1>1 DEF CreateServer
<1>2. CASE CreateMember(w)
  BY <1>2 DEF CreateMember
<1>3. CASE InviteRole(w)
  BY <1>3 DEF InviteRole
<1>4. CASE InviteUpdate(w)
  BY <1>4 DEF InviteUpdate
<1>5. CASE JoinServer(w)
  BY <1>5 DEF JoinServer
<1>6. CASE JoinExisting(w)
  BY <1>6 DEF JoinExisting
<1>7. CASE JoinInsert(w)
  BY <1>7 DEF JoinInsert
<1>8. CASE JoinCount(w)
  BY <1>8 DEF JoinCount, SetCount
<1>9. CASE LeaveDelete(w)
  BY <1>9 DEF LeaveDelete
<1>10. CASE LeaveCount(w)
  BY <1>10 DEF LeaveCount, SetCount
<1>11. CASE LeaveOldest(w)
  BY <1>11 DEF LeaveOldest
<1>12. CASE LeaveOwner(w)
  BY <1>12 DEF LeaveOwner
<1>13. CASE LeavePromote(w)
  BY <1>13 DEF LeavePromote, SetRole
<1>14. CASE LeaveDrop(w)
  BY <1>14 DEF LeaveDrop
<1>15. CASE KickActor(w)
  BY <1>15 DEF KickActor, ReadActor
<1>16. CASE KickTarget(w)
  BY <1>16 DEF KickTarget, CheckTarget
<1>17. CASE KickDelete(w)
  BY <1>17 DEF KickDelete
<1>18. CASE KickCount(w)
  BY <1>18 DEF KickCount, SetCount
<1>19. CASE RoleActor(w)
  BY <1>19 DEF RoleActor, ReadActor
<1>20. CASE RoleTarget(w)
  BY <1>20 DEF RoleTarget, CheckTarget
<1>21. CASE RoleUpdate(w)
  BY <1>21 DEF RoleUpdate, SetRole
<1>22. CASE DeleteServer(w)
  BY <1>22 DEF DeleteServer
<1>23. CASE DeleteAccount(w)
  BY <1>23 DEF DeleteAccount
<1>24. QED
  BY <1>1, <1>2, <1>3, <1>4, <1>5, <1>6, <1>7, <1>8, <1>9, <1>10, <1>11,
     <1>12, <1>13, <1>14, <1>15, <1>16, <1>17, <1>18, <1>19, <1>20, <1>21,
     <1>22, <1>23
  DEF Step

LEMMA LifecycleStep ==
    ASSUME TypeOK, Lifecycle, NEW w \in Workers, Step(w)
    PROVE  Lifecycle'
<1>1. pc[w] # "idle"
  BY DEF Step, CreateServer, CreateMember, InviteRole, InviteUpdate, JoinServer,
     JoinExisting, JoinInsert, JoinCount, LeaveDelete, LeaveCount, LeaveOldest,
     LeaveOwner, LeavePromote, LeaveDrop, KickActor, KickTarget, KickDelete, KickCount,
     RoleActor, RoleTarget, RoleUpdate, DeleteServer, DeleteAccount
<1>2. CASE pc[w] \in {"create", "create_member", "account"}
  BY <1>2, PhaseMoves DEF Lifecycle, TypeOK
<1>3. CASE pc[w] \notin {"create", "create_member", "account"}
  BY <1>1, <1>3, PhaseMoves DEF Lifecycle, TypeOK
<1>4. QED BY <1>2, <1>3

LEMMA ReferenceStep ==
    ASSUME RefInv, NEW w \in Workers, Step(w)
    PROVE  ReferentialIntegrity'
<1> pc[w] # "idle" => req[w].actor \in Users
  BY DEF RefInv, TypeOK
<1> USE DEF RefInv, TypeOK, Lifecycle, ReferentialIntegrity, Members, Roles, Unchanged,
         serverRow, memberRows
<1>1. CASE CreateServer(w)
  BY <1>1 DEF CreateServer
<1>2. CASE CreateMember(w)
  BY <1>2 DEF CreateMember, CanInsert, InsertMember
<1>3. CASE InviteRole(w)
  BY <1>3 DEF InviteRole
<1>4. CASE InviteUpdate(w)
  BY <1>4 DEF InviteUpdate
<1>5. CASE JoinServer(w)
  BY <1>5 DEF JoinServer
<1>6. CASE JoinExisting(w)
  BY <1>6 DEF JoinExisting
<1>7. CASE JoinInsert(w)
  BY <1>7 DEF JoinInsert, CanInsert, InsertMember
<1>8. CASE JoinCount(w)
  BY <1>8 DEF JoinCount, SetCount
<1>9. CASE LeaveDelete(w)
  BY <1>9 DEF LeaveDelete, DeleteMembers
<1>10. CASE LeaveCount(w)
  BY <1>10 DEF LeaveCount, SetCount
<1>11. CASE LeaveOldest(w)
  BY <1>11 DEF LeaveOldest
<1>12. CASE LeaveOwner(w)
  BY <1>12 DEF LeaveOwner
<1>13. CASE LeavePromote(w)
  BY <1>13 DEF LeavePromote, SetRole
<1>14. CASE LeaveDrop(w)
  BY <1>14 DEF LeaveDrop, DropServer, DeleteMembers
<1>15. CASE KickActor(w)
  BY <1>15 DEF KickActor, ReadActor
<1>16. CASE KickTarget(w)
  BY <1>16 DEF KickTarget, CheckTarget
<1>17. CASE KickDelete(w)
  BY <1>17 DEF KickDelete, DeleteMembers
<1>18. CASE KickCount(w)
  BY <1>18 DEF KickCount, SetCount
<1>19. CASE RoleActor(w)
  BY <1>19 DEF RoleActor, ReadActor
<1>20. CASE RoleTarget(w)
  BY <1>20 DEF RoleTarget, CheckTarget
<1>21. CASE RoleUpdate(w)
  BY <1>21 DEF RoleUpdate, SetRole
<1>22. CASE DeleteServer(w)
  BY <1>22 DEF DeleteServer, DropServer, DeleteMembers
<1>23. CASE DeleteAccount(w)
  BY <1>23 DEF DeleteAccount, DeleteMembers, DropServer
<1>24. QED
  BY <1>1, <1>2, <1>3, <1>4, <1>5, <1>6, <1>7, <1>8, <1>9, <1>10, <1>11,
     <1>12, <1>13, <1>14, <1>15, <1>16, <1>17, <1>18, <1>19, <1>20, <1>21,
     <1>22, <1>23
  DEF Step

\* A request that starts, or fails, leaves the tables alone.
LEMMA SlotMoves ==
    ASSUME TypeOK, NEW w \in Workers, Start(w) \/ Fault(w)
    PROVE  /\ UNCHANGED <<serverRow, memberRows, accounts>>
           /\ \E s \in Endpoints \cup {"idle"} :
                 /\ pc' = [pc EXCEPT ![w] = s]
                 /\ phase \in {"absent", "new"} => s \in {"idle", "create", "account"}
                 /\ s = "idle" => pc[w] \in FaultPoints
                 /\ s # "idle" => pc[w] = "idle" /\ s \in Ops
<1>1. CASE Start(w)
  BY <1>1 DEF Start, StartCreate, StartJoin, StartPlain, StartAccount, StartKick,
     StartRole, Known, Begin, Keep, Unchanged, Endpoints, TypeOK
<1>2. CASE Fault(w)
  BY <1>2 DEF Fault, Reply, Keep, Unchanged
<1>3. QED BY <1>1, <1>2

LEMMA RefInit == Init => RefInv
BY InitType DEF Init, RefInv, Lifecycle, ReferentialIntegrity, Members

LEMMA RefNext == RefInv /\ [Next]_vars => RefInv'
<1> SUFFICES ASSUME RefInv, [Next]_vars PROVE Lifecycle' /\ ReferentialIntegrity'
  BY NextType DEF RefInv
<1>1. CASE UNCHANGED vars
  BY <1>1 DEF RefInv, Lifecycle, ReferentialIntegrity, Members, vars, serverRow, memberRows
<1>2. ASSUME NEW w \in Workers, Step(w) PROVE Lifecycle' /\ ReferentialIntegrity'
  BY <1>2, LifecycleStep, ReferenceStep DEF RefInv
<1>3. ASSUME NEW w \in Workers, Start(w) \/ Fault(w)
      PROVE  Lifecycle' /\ ReferentialIntegrity'
  <2>1. ReferentialIntegrity'
    BY <1>3, SlotMoves DEF RefInv, ReferentialIntegrity, Members, serverRow, memberRows
  <2>2. Lifecycle'
    <3>1. PICK s \in Endpoints \cup {"idle"} :
             /\ pc' = [pc EXCEPT ![w] = s]
             /\ phase \in {"absent", "new"} => s \in {"idle", "create", "account"}
      BY <1>3, SlotMoves DEF RefInv
    <3>2. phase' = phase /\ count' = count
      BY <1>3, SlotMoves DEF RefInv, serverRow
    <3>3. \A v \in Workers : pc'[v] = "create_member" => pc[v] = "create_member"
      BY <3>1 DEF Endpoints, RefInv, TypeOK
    <3>4. QED BY <3>1, <3>2, <3>3 DEF RefInv, TypeOK, Lifecycle
  <2>3. QED BY <2>1, <2>2
<1>4. QED BY <1>1, <1>2, <1>3 DEF Next

\* The references of the database hold in every state.
THEOREM References == Spec => []ReferentialIntegrity
<1>1. Init => RefInv
  BY RefInit
<1>2. RefInv => ReferentialIntegrity
  BY DEF RefInv
<1>3. QED BY <1>1, <1>2, RefNext, PTL DEF Spec

-----------------------------------------------------------------------------
(* The cap.                                                                *)

Counted == {"join_existing", "join_insert", "join_count", "leave_count"}

\* No handler is inside kick: what "kick" \notin Ops says of the slots.
NoKicks == \A w \in Workers : pc[w] \notin KickStatements

\* The inductive invariant behind Ledger and CapOvershoot.
CapInv == RefInv /\ NoKicks /\ Ledger /\ CapOvershoot

LEMMA OneMoreOrLess ==
    ASSUME NEW S, IsFiniteSet(S), NEW x
    PROVE  /\ Cardinality(S) \in Nat
           /\ IsFiniteSet(S \ {x}) /\ IsFiniteSet(S \cup {x})
           /\ Cardinality(S \ {x}) = IF x \in S THEN Cardinality(S) - 1 ELSE Cardinality(S)
           /\ Cardinality(S \cup {x}) = IF x \in S THEN Cardinality(S) ELSE Cardinality(S) + 1
BY FS_CardinalityType, FS_AddElement, FS_RemoveElement

LEMMA Finiteness ==
    /\ IsFiniteSet(Members) /\ Cardinality(Members) \in Nat
    /\ IsFiniteSet(Admitted) /\ Cardinality(Admitted) \in Nat
    /\ IsFiniteSet(Joining) /\ Cardinality(Joining) \in Nat
    /\ IsFiniteSet(Leaving) /\ Cardinality(Leaving) \in Nat
    /\ Cardinality(Workers) \in Nat
<1>1. /\ Members \subseteq Users /\ Admitted \subseteq Workers
      /\ Joining \subseteq Workers /\ Leaving \subseteq Workers
  BY DEF Members, Admitted, Joining, Leaving
<1>2. QED BY <1>1, FS_Subset, FS_CardinalityType DEF MembershipAssumption

\* Set S after x joins it (in) or leaves it (~in), having been a member (was).
After(n, was, in) ==
    IF in THEN IF was THEN n ELSE n + 1 ELSE IF was THEN n - 1 ELSE n
AdmittedAt(s) == s \in {"join_existing", "join_insert"}

\* The slots counted at a set of statements, before and after one slot moves.
LEMMA CountMoves ==
    ASSUME TypeOK, NEW w \in Workers, NEW s, pc' = [pc EXCEPT ![w] = s]
    PROVE  /\ Cardinality(Joining') =
                 After(Cardinality(Joining), pc[w] = "join_count", s = "join_count")
           /\ Cardinality(Leaving') =
                 After(Cardinality(Leaving), pc[w] = "leave_count", s = "leave_count")
           /\ Cardinality(Admitted') =
                 After(Cardinality(Admitted), AdmittedAt(pc[w]), AdmittedAt(s))
<1>1. /\ Joining' = IF s = "join_count" THEN Joining \cup {w} ELSE Joining \ {w}
      /\ w \in Joining <=> pc[w] = "join_count"
  BY DEF Joining, TypeOK
<1>2. /\ Leaving' = IF s = "leave_count" THEN Leaving \cup {w} ELSE Leaving \ {w}
      /\ w \in Leaving <=> pc[w] = "leave_count"
  BY DEF Leaving, TypeOK
<1>3. /\ Admitted' = IF AdmittedAt(s) THEN Admitted \cup {w} ELSE Admitted \ {w}
      /\ w \in Admitted <=> AdmittedAt(pc[w])
  BY DEF Admitted, AdmittedAt, TypeOK
<1>4. Cardinality(Joining') =
        After(Cardinality(Joining), pc[w] = "join_count", s = "join_count")
  BY <1>1, Finiteness, OneMoreOrLess DEF After
<1>5. Cardinality(Leaving') =
        After(Cardinality(Leaving), pc[w] = "leave_count", s = "leave_count")
  BY <1>2, Finiteness, OneMoreOrLess DEF After
<1>6. Cardinality(Admitted') =
        After(Cardinality(Admitted), AdmittedAt(pc[w]), AdmittedAt(s))
  BY <1>3, Finiteness, OneMoreOrLess DEF After, AdmittedAt
<1>7. QED BY <1>4, <1>5, <1>6

\* A slot that is not between the two statements of a join moves to one where
\* nothing is pending, no member is added and the count stays.
LEMMA Harmless ==
    ASSUME TypeOK, Ledger, CapOvershoot, NEW w \in Workers, NEW s,
           s \notin Counted, pc[w] # "join_count", pc' = [pc EXCEPT ![w] = s],
           Members' \subseteq Members, count' = count, phase' = phase
    PROVE  Ledger' /\ CapOvershoot'
<1>1. Cardinality(Members') <= Cardinality(Members) /\ Cardinality(Members') \in Nat
  BY Finiteness, FS_Subset, FS_CardinalityType
<1>2. Cardinality(Joining') = Cardinality(Joining)
  BY CountMoves DEF Counted, After
<1>3. Cardinality(Leaving') \in {Cardinality(Leaving), Cardinality(Leaving) - 1}
  BY CountMoves DEF Counted, After
<1>4. Cardinality(Admitted') \in {Cardinality(Admitted), Cardinality(Admitted) - 1}
  BY CountMoves DEF Counted, After, AdmittedAt
<1>5. QED
  BY <1>1, <1>2, <1>3, <1>4, Finiteness
  DEF Ledger, CapOvershoot, TypeOK, MembershipAssumption

\* Without members, in no live server, nothing exceeds anything.
LEMMA NoMembers ==
    ASSUME Members' = {}, phase' # "live"
    PROVE  Ledger' /\ CapOvershoot'
<1>1. Admitted' \subseteq Workers
  BY DEF Admitted
<1>2. Cardinality(Admitted') <= Cardinality(Workers) /\ Cardinality(Admitted') \in Nat
  BY <1>1, FS_Subset, FS_CardinalityType DEF MembershipAssumption
<1>3. Cardinality(Members') = 0
  BY FS_EmptySet
<1>4. QED BY <1>2, <1>3, Finiteness DEF Ledger, CapOvershoot, MembershipAssumption

\* The creator's row: the first member, before any join or leave.
LEMMA FirstMember ==
    ASSUME CapInv, NEW w \in Workers, CreateMember(w), CanInsert(req[w].actor)
    PROVE  Ledger' /\ CapOvershoot'
<1>1. phase = "new" /\ Members = {} /\ count' = 1
  BY DEF CapInv, RefInv, Lifecycle, ReferentialIntegrity, CreateMember, CanInsert
<1>2. Members' \subseteq {req[w].actor}
  BY <1>1 DEF CreateMember, InsertMember, Members, CapInv, RefInv, TypeOK
<1>3. Leaving' = {} /\ Joining' = {} /\ Admitted' = {}
  BY <1>1 DEF CreateMember, Reply, Keep, CapInv, RefInv, TypeOK, Lifecycle, Leaving, Joining, Admitted
<1>4. Cardinality(Members') \in {0, 1}
  <2>1. IsFiniteSet({req[w].actor}) /\ Cardinality({req[w].actor}) = 1
    BY FS_Singleton
  <2>2. Cardinality(Members') <= 1 /\ IsFiniteSet(Members')
    BY <1>2, <2>1, FS_Subset
  <2>3. QED BY <2>2, FS_CardinalityType
<1>5. Cardinality({}) = 0 /\ Cardinality(Workers) # 0
  BY FS_EmptySet DEF MembershipAssumption
<1>6. QED
  BY <1>1, <1>3, <1>4, <1>5, Finiteness DEF Ledger, CapOvershoot, MembershipAssumption

\* A join that found room: the slots that may still add a member, together
\* with the one admitted now, are different slots.
LEMMA Admission ==
    ASSUME CapInv, NEW w \in Workers, pc[w] = "join", phase = "live", HasRoom,
           Goto(w, "join_existing"), Unchanged
    PROVE  Ledger' /\ CapOvershoot'
<1>1. pc' = [pc EXCEPT ![w] = "join_existing"] /\ TypeOK
  BY DEF Goto, CapInv, RefInv
<1>2. /\ Cardinality(Joining') = Cardinality(Joining)
      /\ Cardinality(Leaving') = Cardinality(Leaving)
      /\ Cardinality(Admitted') = Cardinality(Admitted) + 1
  BY <1>1, CountMoves, Finiteness DEF After, AdmittedAt
<1>3. Members' = Members /\ count' = count /\ phase' = phase
  BY DEF Unchanged, memberRows, serverRow, Members
<1>4. Cardinality(Admitted) + Cardinality(Joining) + 1 <= Cardinality(Workers)
  <2>1. w \notin Admitted /\ w \notin Joining /\ Admitted \cap Joining = {}
    BY DEF Admitted, Joining
  <2>2. Cardinality(Admitted \cup Joining) = Cardinality(Admitted) + Cardinality(Joining)
    <3>1. Cardinality(Admitted \cup Joining)
            = Cardinality(Admitted) + Cardinality(Joining) - Cardinality(Admitted \cap Joining)
      BY Finiteness, FS_Union
    <3>2. Cardinality(Admitted \cap Joining) = 0
      BY <2>1, FS_EmptySet
    <3>3. QED BY <3>1, <3>2, Finiteness
  <2>3. IsFiniteSet(Admitted \cup Joining)
    BY Finiteness, FS_Union
  <2>4. Cardinality((Admitted \cup Joining) \cup {w})
          = Cardinality(Admitted \cup Joining) + 1
    BY <2>1, <2>3, OneMoreOrLess
  <2>5. (Admitted \cup Joining) \cup {w} \subseteq Workers
    BY DEF Admitted, Joining
  <2>6. Cardinality((Admitted \cup Joining) \cup {w}) <= Cardinality(Workers)
    BY <2>5, FS_Subset DEF MembershipAssumption
  <2>7. QED BY <2>2, <2>4, <2>6
<1>5. Cardinality(Members) + Cardinality(Leaving) <= count + Cardinality(Joining)
  BY DEF CapInv, Ledger
<1>6. QED
  BY <1>2, <1>3, <1>4, <1>5, Finiteness
  DEF Ledger, CapOvershoot, HasRoom, CapInv, RefInv, TypeOK, MembershipAssumption

LEMMA JoinInserted ==
    ASSUME CapInv, NEW w \in Workers, pc[w] = "join_insert", CanInsert(req[w].actor),
           InsertMember(req[w].actor, "member"), Goto(w, "join_count"), UNCHANGED serverRow
    PROVE  Ledger' /\ CapOvershoot'
<1>1. pc' = [pc EXCEPT ![w] = "join_count"] /\ TypeOK
  BY DEF Goto, CapInv, RefInv
<1>2. /\ Cardinality(Joining') = Cardinality(Joining) + 1
      /\ Cardinality(Leaving') = Cardinality(Leaving)
      /\ Cardinality(Admitted') = Cardinality(Admitted) - 1
  BY <1>1, CountMoves, Finiteness DEF After, AdmittedAt
<1>3. Members' \subseteq Members \cup {req[w].actor}
  BY <1>1 DEF InsertMember, Members, TypeOK
<1>4. /\ IsFiniteSet(Members \cup {req[w].actor})
      /\ Cardinality(Members \cup {req[w].actor}) <= Cardinality(Members) + 1
      /\ Cardinality(Members \cup {req[w].actor}) \in Nat
  <2> DEFINE u == req[w].actor
  <2>1. /\ IsFiniteSet(Members \cup {u})
        /\ Cardinality(Members \cup {u}) \in {Cardinality(Members), Cardinality(Members) + 1}
    BY Finiteness, OneMoreOrLess
  <2>2. QED BY <2>1, Finiteness
<1>5. Cardinality(Members') <= Cardinality(Members) + 1 /\ Cardinality(Members') \in Nat
  BY <1>3, <1>4, Finiteness, FS_Subset, FS_CardinalityType
<1>6. QED
  BY <1>1, <1>2, <1>5, Finiteness
  DEF Ledger, CapOvershoot, CapInv, RefInv, TypeOK, serverRow, MembershipAssumption

LEMMA JoinCounted ==
    ASSUME CapInv, NEW w \in Workers, JoinCount(w)
    PROVE  Ledger' /\ CapOvershoot'
<1>1. pc' = [pc EXCEPT ![w] = "idle"] /\ pc[w] = "join_count" /\ TypeOK
  BY DEF JoinCount, Reply, Keep, CapInv, RefInv
<1>2. /\ Cardinality(Joining') = Cardinality(Joining) - 1
      /\ Cardinality(Leaving') = Cardinality(Leaving)
      /\ Cardinality(Admitted') = Cardinality(Admitted)
  <2>1. /\ Cardinality(Joining') =
             After(Cardinality(Joining), pc[w] = "join_count", "idle" = "join_count")
        /\ Cardinality(Leaving') =
             After(Cardinality(Leaving), pc[w] = "leave_count", "idle" = "leave_count")
        /\ Cardinality(Admitted') =
             After(Cardinality(Admitted), AdmittedAt(pc[w]), AdmittedAt("idle"))
    BY <1>1, CountMoves
  <2>2. QED BY <1>1, <2>1 DEF After, AdmittedAt
<1>3. Members' = Members
  BY DEF JoinCount, memberRows, Members
<1>4. QED
  BY <1>1, <1>2, <1>3, Finiteness
  DEF JoinCount, SetCount, Ledger, CapOvershoot, CapInv, TypeOK, MembershipAssumption

\* A leave: its row goes first, its UPDATE is pending until the next statement.
LEMMA LeaveStarted ==
    ASSUME CapInv, NEW w \in Workers, pc[w] = "leave", req[w].actor \in Members,
           DeleteMembers({req[w].actor}), Goto(w, "leave_count"), UNCHANGED serverRow
    PROVE  Ledger' /\ CapOvershoot'
<1>1. pc' = [pc EXCEPT ![w] = "leave_count"] /\ TypeOK
  BY DEF Goto, CapInv, RefInv
<1>2. /\ Cardinality(Joining') = Cardinality(Joining)
      /\ Cardinality(Leaving') = Cardinality(Leaving) + 1
      /\ Cardinality(Admitted') = Cardinality(Admitted)
  BY <1>1, CountMoves, Finiteness DEF After, AdmittedAt
<1>3. Members' = Members \ {req[w].actor}
  BY DEF DeleteMembers, Members
<1>4. Cardinality(Members') = Cardinality(Members) - 1
  BY <1>3, Finiteness, OneMoreOrLess
<1>5. QED
  BY <1>1, <1>2, <1>4, Finiteness
  DEF Ledger, CapOvershoot, CapInv, TypeOK, serverRow, MembershipAssumption

\* The floor GREATEST(0, ...) only helps: at 0 there is nothing to count down.
LEMMA LeaveCounted ==
    ASSUME CapInv, NEW w \in Workers, LeaveCount(w)
    PROVE  Ledger' /\ CapOvershoot'
<1>1. pc' = [pc EXCEPT ![w] = "leave_oldest"] /\ pc[w] = "leave_count" /\ TypeOK
  BY DEF LeaveCount, Goto, CapInv, RefInv
<1>2. /\ Cardinality(Joining') = Cardinality(Joining)
      /\ Cardinality(Leaving') = Cardinality(Leaving) - 1
      /\ Cardinality(Admitted') = Cardinality(Admitted)
  <2>1. /\ Cardinality(Joining') =
             After(Cardinality(Joining), pc[w] = "join_count", "leave_oldest" = "join_count")
        /\ Cardinality(Leaving') =
             After(Cardinality(Leaving), pc[w] = "leave_count", "leave_oldest" = "leave_count")
        /\ Cardinality(Admitted') =
             After(Cardinality(Admitted), AdmittedAt(pc[w]), AdmittedAt("leave_oldest"))
    BY <1>1, CountMoves
  <2>2. QED BY <1>1, <2>1 DEF After, AdmittedAt
<1>3. Members' = Members
  BY DEF LeaveCount, memberRows, Members
<1>4. QED
  BY <1>1, <1>2, <1>3, Finiteness
  DEF LeaveCount, SetCount, CountDown, Ledger, CapOvershoot, CapInv, TypeOK, MembershipAssumption

LEMMA CapStep ==
    ASSUME CapInv, NEW w \in Workers, Step(w)
    PROVE  Ledger' /\ CapOvershoot'
<1>a. TypeOK /\ Ledger /\ CapOvershoot
  BY DEF CapInv, RefInv
<1>b. ASSUME NEW s, s \notin Counted, pc[w] # "join_count", pc' = [pc EXCEPT ![w] = s],
             Members' \subseteq Members, count' = count, phase' = phase
      PROVE  Ledger' /\ CapOvershoot'
  BY <1>a, <1>b, Harmless
<1>c. role' = role => Members' = Members
  BY DEF Members
<1>d. \A S : DeleteMembers(S) => Members' = Members \ S
  BY DEF DeleteMembers, Members
<1>e. DropServer => Members' = {} /\ phase' = "gone"
  BY DEF DropServer, DeleteMembers, Members
<1> USE DEF serverRow, memberRows
<1>1. CASE CreateServer(w)
  <2>1. CASE phase' = phase
    BY <1>1, <2>1, <1>b, <1>c DEF CreateServer, Reply, Keep, Unchanged, Counted
  <2>2. CASE phase' # phase
    BY <1>1, <2>2, <1>c, NoMembers
    DEF CreateServer, Unchanged, CapInv, RefInv, ReferentialIntegrity
  <2>3. QED BY <2>1, <2>2
<1>2. CASE CreateMember(w)
  BY <1>2, FirstMember, <1>b, <1>c DEF CreateMember, Reply, Keep, Unchanged, Counted
<1>3. CASE InviteRole(w)
  BY <1>3, <1>b, <1>c DEF InviteRole, Goto, Reply, Keep, Unchanged, Counted
<1>4. CASE InviteUpdate(w)
  BY <1>4, <1>b, <1>c DEF InviteUpdate, Reply, Keep, Counted
<1>5. CASE JoinServer(w)
  <2>1. CASE phase = "live" /\ invited /\ HasRoom /\ Goto(w, "join_existing")
    BY <1>5, <2>1, Admission DEF JoinServer
  <2>2. CASE Reply(w)
    BY <1>5, <2>2, <1>b, <1>c DEF JoinServer, Reply, Keep, Unchanged, Counted
  <2>3. QED BY <1>5, <2>1, <2>2 DEF JoinServer
<1>6. CASE JoinExisting(w)
  <2>1. CASE Reply(w)
    BY <1>6, <2>1, <1>b, <1>c DEF JoinExisting, Reply, Keep, Unchanged, Counted
  <2>2. CASE Goto(w, "join_insert")
    <3>1. pc' = [pc EXCEPT ![w] = "join_insert"] /\ pc[w] = "join_existing"
      BY <1>6, <2>2 DEF JoinExisting, Goto
    <3>2. /\ Cardinality(Joining') = Cardinality(Joining)
          /\ Cardinality(Leaving') = Cardinality(Leaving)
          /\ Cardinality(Admitted') = Cardinality(Admitted)
      BY <1>a, <3>1, CountMoves DEF After, AdmittedAt
    <3>3. Members' = Members /\ count' = count /\ phase' = phase
      BY <1>6, <1>c DEF JoinExisting, Unchanged
    <3>4. QED BY <1>a, <3>2, <3>3 DEF Ledger, CapOvershoot
  <2>3. QED BY <1>6, <2>1, <2>2 DEF JoinExisting
<1>7. CASE JoinInsert(w)
  BY <1>7, JoinInserted, <1>b, <1>c DEF JoinInsert, Reply, Keep, Unchanged, Counted
<1>8. CASE JoinCount(w)
  BY <1>8, JoinCounted
<1>9. CASE LeaveDelete(w)
  BY <1>9, LeaveStarted, <1>b, <1>c DEF LeaveDelete, Reply, Keep, Unchanged, Counted
<1>10. CASE LeaveCount(w)
  BY <1>10, LeaveCounted
<1>11. CASE LeaveOldest(w)
  BY <1>11, <1>b, <1>c DEF LeaveOldest, Goto, Keep, Unchanged, Counted
<1>12. CASE LeaveOwner(w)
  BY <1>12, <1>b, <1>c DEF LeaveOwner, Goto, Reply, Keep, Unchanged, Counted
<1>13. CASE LeavePromote(w)
  <2>1. Members' \subseteq Members
    BY <1>13, <1>a DEF LeavePromote, SetRole, Members, TypeOK
  <2>2. QED BY <1>13, <2>1, <1>b DEF LeavePromote, SetRole, Reply, Keep, Counted
<1>14. CASE LeaveDrop(w)
  BY <1>14, <1>e, NoMembers DEF LeaveDrop
<1>15. CASE KickActor(w)
  BY <1>15 DEF KickActor, CapInv, NoKicks, KickStatements
<1>16. CASE KickTarget(w)
  BY <1>16 DEF KickTarget, CapInv, NoKicks, KickStatements
<1>17. CASE KickDelete(w)
  BY <1>17 DEF KickDelete, CapInv, NoKicks, KickStatements
<1>18. CASE KickCount(w)
  BY <1>18 DEF KickCount, CapInv, NoKicks, KickStatements
<1>19. CASE RoleActor(w)
  BY <1>19, <1>b, <1>c DEF RoleActor, ReadActor, Reply, Keep, Unchanged, Counted
<1>20. CASE RoleTarget(w)
  BY <1>20, <1>b, <1>c DEF RoleTarget, CheckTarget, Goto, Reply, Keep, Unchanged, Counted
<1>21. CASE RoleUpdate(w)
  <2>1. Members' \subseteq Members
    BY <1>21, <1>a DEF RoleUpdate, SetRole, Members, TypeOK
  <2>2. QED BY <1>21, <2>1, <1>b DEF RoleUpdate, SetRole, Reply, Keep, Counted
<1>22. CASE DeleteServer(w)
  <2>1. CASE DropServer
    BY <2>1, <1>e, NoMembers
  <2>2. CASE UNCHANGED <<serverRow, memberRows>>
    BY <1>22, <2>2, <1>b, <1>c DEF DeleteServer, Reply, Keep, Counted
  <2>3. QED BY <1>22, <2>1, <2>2 DEF DeleteServer
<1>23. CASE DeleteAccount(w)
  <2>1. CASE DropServer
    BY <2>1, <1>e, NoMembers
  <2>2. CASE DeleteMembers({req[w].actor}) /\ UNCHANGED serverRow
    BY <1>23, <2>2, <1>b, <1>d DEF DeleteAccount, Reply, Keep, Counted
  <2>3. QED BY <1>23, <2>1, <2>2 DEF DeleteAccount
<1>24. QED
  BY <1>1, <1>2, <1>3, <1>4, <1>5, <1>6, <1>7, <1>8, <1>9, <1>10, <1>11, <1>12, <1>13,
     <1>14, <1>15, <1>16, <1>17, <1>18, <1>19, <1>20, <1>21, <1>22, <1>23
  DEF Step

LEMMA CapSlot ==
    ASSUME CapInv, NEW w \in Workers, Start(w) \/ Fault(w), "join_count" \notin FaultPoints
    PROVE  Ledger' /\ CapOvershoot'
<1>1. TypeOK /\ Ledger /\ CapOvershoot
  BY DEF CapInv, RefInv
<1>2. PICK s \in Endpoints \cup {"idle"} :
        /\ pc' = [pc EXCEPT ![w] = s]
        /\ s = "idle" => pc[w] \in FaultPoints
        /\ s # "idle" => pc[w] = "idle"
  BY <1>1, SlotMoves
<1>3. Members' = Members /\ count' = count /\ phase' = phase
  BY <1>1, SlotMoves DEF serverRow, memberRows, Members
<1>4. s \notin Counted /\ pc[w] # "join_count"
  BY <1>2 DEF Counted, Endpoints
<1>5. QED BY <1>1, <1>2, <1>3, <1>4, Harmless

\* If no client kicks and no join stops between its INSERT and its UPDATE,
\* member_count never understates the members, and the cap is missed by at
\* most one member for each other request in progress: with one request at a
\* time it is exact.
THEOREM CapBound ==
    ASSUME "kick" \notin Ops, "join_count" \notin FaultPoints
    PROVE  Spec => [](Ledger /\ CapOvershoot)
<1>1. Init => CapInv
  <2> SUFFICES ASSUME Init PROVE CapInv
    OBVIOUS
  <2>1. RefInv
    BY RefInit
  <2>2. Members = {} /\ phase # "live"
    BY DEF Init, Members
  <2>3. Admitted = {} /\ NoKicks
    BY DEF Init, Admitted, NoKicks, KickStatements
  <2>4. Cardinality({}) = 0 /\ Cardinality(Workers) # 0
    BY FS_EmptySet DEF MembershipAssumption
  <2>5. QED
    BY <2>1, <2>2, <2>3, <2>4, Finiteness DEF CapInv, Ledger, CapOvershoot, MembershipAssumption
<1>2. CapInv /\ [Next]_vars => CapInv'
  <2> SUFFICES ASSUME CapInv, [Next]_vars PROVE NoKicks' /\ Ledger' /\ CapOvershoot'
    BY RefNext DEF CapInv
  <2>1. CASE UNCHANGED vars
    BY <2>1 DEF vars, serverRow, memberRows, CapInv, NoKicks, Ledger, CapOvershoot, Members,
       Admitted, Joining, Leaving
  <2>2. ASSUME NEW w \in Workers, Step(w) PROVE NoKicks' /\ Ledger' /\ CapOvershoot'
    <3>1. NoKicks'
      BY <2>2, PhaseMoves DEF CapInv, RefInv, NoKicks
    <3>2. QED BY <2>2, <3>1, CapStep
  <2>3. ASSUME NEW w \in Workers, Start(w) \/ Fault(w)
        PROVE  NoKicks' /\ Ledger' /\ CapOvershoot'
    <3>1. NoKicks'
      <4>1. PICK s \in Endpoints \cup {"idle"} :
              pc' = [pc EXCEPT ![w] = s] /\ (s # "idle" => s \in Ops)
        BY <2>3, SlotMoves DEF CapInv, RefInv
      <4>2. s \notin KickStatements
        BY <4>1 DEF KickStatements, Endpoints
      <4>3. QED BY <4>1, <4>2 DEF CapInv, RefInv, NoKicks, TypeOK
    <3>2. QED BY <2>3, <3>1, CapSlot
  <2>4. QED BY <2>1, <2>2, <2>3 DEF Next
<1>3. CapInv => Ledger /\ CapOvershoot
  BY DEF CapInv
<1>4. QED BY <1>1, <1>2, <1>3, PTL DEF Spec

\* However joins and leaves overlap, member_count never understates the
\* members, once the updates still to come are added to it.
THEOREM CountCoversMembers ==
    ASSUME "kick" \notin Ops, "join_count" \notin FaultPoints
    PROVE  Spec => []Ledger
BY CapBound, PTL

\* The cap itself, when requests come one at a time.
THEOREM SerialCap ==
    ASSUME "kick" \notin Ops, "join_count" \notin FaultPoints, Cardinality(Workers) = 1
    PROVE  Spec => []CapRespected
<1>1. CapOvershoot => CapRespected
  BY Finiteness DEF CapOvershoot, CapRespected, MembershipAssumption
<1>2. QED BY <1>1, CapBound, PTL

-----------------------------------------------------------------------------
(* Succession.                                                             *)

\* A leave that has still to read its successor, or to find that none is left.
Looking == {"leave_count", "leave_oldest", "leave_drop"}
LeaveSteps == Looking \cup {"leave_owner", "leave_promote"}

\* The leave in slot w will promote m, or read whom to promote.
Covers(w, m) ==
    \/ pc[w] \in Looking
    \/ pc[w] \in {"leave_owner", "leave_promote"} /\ req[w].target = m

\* Any two members joined one after the other.
JoinOrder ==
    \A u, v \in Members : u # v => u \in older[v] \/ v \in older[u]

\* An oldest member who is no admin, and an empty server, are some leave's
\* unfinished business.
Pending ==
    phase = "live" =>
        /\ \A m \in Users : Oldest(m) => role[m] = "admin" \/ \E w \in Workers : Covers(w, m)
        /\ Members = {} => \E w \in Workers : pc[w] \in Looking

NoStrays ==
    \A w \in Workers : pc[w] \notin KickStatements \cup RoleStatements \cup {"account"}

\* The inductive invariant behind Succession.
SuccInv == RefInv /\ NoStrays /\ JoinOrder /\ Pending

\* A step of a slot outside leave that leaves the rows and the phase alone.
LEMMA Bystander ==
    ASSUME TypeOK, Pending, JoinOrder, NEW w \in Workers, pc[w] \notin LeaveSteps,
           \A v \in Workers \ {w} : pc'[v] = pc[v] /\ req'[v] = req[v],
           UNCHANGED memberRows, phase' = phase
    PROVE  JoinOrder' /\ Pending'
<1>1. Members' = Members /\ \A m : Oldest(m)' <=> Oldest(m)
  BY DEF Members, Oldest, memberRows
<1>2. JoinOrder'
  BY <1>1 DEF JoinOrder, memberRows
<1>3. \A v \in Workers, m \in Users : Covers(v, m) => Covers(v, m)'
  BY DEF Covers, LeaveSteps
<1>4. \A v \in Workers : pc[v] \in Looking => pc'[v] \in Looking
  BY DEF LeaveSteps
<1>5. QED BY <1>1, <1>2, <1>3, <1>4 DEF Pending, memberRows

\* Removing members keeps the order of the others.
LEMMA OrderKept ==
    ASSUME JoinOrder, NEW S, DeleteMembers(S)
    PROVE  JoinOrder'
BY DEF JoinOrder, DeleteMembers, Members

LEMMA SuccStep ==
    ASSUME SuccInv, NEW w \in Workers, Step(w)
    PROVE  JoinOrder' /\ Pending'
<1>a. TypeOK /\ JoinOrder /\ Pending /\ ReferentialIntegrity /\ Lifecycle
  BY DEF SuccInv, RefInv
<1>b. ASSUME pc[w] \notin LeaveSteps, UNCHANGED memberRows, phase' = phase,
             \A v \in Workers \ {w} : pc'[v] = pc[v] /\ req'[v] = req[v]
      PROVE  JoinOrder' /\ Pending'
  BY <1>a, <1>b, Bystander
<1>c. ASSUME NEW s, NEW r, Keep(w, s, r) \/ Goto(w, s) \/ Reply(w)
      PROVE  \A v \in Workers \ {w} : pc'[v] = pc[v] /\ req'[v] = req[v]
  BY <1>a, <1>c DEF TypeOK, Keep, Goto, Reply
<1>d. DropServer => phase' = "gone" /\ JoinOrder'
  BY <1>a, OrderKept DEF DropServer
<1>e. pc[w] \notin KickStatements \cup RoleStatements \cup {"account"}
  BY DEF SuccInv, NoStrays
<1>f. UNCHANGED memberRows => Members' = Members /\ JoinOrder' /\ \A m : Oldest(m)' <=> Oldest(m)
  BY <1>a DEF JoinOrder, Members, Oldest, memberRows
<1>1. CASE CreateServer(w)
  <2>1. JoinOrder'
    BY <1>1, <1>f DEF CreateServer, Unchanged
  <2>2. CASE phase' = phase
    BY <1>1, <2>2, <1>b, <1>c DEF CreateServer, LeaveSteps, Looking, Unchanged
  <2>3. CASE phase' = "new"
    BY <2>1, <2>3 DEF Pending
  <2>4. QED BY <1>1, <2>2, <2>3 DEF CreateServer, Unchanged, serverRow
<1>2. CASE CreateMember(w)
  <2>1. CASE Unchanged
    BY <1>2, <2>1, <1>b, <1>c DEF CreateMember, LeaveSteps, Looking, Unchanged, serverRow
  <2>2. CASE CanInsert(req[w].actor) /\ InsertMember(req[w].actor, "admin")
    <3>1. Members = {} /\ req[w].actor \in Users
      BY <1>2, <2>2, <1>a DEF CreateMember, CanInsert, Lifecycle, ReferentialIntegrity, TypeOK
    <3>2. Members' = {req[w].actor} /\ role'[req[w].actor] = "admin"
      BY <2>2, <3>1, <1>a DEF InsertMember, Members, TypeOK
    <3>3. QED BY <3>2 DEF JoinOrder, Pending, Oldest
  <2>3. QED BY <1>2, <2>1, <2>2 DEF CreateMember
<1>3. CASE InviteRole(w)
  BY <1>3, <1>b, <1>c DEF InviteRole, LeaveSteps, Looking, serverRow, Unchanged
<1>4. CASE InviteUpdate(w)
  BY <1>4, <1>b, <1>c DEF InviteUpdate, LeaveSteps, Looking, serverRow
<1>5. CASE JoinServer(w)
  BY <1>5, <1>b, <1>c DEF JoinServer, LeaveSteps, Looking, serverRow, Unchanged
<1>6. CASE JoinExisting(w)
  BY <1>6, <1>b, <1>c DEF JoinExisting, LeaveSteps, Looking, serverRow, Unchanged
<1>7. CASE JoinInsert(w)
  <2>1. CASE Reply(w) /\ Unchanged
    BY <1>7, <2>1, <1>b, <1>c DEF JoinInsert, LeaveSteps, Looking, Unchanged, serverRow
  <2>2. CASE /\ CanInsert(req[w].actor) /\ InsertMember(req[w].actor, "member")
             /\ Goto(w, "join_count") /\ UNCHANGED <<serverRow, accounts>>
    <3> DEFINE u == req[w].actor
    <3>1. u \in Users /\ u \notin Members /\ Members' = Members \cup {u}
      BY <1>7, <2>2, <1>a DEF JoinInsert, CanInsert, InsertMember, Members, TypeOK
    <3>2. older'[u] = Members /\ \A v \in Users \ {u} : older'[v] = older[v] /\ role'[v] = role[v]
      BY <2>2, <3>1, <1>a DEF InsertMember, TypeOK
    <3>3. JoinOrder'
      BY <3>1, <3>2, <1>a DEF JoinOrder, Members
    <3>4. \A v \in Workers, m \in Users : Covers(v, m) => Covers(v, m)'
      BY <1>7, <2>2, <1>c, <1>a DEF JoinInsert, Covers, Looking, TypeOK
    <3>5. \A v \in Workers : pc[v] \in Looking => pc'[v] \in Looking
      BY <1>7, <2>2, <1>c DEF JoinInsert, Looking
    <3>6. \A v \in Workers, m \in Users : pc'[v] \in Looking => Covers(v, m)'
      BY DEF Covers
    <3>7. phase' = phase
      BY <2>2 DEF serverRow
    <3>8. QED BY <3>1, <3>2, <3>3, <3>4, <3>5, <3>6, <3>7, <1>a DEF Pending, Oldest
  <2>3. QED BY <1>7, <2>1, <2>2 DEF JoinInsert
<1>8. CASE JoinCount(w)
  BY <1>8, <1>b, <1>c DEF JoinCount, LeaveSteps, Looking, serverRow
<1>9. CASE LeaveDelete(w)
  <2>1. CASE Reply(w) /\ Unchanged
    BY <1>9, <2>1, <1>b, <1>c DEF LeaveDelete, LeaveSteps, Looking, Unchanged, serverRow
  <2>2. CASE DeleteMembers({req[w].actor}) /\ Goto(w, "leave_count")
    <3>1. pc'[w] \in Looking
      BY <2>2, <1>a DEF Goto, Looking, TypeOK
    <3>2. \A m \in Users : Covers(w, m)'
      BY <3>1 DEF Covers
    <3>3. QED BY <2>2, <3>1, <3>2, <1>a, OrderKept DEF Pending
  <2>3. QED BY <1>9, <2>1, <2>2 DEF LeaveDelete
<1>10. CASE LeaveCount(w)
  <2>1. pc'[w] \in Looking
    BY <1>10, <1>a DEF LeaveCount, Goto, Looking, TypeOK
  <2>2. \A m \in Users : Covers(w, m)'
    BY <2>1 DEF Covers
  <2>3. QED BY <1>10, <2>1, <2>2, <1>f DEF LeaveCount, Pending
<1>11. CASE LeaveOldest(w)
  <2>1. UNCHANGED memberRows
    BY <1>11 DEF LeaveOldest, Unchanged
  <2>2. CASE Members = {} /\ Goto(w, "leave_drop")
    <3>1. pc'[w] \in Looking
      BY <2>2, <1>a DEF Goto, Looking, TypeOK
    <3>2. \A m \in Users : Covers(w, m)'
      BY <3>1 DEF Covers
    <3>3. QED BY <2>1, <3>1, <3>2, <1>f DEF Pending
  <2>3. ASSUME NEW heir \in Users, Oldest(heir),
               Keep(w, "leave_owner", [req[w] EXCEPT !.target = heir])
        PROVE  JoinOrder' /\ Pending'
    <3>1. Covers(w, heir)'
      BY <2>3, <1>a DEF Keep, Covers, TypeOK, RequestType
    <3>2. \A m \in Users : Oldest(m) => m = heir
      BY <2>3, <1>a DEF JoinOrder, Oldest
    <3>3. Members' # {}
      BY <2>1, <2>3, <1>f DEF Oldest
    <3>4. QED BY <2>1, <3>1, <3>2, <3>3, <1>f DEF Pending
  <2>4. QED BY <1>11, <2>2, <2>3 DEF LeaveOldest
<1>12. CASE LeaveOwner(w)
  <2>1. UNCHANGED memberRows /\ phase' = phase
    BY <1>12 DEF LeaveOwner, Unchanged, serverRow
  <2>2. CASE phase # "live"
    BY <2>1, <2>2, <1>f DEF Pending
  <2>3. CASE phase = "live"
    <3>1. \A v \in Workers, m \in Members : Covers(v, m) => Covers(v, m)'
      <4>1. CASE Goto(w, "leave_promote")
        BY <1>12, <4>1, <1>c, <1>a DEF LeaveOwner, Goto, Covers, Looking, TypeOK
      <4>2. CASE req[w].target \notin accounts /\ Reply(w)
        BY <1>12, <4>2, <1>c, <1>a DEF LeaveOwner, Covers, Looking, ReferentialIntegrity
      <4>3. QED BY <1>12, <2>3, <4>1, <4>2 DEF LeaveOwner
    <3>2. \A v \in Workers : pc[v] \in Looking => pc'[v] \in Looking
      <4>1. pc[w] \notin Looking
        BY <1>12 DEF LeaveOwner, Looking
      <4>2. QED BY <1>12, <4>1, <1>c DEF LeaveOwner
    <3>3. \A m \in Users : Oldest(m) => m \in Members
      BY DEF Oldest
    <3>4. QED BY <2>1, <3>1, <3>2, <3>3, <1>a, <1>f DEF Pending, memberRows
  <2>4. QED BY <2>2, <2>3
<1>13. CASE LeavePromote(w)
  <2> DEFINE t == req[w].target
  <2>1. Members' = Members /\ older' = older /\ phase' = phase
    BY <1>13, <1>a DEF LeavePromote, SetRole, Members, TypeOK, serverRow
  <2>2. /\ t \in Members => role'[t] = "admin"
        /\ \A m \in Users : m # t => role'[m] = role[m]
    BY <1>13, <1>a DEF LeavePromote, SetRole, Members, TypeOK
  <2>3. \A v \in Workers, m \in Users : m # t /\ Covers(v, m) => Covers(v, m)'
    BY <1>13, <1>c DEF LeavePromote, Covers, Looking
  <2>4. \A v \in Workers : pc[v] \in Looking => pc'[v] \in Looking
    BY <1>13, <1>c DEF LeavePromote, Looking
  <2>5. QED BY <2>1, <2>2, <2>3, <2>4, <1>a DEF JoinOrder, Pending, Oldest
<1>14. CASE LeaveDrop(w)
  BY <1>14, <1>d DEF LeaveDrop, Pending
<1>15. CASE KickActor(w)
  BY <1>15, <1>e DEF KickActor, KickStatements
<1>16. CASE KickTarget(w)
  BY <1>16, <1>e DEF KickTarget, KickStatements
<1>17. CASE KickDelete(w)
  BY <1>17, <1>e DEF KickDelete, KickStatements
<1>18. CASE KickCount(w)
  BY <1>18, <1>e DEF KickCount, KickStatements
<1>19. CASE RoleActor(w)
  BY <1>19, <1>e DEF RoleActor, RoleStatements
<1>20. CASE RoleTarget(w)
  BY <1>20, <1>e DEF RoleTarget, RoleStatements
<1>21. CASE RoleUpdate(w)
  BY <1>21, <1>e DEF RoleUpdate, RoleStatements
<1>22. CASE DeleteServer(w)
  <2>1. CASE DropServer
    BY <2>1, <1>d DEF Pending
  <2>2. CASE UNCHANGED <<serverRow, memberRows>>
    BY <1>22, <2>2, <1>b, <1>c DEF DeleteServer, LeaveSteps, Looking, serverRow
  <2>3. QED BY <1>22, <2>1, <2>2 DEF DeleteServer
<1>23. CASE DeleteAccount(w)
  BY <1>23, <1>e DEF DeleteAccount
<1>24. QED
  BY <1>1, <1>2, <1>3, <1>4, <1>5, <1>6, <1>7, <1>8, <1>9, <1>10, <1>11, <1>12, <1>13,
     <1>14, <1>15, <1>16, <1>17, <1>18, <1>19, <1>20, <1>21, <1>22, <1>23
  DEF Step

\* If nobody kicks, changes roles or deletes an account, and no leave stops
\* half way, the oldest member of a quiet live server is an admin, and there
\* is one: whatever number of leaves and joins ran at the same time.
THEOREM SuccessionHolds ==
    ASSUME Ops \cap {"kick", "role", "account"} = {}, FaultPoints \cap LeaveSteps = {}
    PROVE  Spec => []Succession
<1>1. Init => SuccInv
  BY RefInit DEF Init, SuccInv, NoStrays, KickStatements, RoleStatements, JoinOrder, Pending,
     Members
<1>2. SuccInv /\ [Next]_vars => SuccInv'
  <2> SUFFICES ASSUME SuccInv, [Next]_vars PROVE NoStrays' /\ JoinOrder' /\ Pending'
    BY RefNext DEF SuccInv
  <2>a. TypeOK /\ JoinOrder /\ Pending
    BY DEF SuccInv, RefInv
  <2>1. CASE UNCHANGED vars
    BY <2>1 DEF vars, serverRow, memberRows, SuccInv, NoStrays, JoinOrder, Pending, Members,
       Oldest, Covers
  <2>2. ASSUME NEW w \in Workers, Step(w) PROVE NoStrays' /\ JoinOrder' /\ Pending'
    <3>1. NoStrays'
      BY <2>2, <2>a, PhaseMoves DEF SuccInv, NoStrays
    <3>2. QED BY <2>2, <3>1, SuccStep
  <2>3. ASSUME NEW w \in Workers, Start(w) \/ Fault(w)
        PROVE  NoStrays' /\ JoinOrder' /\ Pending'
    <3>1. PICK s \in Endpoints \cup {"idle"} :
            /\ pc' = [pc EXCEPT ![w] = s]
            /\ s = "idle" => pc[w] \in FaultPoints
            /\ s # "idle" => pc[w] = "idle" /\ s \in Ops
      BY <2>3, <2>a, SlotMoves
    <3>2. s \notin KickStatements \cup RoleStatements \cup {"account"}
      BY <3>1 DEF Endpoints, KickStatements, RoleStatements
    <3>3. NoStrays'
      BY <3>1, <3>2, <2>a DEF SuccInv, NoStrays, TypeOK
    <3>4. pc[w] \notin LeaveSteps
      BY <3>1 DEF LeaveSteps, Looking
    <3>5. \A v \in Workers \ {w} : pc'[v] = pc[v] /\ req'[v] = req[v]
      BY <2>3, <2>a DEF Start, StartCreate, StartJoin, StartPlain, StartAccount, StartKick,
         StartRole, Begin, Fault, Reply, Keep, TypeOK
    <3>6. UNCHANGED memberRows /\ phase' = phase
      BY <2>3, <2>a, SlotMoves DEF serverRow
    <3>7. QED BY <2>a, <3>3, <3>4, <3>5, <3>6, Bystander
  <2>4. QED BY <2>1, <2>2, <2>3 DEF Next
<1>3. SuccInv => Succession
  BY DEF SuccInv, Pending, Succession, Quiet, Covers, Looking
<1>4. QED BY <1>1, <1>2, <1>3, PTL DEF Spec

-----------------------------------------------------------------------------
(* One request at a time: what holds between two requests, and what each   *)
(* statement of the only request in progress owes the others.              *)

LEMMA OneSlot ==
    ASSUME Cardinality(Workers) = 1
    PROVE  \A v, w \in Workers : v = w
<1> SUFFICES ASSUME NEW v \in Workers, NEW w \in Workers, v # w PROVE FALSE
  OBVIOUS
<1>1. IsFiniteSet(Workers \ {v}) /\ Cardinality(Workers \ {v}) = 0
  BY OneMoreOrLess DEF MembershipAssumption
<1>2. Workers \ {v} = {}
  BY <1>1, FS_EmptySet
<1>3. QED BY <1>2

\* The target that kick or role has settled on is a member, and no admin; the
\* role to be given is one of the three.
Chosen ==
    \A w \in Workers :
        /\ pc[w] \in {"kick_delete", "role_update"} => role[req[w].target] \notin {"none", "admin"}
        /\ pc[w] \in RoleStatements => req[w].newRole # "none"
        /\ pc[w] \in KickStatements \cup RoleStatements => req[w].target \in Users

ChosenInv == RefInv /\ Chosen

\* The highest role is beyond every other one.
LEMMA NoneAboveAdmin ==
    \A r, t \in Roles \cup {"none"} : canManageRole(r, t) => t # "admin"
BY DEF canManageRole, ROLE_HIERARCHY, Roles

LEMMA ChosenSlot ==
    ASSUME ChosenInv, NEW w \in Workers, Start(w) \/ Fault(w), \A v \in Workers : v = w
    PROVE  Chosen'
<1> TypeOK
  BY DEF ChosenInv, RefInv
<1>1. CASE Fault(w)
  BY <1>1 DEF Fault, Reply, Keep, Chosen, RoleStatements, KickStatements, TypeOK
<1>2. CASE StartRole(w)
  <2>1. PICK u \in Users, t \in Users, r \in Roles : Begin(w, "role", u, t, r)
    BY <1>2 DEF StartRole
  <2>2. pc'[w] = "role" /\ req'[w] = [NoRequest EXCEPT !.actor = u, !.target = t, !.newRole = r]
    BY <2>1 DEF Begin, Keep, TypeOK
  <2>3. req'[w].newRole = r /\ r # "none" /\ req'[w].target = t
    BY <2>2 DEF NoRequest, Roles
  <2>4. QED
    BY <2>2, <2>3 DEF Chosen, RoleStatements, KickStatements
<1>3. CASE StartKick(w)
  <2>1. PICK u \in Users, t \in Users : Begin(w, "kick", u, t, "none")
    BY <1>3 DEF StartKick
  <2>2. pc'[w] = "kick" /\ req'[w] = [NoRequest EXCEPT !.actor = u, !.target = t, !.newRole = "none"]
    BY <2>1 DEF Begin, Keep, TypeOK
  <2>3. req'[w].target = t
    BY <2>2 DEF NoRequest
  <2>4. QED
    BY <2>2, <2>3 DEF Chosen, RoleStatements
<1>4. ASSUME StartCreate(w) \/ StartJoin(w) \/ StartPlain(w) \/ StartAccount(w)
      PROVE  Chosen'
  <2>1. pc'[w] \notin RoleStatements \cup KickStatements
    BY <1>4 DEF StartCreate, StartJoin, StartPlain, StartAccount, Begin, Keep,
       RoleStatements, KickStatements, TypeOK
  <2>2. QED
    BY <2>1 DEF Chosen, RoleStatements, KickStatements
<1>5. QED
  BY <1>1, <1>2, <1>3, <1>4 DEF Start

LEMMA ChosenStep ==
    ASSUME ChosenInv, NEW w \in Workers, Step(w), \A v \in Workers : v = w
    PROVE  Chosen'
<1> TypeOK
  BY DEF ChosenInv, RefInv
<1> req[w] \in RequestType /\ req[w].target \in Users \cup {NoUser}
  BY RequestTypes DEF TypeOK
<1> req[w].actor \in Users
  BY DEF Step, CreateServer, CreateMember, InviteRole, InviteUpdate, JoinServer,
     JoinExisting, JoinInsert, JoinCount, LeaveDelete, LeaveCount, LeaveOldest,
     LeaveOwner, LeavePromote, LeaveDrop, KickActor, KickTarget, KickDelete, KickCount,
     RoleActor, RoleTarget, RoleUpdate, DeleteServer, DeleteAccount, TypeOK
<1>1. CASE pc'[w] \notin RoleStatements \cup KickStatements
  BY <1>1 DEF Chosen, RoleStatements, KickStatements
<1>2. CASE KickTarget(w) \/ RoleTarget(w)
  <2> DEFINE t == role[req[w].target]
  <2>1. CASE pc'[w] = "idle"
    BY <1>1, <2>1 DEF RoleStatements, KickStatements
  <2>2. CASE pc'[w] # "idle"
    <3>1. t # "none" /\ canManageRole(req[w].seen, t) /\ UNCHANGED role /\ req' = req
      BY <1>2, <2>2 DEF KickTarget, RoleTarget, CheckTarget, Reply, Keep, Goto, Unchanged,
         memberRows, TypeOK
    <3>2. req[w].seen \in Roles \cup {"none"}
      BY RequestTypes
    <3>3. req[w].target \in Users
      BY <1>2 DEF KickTarget, RoleTarget, KickStatements, RoleStatements, ChosenInv, Chosen
    <3>4. t # "admin"
      BY <3>1, <3>2, <3>3, NoneAboveAdmin DEF TypeOK
    <3>5. pc'[w] \in RoleStatements => req[w].newRole # "none"
      BY <1>2, PhaseMoves DEF RoleTarget, KickTarget, RoleStatements, ChosenInv, Chosen
    <3>6. QED
      BY <3>1, <3>3, <3>4, <3>5 DEF Chosen
  <2>3. QED BY <2>1, <2>2
<1>3. CASE KickActor(w) \/ RoleActor(w)
  <2>1. CASE pc'[w] = "idle"
    BY <1>1, <2>1 DEF RoleStatements, KickStatements
  <2>2. CASE pc'[w] # "idle"
    <3>1. /\ pc'[w] \in {"role_target", "kick_target"}
          /\ pc'[w] = "role_target" => pc[w] = "role"
          /\ req'[w] = [req[w] EXCEPT !.seen = role[req[w].actor]]
      BY <1>3, <2>2 DEF KickActor, RoleActor, ReadActor, Reply, Keep, TypeOK
    <3>2. req'[w].newRole = req[w].newRole /\ req'[w].target = req[w].target
      BY <3>1 DEF RequestType
    <3>3. pc[w] = "role" => req[w].newRole # "none"
      BY DEF RoleStatements, ChosenInv, Chosen
    <3>4. req[w].target \in Users
      BY <1>3 DEF KickActor, RoleActor, KickStatements, RoleStatements, ChosenInv, Chosen
    <3>5. QED
      BY <3>1, <3>2, <3>3, <3>4 DEF Chosen, RoleStatements
  <2>3. QED BY <2>1, <2>2
<1>4. CASE KickDelete(w)
  <2>1. pc'[w] = "kick_count" /\ req' = req
    BY <1>4 DEF KickDelete, Goto, TypeOK
  <2>2. req[w].target \in Users
    BY <1>4 DEF KickDelete, KickStatements, ChosenInv, Chosen
  <2>3. QED
    BY <2>1, <2>2 DEF Chosen, RoleStatements
<1>5. ASSUME ~(KickTarget(w) \/ RoleTarget(w) \/ KickActor(w) \/ RoleActor(w) \/ KickDelete(w))
      PROVE  pc'[w] \notin RoleStatements \cup KickStatements
  BY <1>5 DEF Step, CreateServer, CreateMember, InviteRole, InviteUpdate, JoinServer,
     JoinExisting, JoinInsert, JoinCount, LeaveDelete, LeaveCount, LeaveOldest,
     LeaveOwner, LeavePromote, LeaveDrop, KickCount, SetCount, SetRole,
     RoleUpdate, DeleteServer, DeleteAccount, Goto, Reply, Keep, RoleStatements,
     KickStatements, TypeOK
<1>6. QED
  BY <1>1, <1>2, <1>3, <1>4, <1>5

LEMMA ChosenInit == Init => ChosenInv
BY RefInit DEF Init, ChosenInv, Chosen, RoleStatements, KickStatements

LEMMA ChosenNext ==
    ASSUME ChosenInv, [Next]_vars, \A v, w \in Workers : v = w
    PROVE  ChosenInv'
<1>1. CASE UNCHANGED vars
  BY <1>1, RefNext DEF vars, memberRows, ChosenInv, Chosen
<1>2. ASSUME NEW w \in Workers, Start(w) \/ Fault(w) PROVE Chosen'
  BY <1>2, ChosenSlot
<1>3. ASSUME NEW w \in Workers, Step(w) PROVE Chosen'
  BY <1>3, ChosenStep
<1>4. QED
  BY <1>1, <1>2, <1>3, RefNext DEF Next, ChosenInv

\* Who loses the role "admin" in one statement of the only request: the
\* caller of leave or of DELETE account, or everybody with the server.
LEMMA AdminStep ==
    ASSUME ChosenInv, NEW w \in Workers, Step(w),
           NEW u \in Users, role[u] = "admin", role'[u] # "admin"
    PROVE  phase' = "gone" \/ (pc[w] \in {"leave", "account"} /\ req[w].actor = u)
<1> TypeOK
  BY DEF ChosenInv, RefInv
<1> USE DEF TypeOK, Unchanged, memberRows
<1>1. CASE CreateServer(w)
  BY <1>1 DEF CreateServer
<1>2. CASE CreateMember(w)
  BY <1>2 DEF CreateMember, InsertMember
<1>3. CASE InviteRole(w)
  BY <1>3 DEF InviteRole
<1>4. CASE InviteUpdate(w)
  BY <1>4 DEF InviteUpdate
<1>5. CASE JoinServer(w)
  BY <1>5 DEF JoinServer
<1>6. CASE JoinExisting(w)
  BY <1>6 DEF JoinExisting
<1>7. CASE JoinInsert(w)
  BY <1>7 DEF JoinInsert, CanInsert, InsertMember
<1>8. CASE JoinCount(w)
  BY <1>8 DEF JoinCount
<1>9. CASE LeaveDelete(w)
  BY <1>9 DEF LeaveDelete, DeleteMembers
<1>10. CASE LeaveCount(w)
  BY <1>10 DEF LeaveCount
<1>11. CASE LeaveOldest(w)
  BY <1>11 DEF LeaveOldest
<1>12. CASE LeaveOwner(w)
  BY <1>12 DEF LeaveOwner
<1>13. CASE LeavePromote(w)
  BY <1>13 DEF LeavePromote, SetRole
<1>14. CASE LeaveDrop(w)
  BY <1>14 DEF LeaveDrop, DropServer
<1>15. CASE KickActor(w)
  BY <1>15 DEF KickActor, ReadActor
<1>16. CASE KickTarget(w)
  BY <1>16 DEF KickTarget, CheckTarget
<1>17. CASE KickDelete(w)
  BY <1>17 DEF KickDelete, DeleteMembers, ChosenInv, Chosen
<1>18. CASE KickCount(w)
  BY <1>18 DEF KickCount
<1>19. CASE RoleActor(w)
  BY <1>19 DEF RoleActor, ReadActor
<1>20. CASE RoleTarget(w)
  BY <1>20 DEF RoleTarget, CheckTarget
<1>21. CASE RoleUpdate(w)
  BY <1>21 DEF RoleUpdate, SetRole, ChosenInv, Chosen
<1>22. CASE DeleteServer(w)
  BY <1>22 DEF DeleteServer, DropServer
<1>23. CASE DeleteAccount(w)
  BY <1>23 DEF DeleteAccount, DropServer, DeleteMembers
<1>24. QED
  BY <1>1, <1>2, <1>3, <1>4, <1>5, <1>6, <1>7, <1>8, <1>9, <1>10, <1>11,
     <1>12, <1>13, <1>14, <1>15, <1>16, <1>17, <1>18, <1>19, <1>20, <1>21,
     <1>22, <1>23
  DEF Step

\* With one request at a time no kick and no role change reaches an admin,
\* wherever the statements of a handler fail.
THEOREM AdminsStayAdmins ==
    ASSUME Cardinality(Workers) = 1
    PROVE  Spec => AdminsStepDownThemselves
<1> DEFINE StepsDown == \A u \in Users : role[u] = "admin" /\ role'[u] # "admin" =>
          \/ phase' = "gone"
          \/ \E w \in Workers : pc[w] \in {"leave", "account"} /\ req[w].actor = u
<1>1. ChosenInv /\ [Next]_vars => ChosenInv'
  BY ChosenNext, OneSlot
<1>2. ChosenInv /\ [Next]_vars => [StepsDown]_vars
  <2> SUFFICES ASSUME ChosenInv, Next, NEW u \in Users, role[u] = "admin", role'[u] # "admin"
               PROVE  \/ phase' = "gone"
                      \/ \E w \in Workers : pc[w] \in {"leave", "account"} /\ req[w].actor = u
    BY DEF vars
  <2>1. PICK w \in Workers : Start(w) \/ Step(w) \/ Fault(w)
    BY DEF Next
  <2>2. CASE Start(w) \/ Fault(w)
    BY <2>2, SlotMoves DEF memberRows, ChosenInv, RefInv
  <2>3. CASE Step(w)
    BY <2>3, AdminStep
  <2>4. QED BY <2>1, <2>2, <2>3
<1>3. QED
  BY <1>1, <1>2, ChosenInit, PTL DEF Spec, AdminsStepDownThemselves

\* The owner of a live server is its oldest member and an admin, except while
\* a leave looks for the successor and hands the server over to it.
Heir ==
    phase = "live" => \A w \in Workers :
        /\ pc[w] \notin LeaveSteps => Oldest(owner) /\ role[owner] = "admin"
        /\ pc[w] \in {"leave_owner", "leave_promote"} => Oldest(req[w].target)
        /\ pc[w] = "leave_promote" => owner = req[w].target

\* A server whose creator has no row yet belongs to the request creating it.
Founder ==
    \A w \in Workers : pc[w] = "create_member" /\ phase = "new" => owner = req[w].actor

\* The inductive invariant behind SettledOwner.
HeirInv == ChosenInv /\ Heir /\ Founder

\* A request outside the steps of leave that leaves the owner's row alone.
LEMMA OwnerStays ==
    ASSUME TypeOK, Heir, NEW w \in Workers, \A v \in Workers : v = w,
           pc[w] \notin LeaveSteps, pc'[w] \notin LeaveSteps \cup {"create_member"},
           phase' = phase, owner' = owner, role'[owner] = role[owner],
           older'[owner] \subseteq older[owner]
    PROVE  Heir' /\ Founder'
<1>1. phase = "live" => Oldest(owner)' /\ role'[owner'] = "admin"
  BY DEF Heir, Oldest, Members
<1>2. QED
  BY <1>1 DEF Heir, Founder, LeaveSteps

LEMMA HeirStep ==
    ASSUME HeirInv, NEW w \in Workers, Step(w), \A v \in Workers : v = w
    PROVE  Heir' /\ Founder'
<1>0. TypeOK /\ Heir /\ ReferentialIntegrity /\ Lifecycle /\ Chosen
  BY DEF HeirInv, ChosenInv, RefInv
<1>a. ASSUME phase' \in {"gone", "absent"} PROVE Heir' /\ Founder'
  BY <1>a DEF Heir, Founder
<1>b. ASSUME pc[w] \notin LeaveSteps, pc'[w] \notin LeaveSteps \cup {"create_member"},
             phase' = phase, owner' = owner, UNCHANGED memberRows
      PROVE  Heir' /\ Founder'
  BY <1>0, <1>b, OwnerStays DEF memberRows
<1>c. ASSUME NEW s, NEW r, Keep(w, s, r) \/ Goto(w, s) PROVE pc'[w] = s
  BY <1>0, <1>c DEF TypeOK, Keep, Goto
<1>d. Reply(w) => pc'[w] = "idle"
  BY <1>0 DEF TypeOK, Keep, Reply
<1> USE DEF Unchanged, serverRow
<1>1. CASE CreateServer(w)
  <2>1. CASE Reply(w) /\ Unchanged
    BY <1>1, <2>1, <1>b, <1>d DEF CreateServer, LeaveSteps, Looking
  <2>2. CASE phase' = "new" /\ owner' = req[w].actor /\ UNCHANGED req
    BY <2>2 DEF Heir, Founder
  <2>3. QED BY <1>1, <2>1, <2>2 DEF CreateServer, Goto
<1>2. CASE CreateMember(w)
  <2>1. CASE Unchanged
    BY <1>2, <2>1, <1>b, <1>d DEF CreateMember, LeaveSteps, Looking
  <2>2. CASE /\ CanInsert(req[w].actor) /\ InsertMember(req[w].actor, "admin")
             /\ phase' = "live" /\ owner' = owner
    <3>1. phase = "new" /\ Members = {} /\ owner = req[w].actor
      BY <1>2, <2>2, <1>0 DEF CreateMember, CanInsert, Lifecycle, ReferentialIntegrity,
         HeirInv, Founder
    <3>2. owner \in Users
      BY <1>0, <1>2, <3>1 DEF TypeOK, CreateMember
    <3>3. role'[owner] = "admin" /\ older'[owner] = {}
      BY <1>0, <2>2, <3>1, <3>2 DEF InsertMember, TypeOK
    <3>4. Oldest(owner)' /\ role'[owner'] = "admin"
      BY <2>2, <3>2, <3>3 DEF Oldest, Members
    <3>5. QED
      BY <1>2, <2>2, <3>4, <1>d DEF CreateMember, Heir, Founder, LeaveSteps, Looking
  <2>3. QED BY <1>2, <2>1, <2>2 DEF CreateMember
<1>3. CASE InviteRole(w)
  BY <1>3, <1>b, <1>c, <1>d DEF InviteRole, LeaveSteps, Looking
<1>4. CASE InviteUpdate(w)
  BY <1>4, <1>b, <1>d DEF InviteUpdate, LeaveSteps, Looking
<1>5. CASE JoinServer(w)
  BY <1>5, <1>b, <1>c, <1>d DEF JoinServer, LeaveSteps, Looking
<1>6. CASE JoinExisting(w)
  BY <1>6, <1>b, <1>c, <1>d DEF JoinExisting, LeaveSteps, Looking
<1>7. CASE JoinInsert(w)
  <2>1. CASE Reply(w) /\ Unchanged
    BY <1>7, <2>1, <1>b, <1>d DEF JoinInsert, LeaveSteps, Looking
  <2>2. CASE /\ CanInsert(req[w].actor) /\ InsertMember(req[w].actor, "member")
             /\ Goto(w, "join_count") /\ UNCHANGED serverRow
    <3>1. CASE phase # "live"
      BY <2>2, <3>1, <1>c DEF Heir, Founder
    <3>2. CASE phase = "live"
      <4>1. role[owner] = "admin" /\ role[req[w].actor] = "none"
        BY <1>7, <2>2, <3>2, <1>0 DEF JoinInsert, Heir, LeaveSteps, Looking, CanInsert
      <4>2. role'[owner] = role[owner] /\ older'[owner] = older[owner]
        BY <2>2, <4>1, <1>0 DEF InsertMember, TypeOK
      <4>3. pc'[w] = "join_count"
        BY <2>2, <1>c
      <4>4. QED
        BY <1>7, <2>2, <4>2, <4>3, <1>0, OwnerStays DEF JoinInsert, LeaveSteps, Looking
    <3>3. QED BY <3>1, <3>2
  <2>3. QED BY <1>7, <2>1, <2>2 DEF JoinInsert
<1>8. CASE JoinCount(w)
  BY <1>8, <1>b, <1>d DEF JoinCount, LeaveSteps, Looking
<1>9. CASE LeaveDelete(w)
  <2>1. CASE Reply(w) /\ Unchanged
    BY <1>9, <2>1, <1>b, <1>d DEF LeaveDelete, LeaveSteps, Looking
  <2>2. CASE Goto(w, "leave_count")
    <3>1. pc'[w] = "leave_count"
      BY <2>2, <1>c
    <3>2. QED BY <3>1 DEF Heir, Founder, LeaveSteps, Looking
  <2>3. QED BY <1>9, <2>1, <2>2 DEF LeaveDelete
<1>10. CASE LeaveCount(w)
  <2>1. pc'[w] = "leave_oldest"
    BY <1>10, <1>c DEF LeaveCount
  <2>2. QED BY <2>1 DEF Heir, Founder, LeaveSteps, Looking
<1>11. CASE LeaveOldest(w)
  <2>1. CASE Goto(w, "leave_drop")
    <3>1. pc'[w] = "leave_drop"
      BY <2>1, <1>c
    <3>2. QED BY <3>1 DEF Heir, Founder, LeaveSteps, Looking
  <2>2. ASSUME NEW heir \in Users, Oldest(heir),
               Keep(w, "leave_owner", [req[w] EXCEPT !.target = heir])
        PROVE  Heir' /\ Founder'
    <3>1. pc'[w] = "leave_owner" /\ req'[w].target = heir
      BY <1>0, <2>2 DEF Keep, TypeOK, RequestType
    <3>2. Oldest(heir)'
      BY <1>11, <2>2 DEF LeaveOldest, Oldest, Members, memberRows
    <3>3. QED
      BY <3>1, <3>2 DEF Heir, Founder, LeaveSteps, Looking
  <2>3. QED BY <1>11, <2>1, <2>2 DEF LeaveOldest
<1>12. CASE LeaveOwner(w)
  <2>1. CASE phase # "live"
    <3>1. pc'[w] = "leave_promote" /\ phase' = phase
      BY <1>12, <2>1, <1>c DEF LeaveOwner
    <3>2. QED BY <2>1, <3>1 DEF Heir, Founder
  <2>2. CASE phase = "live"
    <3>1. Oldest(req[w].target) /\ req[w].target \in accounts
      BY <1>12, <2>2, <1>0 DEF LeaveOwner, Heir, Oldest, ReferentialIntegrity
    <3>2. owner' = req[w].target /\ Goto(w, "leave_promote") /\ UNCHANGED memberRows
      BY <1>12, <2>2, <3>1 DEF LeaveOwner
    <3>3. pc'[w] = "leave_promote" /\ req'[w] = req[w]
      BY <3>2, <1>c DEF Goto
    <3>4. Oldest(req[w].target)'
      BY <3>1, <3>2, <3>3 DEF Oldest, Members, memberRows
    <3>5. QED
      BY <3>2, <3>3, <3>4 DEF Heir, Founder, LeaveSteps, Looking
  <2>3. QED BY <2>1, <2>2
<1>13. CASE LeavePromote(w)
  <2>1. pc'[w] = "idle" /\ phase' = phase /\ owner' = owner /\ older' = older
    BY <1>13, <1>d DEF LeavePromote, SetRole
  <2>2. CASE phase # "live"
    BY <2>1, <2>2 DEF Heir, Founder
  <2>3. CASE phase = "live"
    <3>1. owner = req[w].target /\ Oldest(owner)
      BY <1>13, <2>3, <1>0 DEF LeavePromote, Heir
    <3>2. role'[owner] = "admin"
      BY <1>13, <3>1, <1>0 DEF LeavePromote, SetRole, Oldest, Members, TypeOK
    <3>3. Oldest(owner)' /\ role'[owner'] = "admin"
      BY <2>1, <3>1, <3>2 DEF Oldest, Members
    <3>4. QED
      BY <2>1, <3>3 DEF Heir, Founder, LeaveSteps, Looking
  <2>4. QED BY <2>2, <2>3
<1>14. CASE LeaveDrop(w)
  BY <1>14, <1>a DEF LeaveDrop, DropServer
<1>15. CASE KickActor(w)
  BY <1>15, <1>b, <1>c, <1>d DEF KickActor, ReadActor, LeaveSteps, Looking
<1>16. CASE KickTarget(w)
  BY <1>16, <1>b, <1>c, <1>d DEF KickTarget, CheckTarget, LeaveSteps, Looking
<1>17. CASE KickDelete(w)
  <2>1. pc'[w] = "kick_count" /\ phase' = phase /\ owner' = owner /\ pc[w] = "kick_delete"
    BY <1>17, <1>c DEF KickDelete
  <2>2. CASE phase # "live"
    BY <2>1, <2>2 DEF Heir, Founder
  <2>3. CASE phase = "live"
    <3>1. owner \in Users /\ owner # req[w].target
      BY <2>1, <2>3, <1>0 DEF Heir, LeaveSteps, Looking, Oldest, Members, Chosen
    <3>2. role'[owner] = role[owner] /\ older'[owner] \subseteq older[owner]
      BY <1>17, <3>1 DEF KickDelete, DeleteMembers
    <3>3. QED
      BY <2>1, <3>2, <1>0, OwnerStays DEF LeaveSteps, Looking
  <2>4. QED BY <2>2, <2>3
<1>18. CASE KickCount(w)
  BY <1>18, <1>b, <1>d DEF KickCount, LeaveSteps, Looking
<1>19. CASE RoleActor(w)
  BY <1>19, <1>b, <1>c, <1>d DEF RoleActor, ReadActor, LeaveSteps, Looking
<1>20. CASE RoleTarget(w)
  BY <1>20, <1>b, <1>c, <1>d DEF RoleTarget, CheckTarget, LeaveSteps, Looking
<1>21. CASE RoleUpdate(w)
  <2>1. pc'[w] = "idle" /\ phase' = phase /\ owner' = owner /\ older' = older /\ pc[w] = "role_update"
    BY <1>21, <1>d DEF RoleUpdate, SetRole
  <2>2. CASE phase # "live"
    BY <2>1, <2>2 DEF Heir, Founder
  <2>3. CASE phase = "live"
    <3>1. owner \in Users /\ owner # req[w].target
      BY <2>1, <2>3, <1>0 DEF Heir, LeaveSteps, Looking, Oldest, Members, Chosen
    <3>2. role'[owner] = role[owner]
      BY <1>21, <3>1, <1>0 DEF RoleUpdate, SetRole, TypeOK
    <3>3. QED
      BY <2>1, <3>2, <1>0, OwnerStays DEF LeaveSteps, Looking
  <2>4. QED BY <2>2, <2>3
<1>22. CASE DeleteServer(w)
  <2>1. CASE DropServer
    BY <2>1, <1>a DEF DropServer
  <2>2. CASE UNCHANGED <<serverRow, memberRows>>
    BY <1>22, <2>2, <1>b, <1>d DEF DeleteServer, LeaveSteps, Looking
  <2>3. QED BY <1>22, <2>1, <2>2 DEF DeleteServer
<1>23. CASE DeleteAccount(w)
  <2>1. CASE DropServer
    BY <2>1, <1>a DEF DropServer
  <2>2. CASE owner # req[w].actor /\ DeleteMembers({req[w].actor}) /\ UNCHANGED serverRow
    <3>1. pc'[w] = "idle" /\ pc[w] = "account"
      BY <1>23, <1>d DEF DeleteAccount
    <3>2. CASE phase # "live"
      BY <2>2, <3>1, <3>2 DEF Heir, Founder
    <3>3. CASE phase = "live"
      <4>1. owner \in Users
        BY <3>1, <3>3, <1>0 DEF Heir, LeaveSteps, Looking, Oldest, Members
      <4>2. role'[owner] = role[owner] /\ older'[owner] \subseteq older[owner]
        BY <2>2, <4>1 DEF DeleteMembers
      <4>3. QED
        BY <2>2, <3>1, <4>2, <1>0, OwnerStays DEF LeaveSteps, Looking
    <3>4. QED BY <3>2, <3>3
  <2>3. QED BY <1>23, <2>1, <2>2 DEF DeleteAccount
<1>24. QED
  BY <1>1, <1>2, <1>3, <1>4, <1>5, <1>6, <1>7, <1>8, <1>9, <1>10, <1>11, <1>12, <1>13,
     <1>14, <1>15, <1>16, <1>17, <1>18, <1>19, <1>20, <1>21, <1>22, <1>23
  DEF Step

\* One request at a time, and no leave that fails between its statements:
\* whenever no request is in progress, the owner of a live server is the
\* member who joined first, and an admin.
THEOREM OwnerIsOldest ==
    ASSUME Cardinality(Workers) = 1, FaultPoints \cap LeaveSteps = {}
    PROVE  Spec => []SettledOwner
<1>1. Init => HeirInv
  BY ChosenInit DEF Init, HeirInv, Heir, Founder
<1>2. HeirInv /\ [Next]_vars => HeirInv'
  <2> SUFFICES ASSUME HeirInv, [Next]_vars PROVE ChosenInv' /\ Heir' /\ Founder'
    BY DEF HeirInv
  <2>0. ChosenInv' /\ TypeOK /\ Heir
    BY ChosenNext, OneSlot DEF HeirInv, ChosenInv, RefInv
  <2>1. CASE UNCHANGED vars
    BY <2>0, <2>1 DEF HeirInv, Heir, Founder, Oldest, Members, vars, serverRow, memberRows
  <2>2. ASSUME NEW w \in Workers, Step(w) PROVE Heir' /\ Founder'
    BY <2>2, HeirStep, OneSlot
  <2>3. ASSUME NEW w \in Workers, Start(w) \/ Fault(w) PROVE Heir' /\ Founder'
    <3>1. PICK s \in Endpoints \cup {"idle"} :
            /\ pc' = [pc EXCEPT ![w] = s]
            /\ s = "idle" => pc[w] \in FaultPoints
            /\ s # "idle" => pc[w] = "idle"
      BY <2>0, <2>3, SlotMoves
    <3>2. pc[w] \notin LeaveSteps /\ pc'[w] \notin LeaveSteps \cup {"create_member"}
      BY <2>0, <3>1 DEF Endpoints, LeaveSteps, Looking, TypeOK
    <3>3. UNCHANGED <<serverRow, memberRows>>
      BY <2>0, <2>3, SlotMoves
    <3>4. phase' = phase /\ owner' = owner /\ role'[owner] = role[owner]
          /\ older'[owner] \subseteq older[owner]
      BY <3>3 DEF serverRow, memberRows
    <3>5. \A v \in Workers : v = w
      BY OneSlot
    <3>6. QED
      BY <2>0, <3>2, <3>4, <3>5, OwnerStays
  <2>4. QED BY <2>0, <2>1, <2>2, <2>3 DEF Next
<1>3. HeirInv => SettledOwner
  BY DEF HeirInv, Heir, SettledOwner, Quiet, LeaveSteps, Looking, MembershipAssumption
<1>4. QED BY <1>1, <1>2, <1>3, PTL DEF Spec

\* The statements that still have to bring member_count up to date.
CountSteps == {"join_count", "leave_count", "kick_count"}

\* As long as no account has been deleted, member_count is the number of rows
\* but for the one that the request in progress has added or removed.
Exact ==
    phase = "live" /\ accounts = Users => \A w \in Workers :
        /\ pc[w] = "join_count" => Cardinality(Members) = count + 1
        /\ pc[w] \in {"leave_count", "kick_count"} => Cardinality(Members) = count - 1
        /\ pc[w] \notin CountSteps => Cardinality(Members) = count

\* The inductive invariant behind SettledCount.
ExactInv == ChosenInv /\ Exact

\* A step that leaves the number of rows alone, between two updates.
LEMMA CountStays ==
    ASSUME TypeOK, Exact, NEW w \in Workers, \A v \in Workers : v = w,
           pc[w] \notin CountSteps, pc'[w] \notin CountSteps,
           phase' = phase, accounts' = accounts, count' = count, Members' = Members
    PROVE  Exact'
BY DEF Exact, CountSteps

LEMMA ExactStep ==
    ASSUME ExactInv, NEW w \in Workers, Step(w), \A v \in Workers : v = w
    PROVE  Exact'
<1>0. TypeOK /\ Exact /\ ReferentialIntegrity /\ Lifecycle /\ Chosen
  BY DEF ExactInv, ChosenInv, RefInv
<1>a. ASSUME phase' # "live" PROVE Exact'
  BY <1>a DEF Exact
<1>b. ASSUME pc[w] \notin CountSteps, pc'[w] \notin CountSteps, phase' = phase,
             accounts' = accounts, count' = count, UNCHANGED memberRows
      PROVE  Exact'
  <2>1. Members' = Members
    BY <1>b DEF Members, memberRows
  <2>2. QED BY <1>0, <1>b, <2>1, CountStays
<1>c. ASSUME NEW s, NEW r, Keep(w, s, r) \/ Goto(w, s) PROVE pc'[w] = s
  BY <1>0, <1>c DEF TypeOK, Keep, Goto
<1>d. Reply(w) => pc'[w] = "idle"
  BY <1>0 DEF TypeOK, Keep, Reply
<1>e. /\ IsFiniteSet(Members) /\ Cardinality(Members) \in Nat /\ count \in Nat
      /\ \A u : /\ u \notin Members => Cardinality(Members \cup {u}) = Cardinality(Members) + 1
                /\ u \in Members => Cardinality(Members \ {u}) = Cardinality(Members) - 1
  BY <1>0, Finiteness, OneMoreOrLess DEF TypeOK
<1>f. \A u \in Users : DeleteMembers({u}) => Members' = Members \ {u}
  BY DEF DeleteMembers, Members
<1> USE DEF Unchanged, serverRow, CountSteps
<1>1. CASE CreateServer(w)
  BY <1>1, <1>a, <1>b, <1>d DEF CreateServer
<1>2. CASE CreateMember(w)
  <2>1. CASE Unchanged
    BY <1>2, <2>1, <1>b, <1>d DEF CreateMember
  <2>2. CASE /\ CanInsert(req[w].actor) /\ InsertMember(req[w].actor, "admin")
             /\ phase' = "live" /\ count' = count
    <3>1. phase = "new" /\ Members = {} /\ count = 1 /\ req[w].actor \in Users
      BY <1>2, <2>2, <1>0 DEF CreateMember, CanInsert, Lifecycle, ReferentialIntegrity, TypeOK
    <3>2. Members' = {req[w].actor}
      BY <1>0, <2>2, <3>1 DEF InsertMember, Members, TypeOK
    <3>3. Cardinality(Members') = 1
      BY <3>2, FS_Singleton
    <3>4. pc'[w] = "idle"
      BY <1>2, <1>d DEF CreateMember
    <3>5. QED BY <2>2, <3>1, <3>3, <3>4 DEF Exact
  <2>3. QED BY <1>2, <2>1, <2>2 DEF CreateMember
<1>3. CASE InviteRole(w)
  BY <1>3, <1>b, <1>c, <1>d DEF InviteRole
<1>4. CASE InviteUpdate(w)
  BY <1>4, <1>b, <1>d DEF InviteUpdate
<1>5. CASE JoinServer(w)
  BY <1>5, <1>b, <1>c, <1>d DEF JoinServer
<1>6. CASE JoinExisting(w)
  BY <1>6, <1>b, <1>c, <1>d DEF JoinExisting
<1>7. CASE JoinInsert(w)
  <2>1. CASE Reply(w) /\ Unchanged
    BY <1>7, <2>1, <1>b, <1>d DEF JoinInsert
  <2>2. CASE /\ CanInsert(req[w].actor) /\ InsertMember(req[w].actor, "member")
             /\ Goto(w, "join_count") /\ UNCHANGED <<serverRow, accounts>>
    <3> DEFINE u == req[w].actor
    <3>1. u \in Users /\ u \notin Members
      BY <1>7, <2>2, <1>0 DEF JoinInsert, CanInsert, Members, TypeOK
    <3>2. Members' = Members \cup {u}
      BY <1>0, <2>2, <3>1 DEF InsertMember, Members, TypeOK
    <3>3. Cardinality(Members') = Cardinality(Members) + 1
      BY <1>e, <3>1, <3>2
    <3>4. pc'[w] = "join_count"
      BY <2>2, <1>c
    <3>5. QED BY <1>0, <1>7, <2>2, <3>3, <3>4 DEF JoinInsert, Exact
  <2>3. QED BY <1>7, <2>1, <2>2 DEF JoinInsert
<1>8. CASE JoinCount(w)
  <2>1. pc'[w] = "idle" /\ Members' = Members
    BY <1>8, <1>d DEF JoinCount, Members, memberRows
  <2>2. QED BY <1>0, <1>8, <1>e, <2>1 DEF JoinCount, SetCount, Exact
<1>9. CASE LeaveDelete(w)
  <2>1. CASE Reply(w) /\ Unchanged
    BY <1>9, <2>1, <1>b, <1>d DEF LeaveDelete
  <2>2. CASE /\ req[w].actor \in Members /\ DeleteMembers({req[w].actor})
             /\ Goto(w, "leave_count") /\ UNCHANGED <<serverRow, accounts>>
    <3>1. Cardinality(Members') = Cardinality(Members) - 1
      BY <1>e, <1>f, <2>2 DEF Members
    <3>2. pc'[w] = "leave_count"
      BY <2>2, <1>c
    <3>3. QED BY <1>0, <1>9, <1>e, <2>2, <3>1, <3>2 DEF LeaveDelete, Exact
  <2>3. QED BY <1>9, <2>1, <2>2 DEF LeaveDelete
<1>10. CASE LeaveCount(w)
  <2>1. pc'[w] = "leave_oldest" /\ Members' = Members
    BY <1>10, <1>c DEF LeaveCount, Members, memberRows
  <2>2. QED BY <1>0, <1>10, <1>e, <2>1 DEF LeaveCount, SetCount, CountDown, Exact
<1>11. CASE LeaveOldest(w)
  BY <1>11, <1>b, <1>c DEF LeaveOldest
<1>12. CASE LeaveOwner(w)
  BY <1>12, <1>b, <1>c, <1>d DEF LeaveOwner
<1>13. CASE LeavePromote(w)
  <2>1. Members' = Members
    BY <1>0, <1>13 DEF LeavePromote, SetRole, Members, TypeOK
  <2>2. QED BY <1>0, <1>13, <2>1, <1>d, CountStays DEF LeavePromote, SetRole
<1>14. CASE LeaveDrop(w)
  BY <1>14, <1>a DEF LeaveDrop, DropServer
<1>15. CASE KickActor(w)
  BY <1>15, <1>b, <1>c, <1>d DEF KickActor, ReadActor
<1>16. CASE KickTarget(w)
  BY <1>16, <1>b, <1>c, <1>d DEF KickTarget, CheckTarget
<1>17. CASE KickDelete(w)
  <2>1. req[w].target \in Members
    BY <1>0, <1>17 DEF KickDelete, Chosen, KickStatements, Members
  <2>2. Cardinality(Members') = Cardinality(Members) - 1
    BY <1>17, <2>1, <1>e, <1>f DEF KickDelete, Members
  <2>3. pc'[w] = "kick_count"
    BY <1>17, <1>c DEF KickDelete
  <2>4. QED BY <1>0, <1>17, <1>e, <2>2, <2>3 DEF KickDelete, Exact
<1>18. CASE KickCount(w)
  <2>1. pc'[w] = "idle" /\ Members' = Members
    BY <1>18, <1>d DEF KickCount, Members, memberRows
  <2>2. QED BY <1>0, <1>18, <1>e, <2>1 DEF KickCount, SetCount, CountDown, Exact
<1>19. CASE RoleActor(w)
  BY <1>19, <1>b, <1>c, <1>d DEF RoleActor, ReadActor
<1>20. CASE RoleTarget(w)
  BY <1>20, <1>b, <1>c, <1>d DEF RoleTarget, CheckTarget
<1>21. CASE RoleUpdate(w)
  <2>1. req[w].newRole # "none"
    BY <1>0, <1>21 DEF RoleUpdate, Chosen, RoleStatements
  <2>2. Members' = Members
    BY <1>0, <1>21, <2>1 DEF RoleUpdate, SetRole, Members, TypeOK
  <2>3. QED BY <1>0, <1>21, <2>2, <1>d, CountStays DEF RoleUpdate, SetRole
<1>22. CASE DeleteServer(w)
  <2>1. CASE DropServer
    BY <2>1, <1>a DEF DropServer
  <2>2. CASE UNCHANGED <<serverRow, memberRows>>
    BY <1>22, <2>2, <1>b, <1>d DEF DeleteServer
  <2>3. QED BY <1>22, <2>1, <2>2 DEF DeleteServer
<1>23. CASE DeleteAccount(w)
  <2>1. req[w].actor \in Users /\ req[w].actor \notin accounts'
    BY <1>0, <1>23 DEF DeleteAccount, TypeOK
  <2>2. QED BY <2>1 DEF Exact
<1>24. QED
  BY <1>1, <1>2, <1>3, <1>4, <1>5, <1>6, <1>7, <1>8, <1>9, <1>10, <1>11, <1>12, <1>13,
     <1>14, <1>15, <1>16, <1>17, <1>18, <1>19, <1>20, <1>21, <1>22, <1>23
  DEF Step

\* One request at a time, and no failure between a change of the member rows
\* and the UPDATE of member_count: whenever no request is in progress, and no
\* account has been deleted, member_count is the number of rows.
THEOREM CountIsExact ==
    ASSUME Cardinality(Workers) = 1, FaultPoints \cap CountSteps = {}
    PROVE  Spec => []SettledCount
<1>1. Init => ExactInv
  BY ChosenInit DEF Init, ExactInv, Exact
<1>2. ExactInv /\ [Next]_vars => ExactInv'
  <2> SUFFICES ASSUME ExactInv, [Next]_vars PROVE ChosenInv' /\ Exact'
    BY DEF ExactInv
  <2>0. ChosenInv' /\ TypeOK /\ Exact
    BY ChosenNext, OneSlot DEF ExactInv, ChosenInv, RefInv
  <2>1. CASE UNCHANGED vars
    BY <2>0, <2>1 DEF Exact, Members, vars, serverRow, memberRows
  <2>2. ASSUME NEW w \in Workers, Step(w) PROVE Exact'
    BY <2>2, ExactStep, OneSlot
  <2>3. ASSUME NEW w \in Workers, Start(w) \/ Fault(w) PROVE Exact'
    <3>1. PICK s \in Endpoints \cup {"idle"} :
            /\ pc' = [pc EXCEPT ![w] = s]
            /\ s = "idle" => pc[w] \in FaultPoints
            /\ s # "idle" => pc[w] = "idle"
      BY <2>0, <2>3, SlotMoves
    <3>2. pc[w] \notin CountSteps /\ pc'[w] \notin CountSteps
      BY <2>0, <3>1 DEF Endpoints, CountSteps, TypeOK
    <3>3. UNCHANGED <<serverRow, memberRows, accounts>>
      BY <2>0, <2>3, SlotMoves
    <3>4. phase' = phase /\ accounts' = accounts /\ count' = count /\ Members' = Members
      BY <3>3 DEF serverRow, memberRows, Members
    <3>5. \A v \in Workers : v = w
      BY OneSlot
    <3>6. QED
      BY <2>0, <3>2, <3>4, <3>5, CountStays
  <2>4. QED BY <2>0, <2>1, <2>2, <2>3 DEF Next
<1>3. ExactInv => SettledCount
  BY DEF ExactInv, Exact, SettledCount, Quiet, CountSteps, MembershipAssumption
<1>4. QED BY <1>1, <1>2, <1>3, PTL DEF Spec

-----------------------------------------------------------------------------
(* Requests of any number at once, as long as nobody leaves.                *)

LeaveStatements == LeaveSteps \cup {"leave"}
NoLeaves == \A w \in Workers : pc[w] \notin LeaveStatements

\* The owner is the oldest member and an admin at every moment, so that a kick
\* or a role change that has settled on its target has not settled on the owner.
Reigns ==
    phase = "live" =>
        /\ Oldest(owner) /\ role[owner] = "admin"
        /\ \A w \in Workers : pc[w] \in {"kick_delete", "role_update"} => req[w].target # owner

ReignInv == RefInv /\ NoLeaves /\ Reigns /\ Founder

\* A step that leaves the owner's row alone and settles on nobody else's.
LEMMA ReignStays ==
    ASSUME ReignInv, NEW w \in Workers,
           \A v \in Workers \ {w} : pc'[v] = pc[v] /\ req'[v] = req[v],
           phase' = phase, owner' = owner,
           phase = "live" => role'[owner] = role[owner] /\ older'[owner] \subseteq older[owner],
           phase = "live" /\ pc'[w] \in {"kick_delete", "role_update"} => req'[w].target # owner,
           pc'[w] # "create_member"
    PROVE  Reigns' /\ Founder'
<1>1. phase = "live" => Oldest(owner)' /\ role'[owner'] = "admin"
  BY DEF ReignInv, Reigns, Oldest, Members
<1>2. QED
  BY <1>1 DEF ReignInv, Reigns, Founder

\* What one statement does to its slot when nobody leaves.
LEMMA ReignSlots ==
    ASSUME ReignInv, NEW w \in Workers, Step(w)
    PROVE  /\ \A v \in Workers \ {w} : pc'[v] = pc[v] /\ req'[v] = req[v]
           /\ pc'[w] \notin LeaveStatements
           /\ pc'[w] \in {"kick_delete", "role_update"} => KickTarget(w) \/ RoleTarget(w)
           /\ pc'[w] = "create_member" => CreateServer(w)
<1> TypeOK /\ pc[w] \notin LeaveStatements
  BY DEF ReignInv, RefInv, NoLeaves
<1> USE DEF TypeOK, Goto, Keep, Reply, Unchanged, LeaveStatements, LeaveSteps, Looking
<1>1. CASE CreateServer(w) \/ CreateMember(w) \/ InviteRole(w) \/ InviteUpdate(w)
  BY <1>1 DEF CreateServer, CreateMember, InviteRole, InviteUpdate
<1>2. CASE JoinServer(w) \/ JoinExisting(w) \/ JoinInsert(w) \/ JoinCount(w)
  BY <1>2 DEF JoinServer, JoinExisting, JoinInsert, JoinCount, SetCount
<1>3. CASE LeaveDelete(w) \/ LeaveCount(w) \/ LeaveOldest(w) \/ LeaveOwner(w) \/ LeavePromote(w) \/ LeaveDrop(w)
  BY <1>3 DEF LeaveDelete, LeaveCount, LeaveOldest, LeaveOwner, LeavePromote, LeaveDrop
<1>4. CASE KickActor(w) \/ RoleActor(w)
  BY <1>4 DEF KickActor, RoleActor, ReadActor
<1>5. CASE KickTarget(w) \/ RoleTarget(w)
  BY <1>5 DEF KickTarget, RoleTarget, CheckTarget
<1>6. CASE KickDelete(w) \/ KickCount(w) \/ RoleUpdate(w)
  BY <1>6 DEF KickDelete, KickCount, RoleUpdate, SetCount, SetRole
<1>7. CASE DeleteServer(w) \/ DeleteAccount(w)
  BY <1>7 DEF DeleteServer, DeleteAccount
<1>8. QED
  BY <1>1, <1>2, <1>3, <1>4, <1>5, <1>6, <1>7 DEF Step

LEMMA ReignStep ==
    ASSUME ReignInv, NEW w \in Workers, Step(w)
    PROVE  Reigns' /\ Founder'
<1>0. /\ TypeOK /\ ReferentialIntegrity /\ Lifecycle /\ Reigns /\ Founder
      /\ pc[w] \notin LeaveStatements
  BY DEF ReignInv, RefInv, NoLeaves
<1>s. \A v \in Workers \ {w} : pc'[v] = pc[v] /\ req'[v] = req[v]
  BY ReignSlots
<1>a. ASSUME phase' = "gone" PROVE Reigns' /\ Founder'
  BY <1>a DEF Reigns, Founder
<1>b. ASSUME UNCHANGED <<phase, owner, memberRows>>, pc'[w] \notin {"kick_delete", "role_update"},
             pc'[w] # "create_member"
      PROVE  Reigns' /\ Founder'
  BY <1>b, <1>s, ReignStays DEF memberRows
<1>c. pc'[w] \in {"kick_delete", "role_update"} => KickTarget(w) \/ RoleTarget(w)
  BY ReignSlots
<1>d. pc'[w] = "create_member" => CreateServer(w)
  BY ReignSlots
<1>1. CASE CreateServer(w)
  <2>1. CASE Reply(w) /\ Unchanged
    <3>1. pc'[w] = "idle"
      BY <1>0, <2>1 DEF Reply, Keep, TypeOK
    <3>2. QED
      BY <2>1, <3>1, <1>b DEF Unchanged, serverRow
  <2>2. CASE phase = "absent" /\ phase' = "new" /\ owner' = req[w].actor /\ UNCHANGED req
    <3>1. \A v \in Workers \ {w} : pc'[v] # "create_member"
      BY <1>0, <1>s, <2>2 DEF Lifecycle
    <3>2. QED
      BY <2>2, <3>1 DEF Reigns, Founder
  <2>3. QED BY <1>1, <2>1, <2>2 DEF CreateServer, Goto
<1>2. CASE CreateMember(w)
  <2>0. pc'[w] = "idle" /\ pc[w] = "create_member"
    BY <1>0, <1>2 DEF CreateMember, Reply, Keep, TypeOK
  <2>1. CASE Unchanged
    BY <2>0, <2>1, <1>b DEF Unchanged, serverRow
  <2>2. CASE /\ CanInsert(req[w].actor) /\ InsertMember(req[w].actor, "admin")
             /\ phase' = "live" /\ owner' = owner
    <3>1. phase = "new" /\ Members = {} /\ owner = req[w].actor
      BY <1>0, <2>0, <2>2 DEF CanInsert, Lifecycle, ReferentialIntegrity, Founder
    <3>2. owner \in Users
      BY <1>0, <2>0, <3>1 DEF TypeOK
    <3>3. role'[owner] = "admin" /\ older'[owner] = {}
      BY <1>0, <2>2, <3>1, <3>2 DEF InsertMember, TypeOK
    <3>4. Oldest(owner)' /\ role'[owner'] = "admin"
      BY <2>2, <3>2, <3>3 DEF Oldest, Members
    <3>5. \A v \in Workers : pc'[v] \notin {"kick_delete", "role_update"}
      BY <1>0, <1>s, <2>0, <3>1 DEF Lifecycle
    <3>6. QED
      BY <2>2, <3>4, <3>5 DEF Reigns, Founder
  <2>3. QED BY <1>2, <2>1, <2>2 DEF CreateMember
<1>3. CASE InviteRole(w) \/ InviteUpdate(w)
  <2>1. UNCHANGED <<phase, owner, memberRows>>
    BY <1>3 DEF InviteRole, InviteUpdate, Unchanged, serverRow
  <2>2. ~(KickTarget(w) \/ RoleTarget(w) \/ CreateServer(w))
    BY <1>3 DEF InviteRole, InviteUpdate, KickTarget, RoleTarget, CreateServer
  <2>3. QED BY <2>1, <2>2, <1>b, <1>c, <1>d
<1>4. CASE JoinServer(w) \/ JoinExisting(w) \/ JoinCount(w)
  <2>1. UNCHANGED <<phase, owner, memberRows>>
    BY <1>4 DEF JoinServer, JoinExisting, JoinCount, Unchanged, serverRow
  <2>2. ~(KickTarget(w) \/ RoleTarget(w) \/ CreateServer(w))
    BY <1>4 DEF JoinServer, JoinExisting, JoinCount, KickTarget, RoleTarget, CreateServer
  <2>3. QED BY <2>1, <2>2, <1>b, <1>c, <1>d
<1>5. CASE JoinInsert(w)
  <2>0. ~(KickTarget(w) \/ RoleTarget(w) \/ CreateServer(w))
    BY <1>5 DEF JoinInsert, KickTarget, RoleTarget, CreateServer
  <2>1. CASE Reply(w) /\ Unchanged
    BY <2>0, <2>1, <1>b, <1>c, <1>d DEF Unchanged, serverRow
  <2>2. CASE /\ CanInsert(req[w].actor) /\ InsertMember(req[w].actor, "member")
             /\ UNCHANGED serverRow
    <3>1. phase' = phase /\ owner' = owner
      BY <2>2 DEF serverRow
    <3>2. ASSUME phase = "live" PROVE role'[owner] = role[owner] /\ older'[owner] = older[owner]
      <4>1. owner \in Users /\ owner # req[w].actor
        BY <1>0, <2>2, <3>2 DEF Reigns, Oldest, Members, CanInsert
      <4>2. QED BY <1>0, <2>2, <4>1 DEF InsertMember, TypeOK
    <3>3. QED
      BY <2>0, <3>1, <3>2, <1>c, <1>d, <1>s, ReignStays
  <2>3. QED BY <1>5, <2>1, <2>2 DEF JoinInsert
<1>6. CASE KickTarget(w) \/ RoleTarget(w)
  <2>1. UNCHANGED <<phase, owner, memberRows>>
    BY <1>6 DEF KickTarget, RoleTarget, CheckTarget, Unchanged, serverRow
  <2>2. ~CreateServer(w)
    BY <1>6 DEF KickTarget, RoleTarget, CreateServer
  <2>3. ASSUME phase = "live", pc'[w] \in {"kick_delete", "role_update"}
        PROVE  req'[w].target # owner
    <3>1. canManageRole(req[w].seen, role[req[w].target]) /\ req'[w] = req[w]
      BY <1>0, <1>6, <2>3 DEF KickTarget, RoleTarget, CheckTarget, Reply, Keep, Goto, TypeOK
    <3>2. req[w] \in RequestType
      BY <1>0 DEF TypeOK
    <3>3. req[w].seen \in Roles \cup {"none"}
      BY <3>2, RequestTypes
    <3>4. role[owner] = "admin" /\ "admin" \in Roles \cup {"none"}
      BY <1>0, <2>3 DEF Reigns, Roles
    <3>5. QED
      BY <3>1, <3>3, <3>4, NoneAboveAdmin
  <2>4. QED
    BY <2>1, <2>2, <2>3, <1>d, <1>s, ReignStays DEF memberRows
<1>7. CASE KickActor(w) \/ RoleActor(w) \/ KickCount(w)
  <2>1. UNCHANGED <<phase, owner, memberRows>>
    BY <1>7 DEF KickActor, RoleActor, ReadActor, KickCount, Unchanged, serverRow
  <2>2. ~(KickTarget(w) \/ RoleTarget(w) \/ CreateServer(w))
    BY <1>7 DEF KickActor, RoleActor, KickCount, KickTarget, RoleTarget, CreateServer
  <2>3. QED BY <2>1, <2>2, <1>b, <1>c, <1>d
<1>8. CASE KickDelete(w) \/ RoleUpdate(w)
  <2>1. ~(KickTarget(w) \/ RoleTarget(w) \/ CreateServer(w))
    BY <1>8 DEF KickDelete, RoleUpdate, KickTarget, RoleTarget, CreateServer
  <2>2. phase' = phase /\ owner' = owner
    BY <1>8 DEF KickDelete, RoleUpdate, SetRole, serverRow
  <2>3. ASSUME phase = "live"
        PROVE  role'[owner] = role[owner] /\ older'[owner] \subseteq older[owner]
    <3>1. owner \in Users /\ owner # req[w].target
      BY <1>0, <1>8, <2>3 DEF KickDelete, RoleUpdate, Reigns, Oldest, Members
    <3>2. CASE KickDelete(w)
      BY <3>1, <3>2 DEF KickDelete, DeleteMembers
    <3>3. CASE RoleUpdate(w)
      BY <1>0, <3>1, <3>3 DEF RoleUpdate, SetRole, TypeOK
    <3>4. QED BY <1>8, <3>2, <3>3
  <2>4. QED
    BY <2>1, <2>2, <2>3, <1>c, <1>d, <1>s, ReignStays
<1>9. CASE DeleteServer(w)
  <2>1. CASE DropServer
    BY <2>1, <1>a DEF DropServer
  <2>2. CASE UNCHANGED <<serverRow, memberRows>>
    <3>1. ~(KickTarget(w) \/ RoleTarget(w) \/ CreateServer(w))
      BY <1>9 DEF DeleteServer, KickTarget, RoleTarget, CreateServer
    <3>2. QED BY <2>2, <3>1, <1>b, <1>c, <1>d DEF serverRow
  <2>3. QED BY <1>9, <2>1, <2>2 DEF DeleteServer
<1>10. CASE DeleteAccount(w)
  <2>1. CASE DropServer
    BY <2>1, <1>a DEF DropServer
  <2>2. CASE owner # req[w].actor /\ DeleteMembers({req[w].actor}) /\ UNCHANGED serverRow
    <3>1. ~(KickTarget(w) \/ RoleTarget(w) \/ CreateServer(w))
      BY <1>10 DEF DeleteAccount, KickTarget, RoleTarget, CreateServer
    <3>2. phase' = phase /\ owner' = owner
      BY <2>2 DEF serverRow
    <3>3. ASSUME phase = "live"
          PROVE  role'[owner] = role[owner] /\ older'[owner] \subseteq older[owner]
      <4>1. owner \in Users
        BY <1>0, <3>3 DEF Reigns, Oldest, Members
      <4>2. QED BY <2>2, <4>1 DEF DeleteMembers
    <3>4. QED
      BY <3>1, <3>2, <3>3, <1>c, <1>d, <1>s, ReignStays
  <2>3. QED BY <1>10, <2>1, <2>2 DEF DeleteAccount
<1>11. ~(\/ LeaveDelete(w) \/ LeaveCount(w) \/ LeaveOldest(w) \/ LeaveOwner(w)
         \/ LeavePromote(w) \/ LeaveDrop(w))
  BY <1>0 DEF LeaveDelete, LeaveCount, LeaveOldest, LeaveOwner, LeavePromote, LeaveDrop,
     LeaveStatements, LeaveSteps, Looking
<1>12. QED
  BY <1>1, <1>2, <1>3, <1>4, <1>5, <1>6, <1>7, <1>8, <1>9, <1>10, <1>11 DEF Step

\* As long as nobody leaves, the owner of a live server is its oldest member
\* and an admin, whatever number of joins, kicks, role changes and deletions
\* overlap, and wherever they fail: kick and role act on roles that may have
\* changed since, but never the owner's.
THEOREM OwnerReigns ==
    ASSUME "leave" \notin Ops
    PROVE  Spec => []SettledOwner
<1>1. Init => ReignInv
  BY RefInit DEF Init, ReignInv, NoLeaves, LeaveStatements, LeaveSteps, Looking, Reigns, Founder
<1>2. ReignInv /\ [Next]_vars => ReignInv'
  <2> SUFFICES ASSUME ReignInv, [Next]_vars PROVE NoLeaves' /\ Reigns' /\ Founder'
    BY RefNext DEF ReignInv
  <2>1. CASE UNCHANGED vars
    BY <2>1 DEF ReignInv, NoLeaves, Reigns, Founder, Oldest, Members, vars, serverRow, memberRows
  <2>2. ASSUME NEW w \in Workers, Step(w) PROVE NoLeaves' /\ Reigns' /\ Founder'
    <3>1. NoLeaves'
      BY <2>2, ReignSlots DEF ReignInv, NoLeaves
    <3>2. QED BY <2>2, <3>1, ReignStep
  <2>3. ASSUME NEW w \in Workers, Start(w) \/ Fault(w)
        PROVE  NoLeaves' /\ Reigns' /\ Founder'
    <3>0. TypeOK
      BY DEF ReignInv, RefInv
    <3>1. PICK s \in Endpoints \cup {"idle"} :
            pc' = [pc EXCEPT ![w] = s] /\ (s # "idle" => s \in Ops)
      BY <2>3, <3>0, SlotMoves
    <3>2. pc'[w] \notin LeaveStatements \cup {"create_member", "kick_delete", "role_update"}
      BY <3>0, <3>1 DEF Endpoints, LeaveStatements, LeaveSteps, Looking, TypeOK
    <3>3. \A v \in Workers \ {w} : pc'[v] = pc[v] /\ req'[v] = req[v]
      BY <2>3, <3>0 DEF Start, StartCreate, StartJoin, StartPlain, StartAccount, StartKick,
         StartRole, Begin, Fault, Reply, Keep, TypeOK
    <3>4. NoLeaves'
      BY <3>2, <3>3 DEF ReignInv, NoLeaves
    <3>5. UNCHANGED <<serverRow, memberRows>>
      BY <2>3, <3>0, SlotMoves
    <3>6. phase' = phase /\ owner' = owner /\ role'[owner] = role[owner]
          /\ older'[owner] \subseteq older[owner]
      BY <3>5 DEF serverRow, memberRows
    <3>7. Reigns' /\ Founder'
      BY <3>2, <3>3, <3>6, ReignStays
    <3>8. QED BY <3>4, <3>7
  <2>4. QED BY <2>1, <2>2, <2>3 DEF Next
<1>3. ReignInv => SettledOwner
  BY DEF ReignInv, Reigns, SettledOwner
<1>4. QED BY <1>1, <1>2, <1>3, PTL DEF Spec
=============================================================================
