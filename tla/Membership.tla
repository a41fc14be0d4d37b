----------------------------- MODULE Membership -----------------------------
(***************************************************************************)
(* One CypherChat server (a group) and its members: the tables servers and *)
(* server_members of schema.sql, and the handlers of routes/servers.js and *)
(* DELETE /api/auth/account of routes/auth.js that write them.             *)
(*                                                                         *)
(* A handler awaits one pool.query after another, without a transaction:   *)
(* every statement is one atomic step, and other handlers run between two  *)
(* of them.  pc[w] is the statement the handler in slot w runs next, req[w]*)
(* what it keeps in local variables.                                       *)
(***************************************************************************)
EXTENDS Naturals, FiniteSets

CONSTANTS
    Users,        \* accounts that may exist
    NoUser,       \* not an account: an owner or target that is not set
    Workers,      \* slots for requests in progress, reused when they reply
    MaxMembers,   \* MAX_MEMBERS, the cap stored in servers.max_members
    Ops,          \* the endpoints the clients of this instance call
    FaultPoints   \* the statements that may fail, which ends the handler

Roles == {"admin", "moderator", "member"}
Endpoints == {"create", "invite", "join", "leave", "kick", "role", "delete",
              "account"}
\* A request whose pc is the name of an endpoint runs its first statement.
Statements == Endpoints \cup
    {"create_member", "invite_update", "join_existing", "join_insert",
     "join_count", "leave_count", "leave_oldest", "leave_owner",
     "leave_promote", "leave_drop", "kick_target", "kick_delete",
     "kick_count", "role_target", "role_update"}

ASSUME MembershipAssumption ==
    /\ NoUser \notin Users
    /\ IsFiniteSet(Users)
    /\ IsFiniteSet(Workers) /\ Workers # {}
    /\ MaxMembers \in Nat \ {0}
    /\ Ops \subseteq Endpoints
    /\ FaultPoints \subseteq Statements

VARIABLES
    phase,     \* the servers row: "absent", "new" (no member yet, id not
               \* handed out), "live" or "gone"; a UUID never comes back
    owner,     \* owner_id
    count,     \* member_count
    invited,   \* invite_token_hash is set
    role,      \* server_members.role of each user, "none" without a row
    older,     \* the members whose joined_at precedes that of the user's row
    accounts,  \* users rows
    pc, req

serverRow == <<phase, owner, count, invited>>
memberRows == <<role, older>>
vars == <<serverRow, memberRows, accounts, pc, req>>

Members == {u \in Users : role[u] # "none"}
Oldest(u) == u \in Members /\ older[u] = {}   \* ORDER BY joined_at LIMIT 1

ROLE_HIERARCHY == [admin |-> 3, moderator |-> 2, member |-> 1, none |-> 0]
canManageRoleWeak(actorRole, targetRole) ==           \* mutant
    ROLE_HIERARCHY[actorRole] >= ROLE_HIERARCHY[targetRole]
canManageRole(actorRole, targetRole) ==
    ROLE_HIERARCHY[actorRole] > ROLE_HIERARCHY[targetRole]

NoRequest == [actor |-> NoUser, target |-> NoUser, newRole |-> "none",
              seen |-> "none"]
RequestType == [actor : Users \cup {NoUser}, target : Users \cup {NoUser},
                newRole : Roles \cup {"none"}, seen : Roles \cup {"none"}]

TypeOK ==
    /\ phase \in {"absent", "new", "live", "gone"}
    /\ owner \in Users \cup {NoUser}
    /\ count \in Nat
    /\ invited \in BOOLEAN
    /\ role \in [Users -> Roles \cup {"none"}]
    /\ older \in [Users -> SUBSET Users]
    /\ accounts \subseteq Users
    /\ pc \in [Workers -> Statements \cup {"idle"}]
    /\ req \in [Workers -> RequestType]
    /\ \A w \in Workers : pc[w] # "idle" => req[w].actor \in Users

Init ==
    /\ phase = "absent" /\ owner = NoUser /\ count = 0 /\ invited = FALSE
    /\ role = [u \in Users |-> "none"]
    /\ older = [u \in Users |-> {}]
    /\ accounts = Users
    /\ pc = [w \in Workers |-> "idle"]
    /\ req = [w \in Workers |-> NoRequest]

-----------------------------------------------------------------------------
(* What the statements do to the two tables.                               *)

\* INSERT INTO server_members: the foreign keys and UNIQUE(server_id,
\* user_id) must hold, or the statement throws.
CanInsertAnyone(u) == phase \in {"new", "live"} /\ role[u] = "none"   \* mutant
CanInsert(u) == phase \in {"new", "live"} /\ u \in accounts /\ role[u] = "none"
InsertMember(u, r) ==
    /\ role' = [role EXCEPT ![u] = r]
    /\ older' = [older EXCEPT ![u] = Members]

\* DELETE FROM server_members, for the rows of the users in S.
DeleteMembers(S) ==
    /\ role' = [u \in Users |-> IF u \in S THEN "none" ELSE role[u]]
    /\ older' = [u \in Users |-> IF u \in S THEN {} ELSE older[u] \ S]

\* DELETE FROM servers: ON DELETE CASCADE takes the member rows with it.
DropServer ==
    /\ phase' = "gone" /\ owner' = NoUser /\ count' = 0
    /\ invited' = FALSE
    /\ DeleteMembers(Users)

HasRoomOffByOne == count <= MaxMembers                \* mutant
HasRoom == count < MaxMembers

\* UPDATE servers SET member_count = ...: no row, no effect.
SetCount(n) == count' = IF phase = "live" THEN n ELSE count
\* GREATEST(0, member_count - 1)
CountDown == IF count = 0 THEN 0 ELSE count - 1

-----------------------------------------------------------------------------
(* Requests: one starts when authenticate has found the session of an      *)
(* existing account, and ends with a reply, an error reply or a fault.     *)

Goto(w, s) == pc' = [pc EXCEPT ![w] = s] /\ UNCHANGED req
Keep(w, s, r) == pc' = [pc EXCEPT ![w] = s] /\ req' = [req EXCEPT ![w] = r]
Reply(w) == Keep(w, "idle", NoRequest)

Unchanged == UNCHANGED <<serverRow, memberRows, accounts>>

\* Start the handler of op with this request.
Begin(w, op, u, t, r) ==
    /\ pc[w] = "idle" /\ op \in Ops /\ u \in accounts
    /\ Keep(w, op, [NoRequest EXCEPT !.actor = u, !.target = t, !.newRole = r])
    /\ Unchanged

\* The id of the server is known once its creator can list it.
Known == phase \in {"live", "gone"}

StartCreate(w) == phase = "absent" /\ \E u \in Users : Begin(w, "create", u, NoUser, "none")
StartJoin(w) == Known /\ \E u \in Users : Begin(w, "join", u, NoUser, "none")
StartPlain(w) ==
    /\ Known
    /\ \E op \in {"invite", "leave", "delete"}, u \in Users : Begin(w, op, u, NoUser, "none")
StartAccount(w) == \E u \in Users : Begin(w, "account", u, NoUser, "none")
StartKick(w) == Known /\ \E u, t \in Users : Begin(w, "kick", u, t, "none")
StartRoleUnchecked(w) ==                              \* mutant
    Known /\ \E u, t \in Users, r \in Roles \cup {"owner"} : Begin(w, "role", u, t, r)
StartRole(w) ==
    Known /\ \E u, t \in Users, r \in Roles : Begin(w, "role", u, t, r)

\* pool.query throws (no connection within connectionTimeoutMillis, a broken
\* connection, a crash of the process): the statements after it never run.
Fault(w) == pc[w] \in FaultPoints /\ Reply(w) /\ Unchanged

-----------------------------------------------------------------------------
(* POST /api/servers                                                       *)

CreateServer(w) ==
    /\ pc[w] = "create"
    /\ \/ /\ phase = "absent" /\ req[w].actor \in accounts
          /\ phase' = "new" /\ owner' = req[w].actor /\ count' = 1
          /\ Goto(w, "create_member") /\ UNCHANGED <<invited, memberRows, accounts>>
       \/ /\ phase # "absent" \/ req[w].actor \notin accounts
          /\ Reply(w) /\ Unchanged

CreateMember(w) ==
    /\ pc[w] = "create_member"
    /\ \/ /\ CanInsert(req[w].actor)
          /\ InsertMember(req[w].actor, "admin")
          /\ phase' = "live"
          /\ UNCHANGED <<owner, count, invited, accounts>>
       \/ ~CanInsert(req[w].actor) /\ Unchanged
    /\ Reply(w)

-----------------------------------------------------------------------------
(* POST /api/servers/:id/invite                                            *)

MayInvite(r) == r \in {"admin", "moderator"}

InviteRole(w) ==
    /\ pc[w] = "invite"
    /\ \/ MayInvite(role[req[w].actor]) /\ Goto(w, "invite_update")
       \/ ~MayInvite(role[req[w].actor]) /\ Reply(w)
    /\ Unchanged

InviteUpdate(w) ==
    /\ pc[w] = "invite_update"
    /\ invited' = (invited \/ phase = "live")
    /\ Reply(w)
    /\ UNCHANGED <<phase, owner, count, memberRows, accounts>>

-----------------------------------------------------------------------------
(* POST /api/servers/join: the count is read, compared, and raised by four *)
(* separate statements.                                                    *)

JoinServer(w) ==
    /\ pc[w] = "join"
    /\ \/ phase = "live" /\ invited /\ HasRoom /\ Goto(w, "join_existing")
       \/ phase = "live" /\ invited /\ ~HasRoom /\ Reply(w)
       \/ Reply(w)                    \* a token that matches no server: 404
    /\ Unchanged

JoinExisting(w) ==
    /\ pc[w] = "join_existing"
    /\ \/ role[req[w].actor] # "none" /\ Reply(w)
       \/ role[req[w].actor] = "none" /\ Goto(w, "join_insert")
    /\ Unchanged

JoinInsertAdmin(w) ==                                 \* mutant
    /\ pc[w] = "join_insert"
    /\ \/ /\ CanInsert(req[w].actor)
          /\ InsertMember(req[w].actor, "admin")
          /\ Goto(w, "join_count") /\ UNCHANGED <<serverRow, accounts>>
       \/ ~CanInsert(req[w].actor) /\ Reply(w) /\ Unchanged
JoinInsertOnly(w) ==                                  \* mutant
    /\ pc[w] = "join_insert"
    /\ \/ /\ CanInsert(req[w].actor)
          /\ InsertMember(req[w].actor, "member")
          /\ Reply(w) /\ UNCHANGED <<serverRow, accounts>>
       \/ ~CanInsert(req[w].actor) /\ Reply(w) /\ Unchanged
JoinInsert(w) ==
    /\ pc[w] = "join_insert"
    /\ \/ /\ CanInsert(req[w].actor)
          /\ InsertMember(req[w].actor, "member")
          /\ Goto(w, "join_count") /\ UNCHANGED <<serverRow, accounts>>
       \/ ~CanInsert(req[w].actor) /\ Reply(w) /\ Unchanged

JoinCount(w) ==
    /\ pc[w] = "join_count"
    /\ SetCount(count + 1)
    /\ Reply(w)
    /\ UNCHANGED <<phase, owner, invited, memberRows, accounts>>

-----------------------------------------------------------------------------
(* POST /api/servers/:id/leave                                             *)

LeaveDelete(w) ==
    /\ pc[w] = "leave"
    /\ \/ /\ req[w].actor \in Members
          /\ DeleteMembers({req[w].actor})
          /\ Goto(w, "leave_count") /\ UNCHANGED <<serverRow, accounts>>
       \/ req[w].actor \notin Members /\ Reply(w) /\ Unchanged

LeaveCount(w) ==
    /\ pc[w] = "leave_count"
    /\ SetCount(CountDown)
    /\ Goto(w, "leave_oldest")
    /\ UNCHANGED <<phase, owner, invited, memberRows, accounts>>

LeaveOldestAny(w) ==                                  \* mutant
    /\ pc[w] = "leave_oldest"
    /\ \/ \E heir \in Members : Keep(w, "leave_owner", [req[w] EXCEPT !.target = heir])
       \/ Members = {} /\ Goto(w, "leave_drop")
    /\ Unchanged
LeaveOldestKeeps(w) ==                                \* mutant
    /\ pc[w] = "leave_oldest"
    /\ \/ \E heir \in Users :
            /\ Oldest(heir)
            /\ Keep(w, "leave_owner", [req[w] EXCEPT !.target = heir])
       \/ Members = {} /\ Reply(w)
    /\ Unchanged
\* The successor is read here and written by the next two statements.
LeaveOldest(w) ==
    /\ pc[w] = "leave_oldest"
    /\ \/ \E heir \in Users :
            /\ Oldest(heir)
            /\ Keep(w, "leave_owner", [req[w] EXCEPT !.target = heir])
       \/ Members = {} /\ Goto(w, "leave_drop")
    /\ Unchanged

\* owner_id REFERENCES users(id): a deleted account makes the UPDATE throw.
LeaveOwner(w) ==
    /\ pc[w] = "leave_owner"
    /\ \/ /\ phase = "live" /\ req[w].target \in accounts
          /\ owner' = req[w].target
          /\ Goto(w, "leave_promote")
          /\ UNCHANGED <<phase, count, invited, memberRows, accounts>>
       \/ phase = "live" /\ req[w].target \notin accounts /\ Reply(w) /\ Unchanged
       \/ phase # "live" /\ Goto(w, "leave_promote") /\ Unchanged

\* UPDATE server_members SET role = r: no row, no effect.
SetRole(u, r) ==
    /\ role' = IF u \in Members THEN [role EXCEPT ![u] = r] ELSE role
    /\ UNCHANGED <<serverRow, older, accounts>>

LeavePromoteHalf(w) ==                                \* mutant
    /\ pc[w] = "leave_promote"
    /\ SetRole(req[w].target, "moderator")
    /\ Reply(w)
LeavePromote(w) ==
    /\ pc[w] = "leave_promote"
    /\ SetRole(req[w].target, "admin")
    /\ Reply(w)

LeaveDrop(w) ==
    /\ pc[w] = "leave_drop"
    /\ DropServer /\ Reply(w) /\ UNCHANGED accounts

-----------------------------------------------------------------------------
(* POST /api/servers/:id/kick                                              *)

\* SELECT role of the caller; kick and role go on with what it returned.
ReadActor(w, next) ==
    /\ \/ role[req[w].actor] = "none" /\ Reply(w)
       \/ /\ role[req[w].actor] # "none"
          /\ Keep(w, next, [req[w] EXCEPT !.seen = role[req[w].actor]])
    /\ Unchanged

\* SELECT role of the target, then canManageRole on the two roles read.
CheckTarget(w, next) ==
    LET target == role[req[w].target] IN
    /\ \/ target = "none" /\ Reply(w)
       \/ target # "none" /\ ~canManageRole(req[w].seen, target) /\ Reply(w)
       \/ /\ target # "none" /\ canManageRole(req[w].seen, target)
          /\ Goto(w, next)
    /\ Unchanged

KickActor(w) == pc[w] = "kick" /\ ReadActor(w, "kick_target")
KickTarget(w) == pc[w] = "kick_target" /\ CheckTarget(w, "kick_delete")

KickDeleteOnly(w) ==                                  \* mutant
    /\ pc[w] = "kick_delete"
    /\ DeleteMembers({req[w].target})
    /\ Reply(w) /\ UNCHANGED <<serverRow, accounts>>
\* The number of rows deleted is not looked at.
KickDelete(w) ==
    /\ pc[w] = "kick_delete"
    /\ DeleteMembers({req[w].target})
    /\ Goto(w, "kick_count") /\ UNCHANGED <<serverRow, accounts>>

KickCount(w) ==
    /\ pc[w] = "kick_count"
    /\ SetCount(CountDown)
    /\ Reply(w)
    /\ UNCHANGED <<phase, owner, invited, memberRows, accounts>>

-----------------------------------------------------------------------------
(* POST /api/servers/:id/role                                              *)

\* Only an admin assigns the admin role; anyone else passes through here.
MayAssign(actorRole, newRole) == newRole = "admin" => actorRole = "admin"

RoleActor(w) ==
    /\ pc[w] = "role"
    /\ \/ /\ MayAssign(role[req[w].actor], req[w].newRole)
          /\ ReadActor(w, "role_target")
       \/ /\ ~MayAssign(role[req[w].actor], req[w].newRole)
          /\ Reply(w) /\ Unchanged
RoleTarget(w) == pc[w] = "role_target" /\ CheckTarget(w, "role_update")
RoleUpdate(w) ==
    /\ pc[w] = "role_update"
    /\ SetRole(req[w].target, req[w].newRole)
    /\ Reply(w)

-----------------------------------------------------------------------------
(* DELETE /api/servers/:id and DELETE /api/auth/account                    *)

DeleteServer(w) ==
    /\ pc[w] = "delete"
    /\ \/ phase = "live" /\ owner = req[w].actor /\ DropServer
       \/ ~(phase = "live" /\ owner = req[w].actor) /\ UNCHANGED <<serverRow, memberRows>>
    /\ Reply(w) /\ UNCHANGED accounts

\* ON DELETE CASCADE: the servers the user owns, else only the member row;
\* member_count is not touched.
DeleteAccount(w) ==
    /\ pc[w] = "account"
    /\ accounts' = accounts \ {req[w].actor}
    /\ \/ owner = req[w].actor /\ DropServer
       \/ /\ owner # req[w].actor
          /\ DeleteMembers({req[w].actor}) /\ UNCHANGED serverRow
    /\ Reply(w)

-----------------------------------------------------------------------------
Start(w) ==
    \/ StartCreate(w) \/ StartJoin(w) \/ StartPlain(w)
    \/ StartAccount(w) \/ StartKick(w) \/ StartRole(w)

\* The next statement of the handler in slot w.
Step(w) ==
    \/ CreateServer(w) \/ CreateMember(w)
    \/ InviteRole(w) \/ InviteUpdate(w)
    \/ JoinServer(w) \/ JoinExisting(w) \/ JoinInsert(w) \/ JoinCount(w)
    \/ LeaveDelete(w) \/ LeaveCount(w) \/ LeaveOldest(w)
    \/ LeaveOwner(w) \/ LeavePromote(w) \/ LeaveDrop(w)
    \/ KickActor(w) \/ KickTarget(w) \/ KickDelete(w) \/ KickCount(w)
    \/ RoleActor(w) \/ RoleTarget(w) \/ RoleUpdate(w)
    \/ DeleteServer(w) \/ DeleteAccount(w)

Next == \E w \in Workers : Start(w) \/ Step(w) \/ Fault(w)

Spec == Init /\ [][Next]_vars

\* An awaited statement returns or throws: a handler does not stop half way.
FairSpec == Spec /\ \A w \in Workers : WF_vars(Step(w))

-----------------------------------------------------------------------------
(* Properties.                                                             *)

Quiet == \A w \in Workers : pc[w] = "idle"

\* The database keeps its references whatever the handlers interleave: an
\* UPDATE owner_id or an INSERT that was decided before an account or the
\* server went away must not leave a row that points to nothing.
ReferentialIntegrity ==
    /\ phase \in {"new", "live"} => owner \in accounts
    /\ Members \subseteq accounts
    /\ phase # "live" => Members = {}

\* Joins and leaves whose UPDATE of member_count is still to come.
Joining == {w \in Workers : pc[w] = "join_count"}
Leaving == {w \in Workers : pc[w] = "leave_count"}

\* member_count never understates the members: counting the joins and leaves
\* whose UPDATE is still to come, it is at least the number of rows.  Needs
\* that no kick runs beside another request (its UPDATE is unconditional) and
\* that no join fails between its INSERT and its UPDATE.
Ledger ==
    phase = "live" =>
        Cardinality(Members) + Cardinality(Leaving)
            <= count + Cardinality(Joining)

\* Joins that found room and have not inserted their row yet.
Admitted == {w \in Workers : pc[w] \in {"join_existing", "join_insert"}}

\* How far the read-then-insert of join can miss the cap: by one member for
\* each other request in progress, never more.
CapOvershoot ==
    Cardinality(Members) + Cardinality(Admitted)
        <= MaxMembers + (Cardinality(Workers) - 1)

\* README_PHASE3.md, "Member cap bypass | Atomic check-and-increment at 150":
\* there are never more members than the cap.
CapRespected == Cardinality(Members) <= MaxMembers

\* Between requests member_count is the number of rows of server_members, as
\* long as no account has been deleted (requests one at a time): ON DELETE
\* CASCADE takes the row of a deleted account and leaves the count.
SettledCount ==
    Quiet /\ phase = "live" /\ accounts = Users => count = Cardinality(Members)

\* Between requests the owner is the member who joined first, and an admin
\* (requests one at a time): leave may hand the server over although its
\* caller was not the owner, kick and role never touch the owner.
SettledOwner ==
    Quiet /\ phase = "live" => Oldest(owner) /\ role[owner] = "admin"

\* However leaves and joins interleave, once they are done a live server has
\* members and the one who joined first is an admin, although each leave
\* promotes a successor it read several statements earlier.
Succession ==
    Quiet /\ phase = "live" =>
        Members # {} /\ \A m \in Users : Oldest(m) => role[m] = "admin"

\* A server whose last member has left is deleted, or somebody joins it:
\* leave does not strand it between its statements.
LastOneOut == phase = "live" /\ Members = {} ~> phase = "gone" \/ Members # {}

\* An admin loses the role or the membership only by leaving, by deleting the
\* account, or with the server: no kick and no role change reaches an admin
\* (requests one at a time).
AdminsStepDownThemselves ==
    [][\A u \in Users : role[u] = "admin" /\ role'[u] # "admin" =>
          \/ phase' = "gone"
          \/ \E w \in Workers : pc[w] \in {"leave", "account"} /\ req[w].actor = u]_vars

Table == INSTANCE MemberTable

\* Other components see the members change one row at a time: whatever handlers
\* overlap, a member comes in as founder of an empty table or with the role
\* member, and nothing but the end of the server takes several rows at once.
\* ChannelKeys builds on this table.
ImplementsMemberTable == Table!TableSpec
=============================================================================
