---------------------------- MODULE ChannelKeys -----------------------------
(***************************************************************************)
(* The channels of one server and their keys: the tables channels and      *)
(* channel_keys, the handlers of routes/channels.js and rotate-keys of     *)
(* routes/servers.js that write them, and the calls of stores/servers.js   *)
(* that generate keys, keep them in the caller's IndexedDB and upload them *)
(* encrypted for the members it was told of.                               *)
(*                                                                         *)
(* A slot runs one call: the page's part and the handlers that answer it,  *)
(* one statement or request a step.  rotate-keys is a transaction at READ  *)
(* COMMITTED: its rows are seen by others when it commits, a DELETE or an  *)
(* INSERT that meets an uncommitted row waits for its transaction.  What   *)
(* an account or the server takes with it (ON DELETE CASCADE) goes in one  *)
(* step, and what is left with nothing to refer to is refused.             *)
(***************************************************************************)
EXTENDS MemberTable, Naturals, Sequences, FiniteSets, FiniteSetsExt

CONSTANTS
    Creator,      \* who has just created the server with POST /api/servers
    MaxChannels,  \* bound on the channels created
    MaxKeys,      \* bound on the keys generated
    MaxChanges,   \* bound on what other routes do to members and accounts
    Opens,        \* the roles that new channels ask for
    Workers,      \* slots for calls in progress
    Ops,          \* the calls the pages of this instance make
    FaultPoints   \* the steps at which a call may be cut off

Calls == {"create", "general", "rotate", "leave"}
Steps == {"create_members", "create_list", "create_role", "create_insert",
          "create_keys", "create_store", "rotate_members", "rotate_list",
          "rotate_channels", "rotate_open", "rotate_store", "rotate_role",
          "rotate_max", "rotate_delete", "rotate_wait", "rotate_insert",
          "rotate_commit", "leave_clear"}

ASSUME ChannelKeysAssumption ==
    /\ Creator \in Users /\ IsFiniteSet(Users) /\ IsFiniteSet(Workers)
    /\ MaxChannels \in Nat /\ MaxKeys \in Nat /\ MaxChanges \in Nat
    /\ Opens \subseteq Roles
    /\ Ops \subseteq Calls
    /\ FaultPoints \subseteq Steps \cup {"no_list"}

VARIABLES
    gone,    \* users whose accounts have been deleted
    dropped, \* the server has been deleted, and its channels with it
    level,   \* channels rows by created_at: the role that opens the channel
             \* (required_role, "member" when it is not private)
    rows,    \* channel_keys rows that are committed
    made,    \* keys generated so far: for whom encrypted, by which call, and
             \* whether the server has taken it in
    local,   \* each user's channel keys in IndexedDB, 0 for none
    pc, req, \* next step of each slot, what its call keeps
    tx,      \* what the transaction of the slot has deleted and inserted
    changes, \* what other routes have done to members and accounts
    calm     \* history: the calls that write keys have run one at a time,
             \* were told the members, and were not refused or cut off, and
             \* the server is there

server == <<level, rows>>
members == <<role, gone, dropped, changes>>
vars == <<role, gone, dropped, changes, server, made, local, pc, req, tx, calm>>

Channels == 1..MaxChannels
Row == [chan : Channels, user : Users, version : Nat \ {0}, key : 1..MaxKeys]
Key == [for : SUBSET Users, by : {"create", "rotate"}, up : BOOLEAN]
\* opens is the role a new channel asks for, as the one its caller has.
Request == [actor : Users, op : Calls, list : SUBSET Users, opens : Roles,
            as : Roles, todo : SUBSET Channels, next : Nat,
            key : UNION {[S -> 1..MaxKeys] : S \in SUBSET (0..MaxChannels)}]
NoTx == [del |-> {}, ins |-> {}, seen |-> {}]
Idle == [actor |-> Creator, op |-> "create", list |-> {}, opens |-> "member",
         as |-> "member", todo |-> {}, next |-> 0, key |-> << >>]

TypeOK ==
    /\ role \in [Users -> Roles \cup {"none"}]
    /\ gone \subseteq Users /\ dropped \in BOOLEAN
    /\ level \in Seq(Roles) /\ Len(level) <= MaxChannels
    /\ rows \subseteq Row
    /\ made \in Seq(Key) /\ Len(made) <= MaxKeys
    /\ local \in [Users -> [Channels -> 0..MaxKeys]]
    /\ pc \in [Workers -> Steps \cup {"idle"}]
    /\ req \in [Workers -> Request]
    /\ tx \in [Workers -> [del : SUBSET Row, ins : SUBSET Row, seen : SUBSET Row]]
    /\ changes \in 0..MaxChanges /\ calm \in BOOLEAN

Init ==
    /\ role = [u \in Users |-> IF u = Creator THEN "admin" ELSE "none"]
    /\ gone = {} /\ dropped = FALSE
    /\ level = << >> /\ rows = {} /\ made = << >>
    /\ local = [u \in Users |-> [c \in Channels |-> 0]]
    /\ pc = [w \in Workers |-> "idle"] /\ req = [w \in Workers |-> Idle]
    /\ tx = [w \in Workers |-> NoTx]
    /\ changes = 0 /\ calm = TRUE

roleRank == [admin |-> 3, moderator |-> 2, member |-> 1, none |-> 0]
RowsOf(c) == {r \in rows : r.chan = c}
Top(c) == Max({0} \cup {r.version : r \in RowsOf(c)})

\* One row of channel_keys for each user in S.
RowsFor(S, c, v, k) == {[chan |-> c, user |-> u, version |-> v, key |-> k] : u \in S}

\* generateChannelKey for the channels of S, in order; encryptChannelKey for
\* the users in L.
FreshKeys(S) == [c \in S |-> Len(made) + Cardinality({d \in S : d <= c})]
Generate(S, L, op) ==
    made' = made \o [i \in 1..Cardinality(S) |-> [for |-> L, by |-> op, up |-> FALSE]]
Uploaded(ks) == made' = [k \in DOMAIN made |->
                            IF k \in ks THEN [made[k] EXCEPT !.up = TRUE] ELSE made[k]]

\* UNIQUE(channel_id, user_id, key_version): S clashes with rows T.
Twins(S, T) == \E r \in S, q \in T :
    r.chan = q.chan /\ r.user = q.user /\ r.version = q.version
\* The transaction of another slot has not yet decided on such a row.
Undecided(w, S) == \E v \in Workers \ {w} : Twins(S, tx[v].del \cup tx[v].ins)
Locked(w, S) == \E v \in Workers \ {w} : S \cap tx[v].del # {}

-----------------------------------------------------------------------------
(* Calls.                                                                  *)

Goto(w, s) == pc' = [pc EXCEPT ![w] = s]
Keep(w, s, r) == Goto(w, s) /\ req' = [req EXCEPT ![w] = r]
EndHolding(w) == Keep(w, "idle", Idle) /\ UNCHANGED tx   \* mutant
\* The call returns or throws; a transaction still open is rolled back.
End(w) == Keep(w, "idle", Idle) /\ tx' = [tx EXCEPT ![w] = NoTx]

Begin(w, op, u, first, opens) ==
    /\ pc[w] = "idle" /\ op \in Ops
    /\ Keep(w, first, [Idle EXCEPT !.actor = u, !.op = op, !.opens = opens])
    /\ calm' = (calm /\ \A v \in Workers : pc[v] = "idle")
    /\ UNCHANGED <<members, server, made, local, tx>>

\* A call starts while the bounds leave it a channel and keys.
Creating == {w \in Workers : pc[w] \in {"create_members", "create_list",
                                      "create_role", "create_insert"}}
ToGenerate == {w \in Workers : pc[w] \in {"create_members", "create_list",
                                        "rotate_members", "rotate_list",
                                        "rotate_channels", "rotate_open"}}
RoomForChannel == Len(level) + Cardinality(Creating) < MaxChannels
RoomForKeys == Len(made) + (Cardinality(ToGenerate) + 1) * MaxChannels <= MaxKeys

StartCreate(w) ==
    /\ RoomForChannel /\ RoomForKeys
    /\ \E u \in Users, r \in Opens : Begin(w, "create", u, "create_members", r)
\* createServer goes on to make the channel "general".
StartGeneral(w) ==
    /\ RoomForChannel /\ RoomForKeys /\ level = << >>
    /\ Begin(w, "general", Creator, "create_members", "member")
StartRotate(w) ==
    /\ RoomForKeys
    /\ \E u \in Users : Begin(w, "rotate", u, "rotate_members", "member")

\* GET /api/servers/:id/members and GET /api/channels look for the caller's row
\* and then read the list.  A refusal or an error has no list, which the callers
\* take for an empty one: they do not look at the status.
NoList == IF "no_list" \in FaultPoints THEN {{}} ELSE {}

CreateTold(w, L) ==
    /\ Generate({0}, L, "create")
    /\ Keep(w, "create_role", [req[w] EXCEPT !.list = L, !.key = FreshKeys({0})])
    /\ calm' = (calm /\ L # {})

CreateMembers(w) ==
    /\ pc[w] = "create_members"
    /\ IF req[w].actor \in Members
       THEN Goto(w, "create_list") /\ UNCHANGED <<made, req, calm>>
       ELSE CreateTold(w, {})
    /\ UNCHANGED <<members, server, local, tx>>
CreateList(w) ==
    /\ pc[w] = "create_list"
    /\ \E L \in {Members} \cup NoList : CreateTold(w, L)
    /\ UNCHANGED <<members, server, local, tx>>

CreateRole(w) ==
    /\ pc[w] = "create_role"
    /\ IF role[req[w].actor] \in {"admin", "moderator"}
       THEN Goto(w, "create_insert") /\ UNCHANGED <<req, tx, calm>>
       ELSE End(w) /\ calm' = FALSE
    /\ UNCHANGED <<members, server, made, local>>

CreateInsertNoKeys(w) ==                              \* mutant
    /\ pc[w] = "create_insert"
    /\ level' = Append(level, req[w].opens)
    /\ LET c == Len(level) + 1
           k == req[w].key[0]
       IN  Keep(w, "create_keys", [req[w] EXCEPT !.key = [d \in {c} |-> k], !.todo = {c},
                                                 !.list = {}])
    /\ UNCHANGED <<members, rows, made, local, tx, calm>>
\* INSERT INTO channels ... RETURNING id; without the server it is refused.
CreateInsert(w) ==
    /\ pc[w] = "create_insert"
    /\ IF dropped
       THEN End(w) /\ calm' = FALSE /\ UNCHANGED <<level, made>>
       ELSE LET c == Len(level) + 1
                k == req[w].key[0]
            IN  /\ level' = Append(level, req[w].opens)
                /\ Keep(w, "create_keys", [req[w] EXCEPT !.key = [d \in {c} |-> k],
                                                         !.todo = {c}])
                /\ Uploaded({k})
                /\ UNCHANGED <<tx, calm>>
    /\ UNCHANGED <<members, rows, local>>

\* What channel_keys refers to: the channel and the user have to be there.
Lost(u) == dropped \/ u \in gone

\* INSERT INTO channel_keys ... key_version 1, one member at a time.
CreateKeys(w) ==
    /\ pc[w] = "create_keys"
    /\ LET c == Max(req[w].todo)
           row(u) == RowsFor({u}, c, 1, req[w].key[c])
       IN  \/ /\ req[w].list = {}
              /\ IF req[w].op = "create"
                 THEN Goto(w, "create_store") /\ UNCHANGED <<req, tx>>
                 ELSE End(w)
              /\ UNCHANGED <<rows, calm>>
           \/ \E u \in req[w].list :
                 /\ ~Undecided(w, row(u))
                 /\ IF Lost(u) \/ Twins(row(u), rows)
                    THEN End(w) /\ calm' = FALSE /\ UNCHANGED rows
                    ELSE /\ rows' = rows \cup row(u)
                         /\ req' = [req EXCEPT ![w].list = @ \ {u}]
                         /\ UNCHANGED <<pc, tx, calm>>
    /\ UNCHANGED <<members, level, made, local>>

\* storeChannelKey(serverId, channelId, ...); createServer stores it under the
\* name "general" instead, which no lookup uses.
CreateStore(w) ==
    /\ pc[w] = "create_store"
    /\ LET c == Max(req[w].todo)
       IN  local' = [local EXCEPT ![req[w].actor][c] = req[w].key[c]]
    /\ End(w)
    /\ UNCHANGED <<members, server, made, calm>>

RotateTold(w, L) ==
    /\ Keep(w, "rotate_channels", [req[w] EXCEPT !.list = L])
    /\ calm' = (calm /\ L # {})

RotateMembers(w) ==
    /\ pc[w] = "rotate_members"
    /\ IF req[w].actor \in Members
       THEN Goto(w, "rotate_list") /\ UNCHANGED <<req, calm>>
       ELSE RotateTold(w, {})
    /\ UNCHANGED <<members, server, made, local, tx>>
RotateList(w) ==
    /\ pc[w] = "rotate_list"
    /\ \E L \in {Members} \cup NoList : RotateTold(w, L)
    /\ UNCHANGED <<members, server, made, local, tx>>

\* The channels open to a role, and then, before any of it is uploaded, a new
\* key for each.
OpenTo(r) == {c \in DOMAIN level : ~dropped /\ roleRank[r] >= roleRank[level[c]]}
Renew(w, S) ==
    /\ Generate(S, req[w].list, "rotate")
    /\ Keep(w, "rotate_store", [req[w] EXCEPT !.key = FreshKeys(S), !.todo = S])

RotateChannels(w) ==
    /\ pc[w] = "rotate_channels"
    /\ LET u == req[w].actor
       IN  IF u \in Members
           THEN Keep(w, "rotate_open", [req[w] EXCEPT !.as = role[u]]) /\ UNCHANGED made
           ELSE Renew(w, {})
    /\ UNCHANGED <<members, server, local, tx, calm>>
RotateOpen(w) ==
    /\ pc[w] = "rotate_open"
    /\ \E S \in {OpenTo(req[w].as)} \cup NoList : Renew(w, S)
    /\ UNCHANGED <<members, server, local, tx, calm>>

RotateStore(w) ==
    /\ pc[w] = "rotate_store"
    /\ IF req[w].todo = {}
       THEN /\ Keep(w, "rotate_role", [req[w] EXCEPT !.todo = DOMAIN req[w].key])
            /\ UNCHANGED local
       ELSE LET c == Min(req[w].todo)
            IN  /\ local' = [local EXCEPT ![req[w].actor][c] = req[w].key[c]]
                /\ Keep(w, "rotate_store", [req[w] EXCEPT !.todo = @ \ {c}])
    /\ UNCHANGED <<members, server, made, tx, calm>>

\* The next channel of the request's channelKeys, or COMMIT.
NextChannel(todo) == IF todo = {} THEN "rotate_commit" ELSE "rotate_max"

RotateRole(w) ==
    /\ pc[w] = "rotate_role"
    /\ IF role[req[w].actor] = "admin"
       THEN Goto(w, NextChannel(req[w].todo)) /\ UNCHANGED <<req, tx, calm>>
       ELSE End(w) /\ calm' = FALSE
    /\ UNCHANGED <<members, server, made, local>>

Chan(w) == Min(req[w].todo)

RotateMaxSame(w) ==                                   \* mutant
    /\ pc[w] = "rotate_max"
    /\ Keep(w, "rotate_delete", [req[w] EXCEPT !.next = Top(Chan(w))])
    /\ UNCHANGED <<members, server, made, local, tx, calm>>
RotateMaxOne(w) ==                                    \* mutant
    /\ pc[w] = "rotate_max"
    /\ Keep(w, "rotate_delete", [req[w] EXCEPT !.next = 1])
    /\ UNCHANGED <<members, server, made, local, tx, calm>>
RotateMax(w) ==
    /\ pc[w] = "rotate_max"
    /\ Keep(w, "rotate_delete", [req[w] EXCEPT !.next = Top(Chan(w)) + 1])
    /\ UNCHANGED <<members, server, made, local, tx, calm>>

RotateDeleteNone(w) ==                                \* mutant
    /\ pc[w] = "rotate_delete"
    /\ Goto(w, "rotate_insert")
    /\ UNCHANGED <<members, server, made, local, req, tx, calm>>
RotateDeleteListed(w) ==                              \* mutant
    /\ pc[w] = "rotate_delete"
    /\ LET S == {r \in RowsOf(Chan(w)) : r.user \in req[w].list}
       IN  IF Locked(w, S)
           THEN Goto(w, "rotate_wait") /\ tx' = [tx EXCEPT ![w].seen = S]
           ELSE Goto(w, "rotate_insert") /\ tx' = [tx EXCEPT ![w].del = @ \cup S]
    /\ UNCHANGED <<members, server, made, local, req, calm>>
\* DELETE FROM channel_keys WHERE channel_id: the rows it sees when it starts.
\* It waits for another transaction that is deleting one of them.
RotateDelete(w) ==
    /\ pc[w] = "rotate_delete"
    /\ LET S == RowsOf(Chan(w))
       IN  IF Locked(w, S)
           THEN Goto(w, "rotate_wait") /\ tx' = [tx EXCEPT ![w].seen = S]
           ELSE Goto(w, "rotate_insert") /\ tx' = [tx EXCEPT ![w].del = @ \cup S]
    /\ UNCHANGED <<members, server, made, local, req, calm>>

\* The other has ended: what it deleted is skipped, what it inserted not seen.
RotateWait(w) ==
    /\ pc[w] = "rotate_wait" /\ ~Locked(w, tx[w].seen)
    /\ tx' = [tx EXCEPT ![w].del = @ \cup (tx[w].seen \cap rows), ![w].seen = {}]
    /\ Goto(w, "rotate_insert")
    /\ UNCHANGED <<members, server, made, local, req, calm>>

NewRows(w, S) == RowsFor(S, Chan(w), req[w].next, req[w].key[Chan(w)])
Left(w) == req[w].list \ {r.user : r \in {q \in tx[w].ins : q.chan = Chan(w)}}

\* INSERT for one encrypted key after the other; a duplicate, or a user or a
\* channel that is no longer there, throws and rolls all back.
RotateInsert(w) ==
    /\ pc[w] = "rotate_insert"
    /\ \/ /\ Left(w) = {}
          /\ LET todo == req[w].todo \ {Chan(w)}
             IN  Keep(w, NextChannel(todo), [req[w] EXCEPT !.todo = todo])
          /\ UNCHANGED <<tx, calm>>
       \/ \E u \in Left(w) :
             /\ ~Undecided(w, NewRows(w, {u}))
             /\ IF Lost(u) \/ Twins(NewRows(w, {u}), rows \ tx[w].del)
                THEN End(w) /\ calm' = FALSE
                ELSE /\ tx' = [tx EXCEPT ![w].ins = @ \cup NewRows(w, {u})]
                     /\ UNCHANGED <<pc, req, calm>>
    /\ UNCHANGED <<members, server, made, local>>

\* Two transactions wait for each other's rows: PostgreSQL cancels a statement
\* of one of them.
WaitsFor(w, v) ==
    /\ w # v
    /\ \/ pc[w] = "rotate_wait" /\ tx[w].seen \cap tx[v].del # {}
       \/ pc[w] = "rotate_insert" /\ Twins(NewRows(w, Left(w)), tx[v].del \cup tx[v].ins)
Deadlock(w) ==
    /\ \E v \in Workers : WaitsFor(w, v) /\ WaitsFor(v, w)
    /\ End(w) /\ calm' = FALSE
    /\ UNCHANGED <<members, server, made, local>>

RotateCommit(w) ==
    /\ pc[w] = "rotate_commit"
    /\ rows' = (rows \ tx[w].del) \cup tx[w].ins
    /\ Uploaded({req[w].key[c] : c \in DOMAIN req[w].key})
    /\ End(w)
    /\ UNCHANGED <<members, level, local, calm>>

\* leaveServer: POST /leave takes the caller's row, then clearServerKeys.
StartLeave(w) ==
    /\ pc[w] = "idle" /\ "leave" \in Ops
    /\ changes < MaxChanges /\ changes' = changes + 1
    /\ \E u \in Users :
          /\ Remove(u)
          /\ Keep(w, "leave_clear", [Idle EXCEPT !.actor = u, !.op = "leave"])
    /\ UNCHANGED <<gone, dropped, server, made, local, tx, calm>>
LeaveClear(w) ==
    /\ pc[w] = "leave_clear"
    /\ local' = [local EXCEPT ![req[w].actor] = [c \in Channels |-> 0]]
    /\ End(w)
    /\ UNCHANGED <<members, server, made, calm>>

\* Fetch rejects, a statement throws, the page goes away.
CutOff(w) ==
    /\ pc[w] \in FaultPoints
    /\ End(w) /\ calm' = FALSE
    /\ UNCHANGED <<members, server, made, local>>

\* The other routes of the server, as far as the members go: joinServer,
\* kickMember and changeRole of the store get no further than their request.
OtherRoutes ==
    /\ changes < MaxChanges /\ changes' = changes + 1
    /\ \E u \in Users :
          \/ ~Lost(u) /\ Join(u)
          \/ Remove(u)
          \/ \E r \in Roles : SetRole(u, r)
    /\ UNCHANGED <<gone, dropped, server, made, local, pc, req, tx, calm>>

\* DELETE /api/auth/account takes the user's row of server_members and those of
\* channel_keys along.  It waits for a rotation that has deleted or inserted one.
DeleteAccount ==
    /\ changes < MaxChanges /\ changes' = changes + 1
    /\ \E u \in Users \ gone :
          /\ \A w \in Workers : \A r \in tx[w].del \cup tx[w].ins : r.user # u
          /\ gone' = gone \cup {u} /\ Put(u, "none")
          /\ rows' = {r \in rows : r.user # u}
    /\ UNCHANGED <<dropped, level, made, local, pc, req, tx, calm>>

\* DELETE of the server, by its owner or with the owner's account: the channels
\* go along and, of each, the keys.  level stays as a record of the ids used.
DropServer ==
    /\ changes < MaxChanges /\ changes' = changes + 1
    /\ ~dropped /\ dropped' = TRUE
    /\ \A w \in Workers : tx[w].del \cup tx[w].ins = {}
    /\ Drop /\ rows' = {} /\ calm' = FALSE
    /\ UNCHANGED <<gone, level, made, local, pc, req, tx>>

Step(w) ==
    \/ CreateMembers(w) \/ CreateList(w) \/ CreateRole(w) \/ CreateInsert(w)
    \/ CreateKeys(w) \/ CreateStore(w)
    \/ RotateMembers(w) \/ RotateList(w) \/ RotateChannels(w) \/ RotateOpen(w)
    \/ RotateStore(w) \/ RotateRole(w) \/ RotateMax(w) \/ RotateDelete(w)
    \/ RotateWait(w) \/ RotateInsert(w) \/ Deadlock(w) \/ RotateCommit(w)
    \/ LeaveClear(w)

Next ==
    \/ \E w \in Workers : \/ StartCreate(w) \/ StartGeneral(w) \/ StartRotate(w)
                         \/ StartLeave(w) \/ Step(w) \/ CutOff(w)
    \/ OtherRoutes \/ DeleteAccount \/ DropServer

Spec == Init /\ [][Next]_vars

\* Requests are answered, statements return and deadlocks are broken: a call
\* that can go on does.
FairSpec == Spec /\ \A w \in Workers : WF_vars(Step(w))

-----------------------------------------------------------------------------
(* Properties.                                                             *)

Quiet == \A w \in Workers : pc[w] = "idle"
Holders(k) == {r.user : r \in {q \in rows : q.key = k}}

\* However rotations overlap, wait for each other and fail, and whatever members
\* and accounts go meanwhile, the key of a rotation has a row for each member it
\* was made for whose account is there, or none at all: nobody sees a rotation
\* by halves (BEGIN ... COMMIT of rotate-keys, and the users of channel_keys).
RotationWhole ==
    \A k \in DOMAIN made :
        made[k].by = "rotate" => Holders(k) \in {{}, made[k].for \ gone}

\* Where calls have run one at a time, undisturbed, every channel has exactly
\* one key on the server, in one version, for all its recipients that still have
\* an account: nothing of an older rotation or of the creation is left behind.
OneKeyEach ==
    calm /\ Quiet =>
        \A c \in DOMAIN level : \E k \in DOMAIN made, v \in 1..MaxKeys :
            made[k].for # {} /\ RowsOf(c) = RowsFor(made[k].for \ gone, c, v, k)

\* In the same case a browser uses no key that the server never took in,
\* although storeChannelKey runs before the upload that may be refused.
KeptKeysUploaded ==
    calm /\ Quiet =>
        \A u \in Users, c \in Channels : local[u][c] # 0 => made[local[u][c]].up

\* ... and the rows of a channel only go with the accounts of their users, or
\* give way to a higher key_version: while a row of it is left, no version comes
\* back for another key.  (Once the last has gone with its account, MAX is 0 and
\* the next rotation starts again at 1.)
VersionsGrow ==
    [][calm' => \A c \in Channels :
          \/ RowsOf(c)' = {r \in RowsOf(c) : r.user \notin gone'}
          \/ Top(c)' > Top(c)
          \/ Top(c)' = Top(c) /\ RowsOf(c) \subseteq RowsOf(c)']_vars

\* A call that is refused, fails or is rolled back leaves no lock behind, so one
\* that waits for the rows of another gets on: every call ends.
CallsEnd == \A w \in Workers : pc[w] # "idle" ~> pc[w] = "idle"
=============================================================================
