# CypherChat: a TLA+ model

CypherChat is a Fastify server (`server/`) over PostgreSQL and a SvelteKit client
(`client/`) that keeps keys and history in IndexedDB.  This directory models what the
two do at the grain at which they interleave: one SQL statement, one IndexedDB
transaction.  Cryptography is abstract: a message, a challenge or a code is a value.

## The system

| Component | Code | State | Operations | What makes it correct | Module |
|---|---|---|---|---|---|
| Servers and members | `routes/servers.js` | `servers`, `server_members` | create, invite, join, leave, kick, role, rotate-keys, delete | the cap, the count, one owner who is a member, the role hierarchy | `Membership`, `MemberTable`, rotate-keys in `ChannelKeys` |
| Accounts, login, sessions | `routes/auth.js`, `middleware/auth.js` | `users`, `challenges`, `sessions` | register, challenge, verify, TOTP set-up, revoke, delete account | challenges and recovery codes work once, sessions end with the account, the right answer gets in | `Login` |
| Direct messages | `routes/messages.js`, `stores/messages.js`, `crypto/db.js` | `messages` rows, the IndexedDB array, the page's list | send, inbox, poll, store, erase | each message reaches the history once and in order; erased stays erased | `Inbox`, `Mailbox` |
| Channels and keys | `routes/channels.js`, rotate-keys, `crypto/groups.js`, `stores/serverMessages.js` | `channels`, `channel_keys`, `server_messages`, the page's list | create, list, send, fetch, rotate, poll | every channel has one key for all its recipients, a rotation is whole, the page shows what was sent | `ChannelKeys`, `ChannelView` |
| Client's server store | `stores/servers.js` | IndexedDB version 3, channel keys | create, rotate, leave, look up keys | a browser uses keys the server knows; one database version | `ChannelKeys`, `PageCalls` |
| Contacts | `routes/contacts.js`, `stores/contacts.js`, `crypto/db.js` | `contacts`, IndexedDB contacts, the page's list | search, add, list, remove | the three lists agree | `Contacts` |
| Encryption | `crypto/e2e.js`, `groups.js`, `keys.js`, `argon2.js` | none | encrypt, decrypt, derive | sizes show the bucket only; stripping undoes padding | `Padding`; the rest out of reach |
| Pages | `routes/**/*.svelte` | token, challenge held, selection, poll timer | the calls they make | part of the modules above | in part |
| Start-up, pool | `index.js`, `db.js` | connections | | a failing statement is an action | in part |

Components meet in the database (handlers of all routes run interleaved over the same rows,
without transactions except in rotate-keys) and in IndexedDB (a poll, a send and an erasure
of one device share one array; the contacts and the channel keys share one database whose
version two files disagree on).  `DELETE /api/auth/account` cascades from `users` into
`sessions`, `servers`, `server_members`, `channel_keys` and `server_messages`, and the
deletion of a server into `server_members`, `channels`, `channel_keys` and
`server_messages`: both are actions of `Membership`, `ChannelKeys` and `ChannelView`, and
the first of `Login`, each with the part it sees.  `messages`, `contacts` and `challenges`
name accounts by username hash, have no foreign key, and stay for whoever registers the name
next. The hazards, each at its line, are in `PROJECT.json`.

## Modules

**Membership** is one server and its two tables.  `phase`, `owner`, `count` and `invited`
are the `servers` row, `role` and `older` the `server_members` rows (`older[u]` are the
members that joined before `u`: `joined_at` up to order), `accounts` the `users` rows.
`pc[w]` is the next statement of the handler in slot `w`, `req[w]` its locals.  Each
`await pool.query` is an action (`JoinServer`, `JoinExisting`, `JoinInsert`, `JoinCount`
are the four of join); checks in plain JavaScript belong to the statement whose result
they look at.  Foreign keys, UNIQUE and ON DELETE CASCADE are in `CanInsert`,
`LeaveOwner`, `DropServer` and `DeleteAccount`.  `Fault` ends a handler before a statement
named in `FaultPoints`.  A UUID never comes back, so a server that is `gone` stays gone.

**Login** is one username.  Each page is a tab that awaits its calls; `held[p]` is the
challenge its login form keeps and `token[p]` its session.  A person types any password
and any code.  `HasCreatedAt` says whether `challenges` has the column `created_at` that
verify sorts by: `schema.sql` gives it none, so `FALSE` is the repository's own schema,
where verify cannot succeed, and `TRUE` is the table the query was written for, which the
other runs assume in order to look at the rest of the handler.  Ids, challenges and
recovery codes are fresh; a call starts only while enough of them are left.
The response a page sends is the HMAC over the challenge it holds, so it is right for a
row exactly when that row is the challenge held and the password is the account's.

**Inbox** is one account's direct messages, from the row to the IndexedDB arrays of its
devices.  `rows` is ordered by `sequence_number`.  A task is a run of `pollInbox` with the
inbox handler that answers it, or of `sendMessage`.  `storeMessage` is two actions
(`StoreRead`, `StorePut`) because it opens two transactions.  `EraseDevice` is
`deleteAccount` and `logout` of the settings page.  What `storeMessage` throws is caught for
each message, and the loop goes on with the next (`StoreError`); any other error ends the
poll (`CutOff`).  An INSERT takes its `sequence_number` and becomes visible in one step; two
sends that overlap inside PostgreSQL could commit in the other order, which the model leaves
out.

**Mailbox** is what direct messages promise: a queue, a history, every message moves
once and in order, or expires on the way.  `Inbox!ImplementsMailbox` maps the queue to
what the poll has in hand followed by the undelivered rows.

**MemberTable** is what the rest may rely on about the rows of `server_members`: they
change one at a time, by founding, joining, a role, leaving, or all at once.
`Membership!ImplementsMemberTable` says that the routes do no more, and `ChannelKeys`
extends `MemberTable`: joining, leaving, kicks and roles are its `OtherRoutes`, `Remove`
is part of `StartLeave` and `DeleteAccount`, `Drop` of `DropServer`, and `Found` is done
before it starts.

**ChannelKeys** is the channels of one server: `level` the `channels` rows, `rows` the
committed `channel_keys`, `local` each browser's keys in IndexedDB, `made` every key ever
generated, with the members it was encrypted for.  A slot runs one call of
`stores/servers.js` and the handlers that answer it.  A rotation is a transaction at READ
COMMITTED: `tx[w]` is what it has deleted and inserted, seen by nobody before
`RotateCommit`.  A DELETE sees the rows committed when it starts, waits for another
transaction that is deleting one of them, and then skips what that one deleted and does
not see what it inserted (`RotateDelete`, `RotateWait`); an INSERT waits for an undecided
row with the same `UNIQUE` key.  Two transactions that wait for each other are a deadlock,
and one of them is cancelled (`Deadlock`).  That behaviour is PostgreSQL's.  Each row of
`encryptedKeys` is an INSERT and a step of its own.  GET `/members` and GET `/channels`
are two statements each, the look for the caller's row and the list, and a refusal or an
error of either is an empty list to the page (`NoList`, `RotateTold`, `CreateTold`).

`DeleteAccount` takes the user's rows of `server_members` and `channel_keys`, and waits
for a rotation that has deleted or inserted one of them; `DropServer` takes all channels
and keys.  The account of a server's owner takes the server along, which is the two one
after the other.  After them what refers to the user or the server is refused: a join, an
INSERT of a channel or of a key (`Lost`).  A deleted account's own requests get a 401,
which to its page is the refusal that a user without a row gets, and its browser keeps
its keys.

**PageCalls**, **Contacts**, **ChannelView** and **Client** are one page.  `PageCalls` has
its calls in progress and the version of its database: `crypto/db.js` opens version 2,
`stores/servers.js` version 3, nobody closes a connection.  An open at a higher version
waits for the connections in use, the opens after it wait for it, and an open at a lower
version fails (`Answered`, `CanOpen`, `Ask`, `Upgrade`). `Contacts` holds, for each
username, the keys that are registered, stored, shown and on the server (a number that grows
with each registration).  `ChannelView` holds the rows of `server_messages` in the order of
`sequence_number`, those of `gone` senders and channels no longer there (`RowsOf`), the
channel that is polled and the list shown; `Known` and `Keyed` are the senders and channels
whose messages decrypt.  An echo in the list carries the `sequence_number` of the row it is
about, as history: the page gives it a random id. `Client` composes the two on the same
slots.  Calls of one kind overlap because a page that is mounted again forgets that a call
is running.

**Padding** has `getBucket` and `padBuffer`, the size of a direct message and that of a
channel message.

**Rows** has `Without(s, D)`, the rows of a list that are not in `D`, in the order they
have: what a DELETE leaves in `Inbox`, and what a poll shows in `ChannelView`, where the
rows come in the order of `sequence_number` and sorting what decrypts is leaving the rest
out.  It is a recursive function and not `SelectSeq` or `SetToSortSeq`, so that it can be
reasoned about.

`MCMembership`, `MCLogin`, `MCInbox` add symmetry for TLC; `MCClient` adds `Padding` to
`Client` and checks `getBucket` against the loop of the code, for sizes up to 17000, as
assumptions.  `MembershipProofs`, `TableProofs`, `LoginProofs`, `KeysProofs`,
`InboxProofs`, `ClientProofs` and `PaddingProofs` hold the theorems, `RowsProofs` the
lemmas on lists and on finite sets of numbers that they share.  Definitions marked
`mutant` are faulty versions of the definition that follows; no specification uses them.
They show that each property notices a plausible bug.

## Runs

| Run | Shows | Bounds |
|---|---|---|
| `MCMembership_serial` | requests one at a time, every endpoint: `CapRespected`, `SettledCount` (until an account is deleted), `SettledOwner`, `AdminsStepDownThemselves` | 4 users, cap 3: a full server, a member outside, three roles at once |
| `MCMembership_races` | joins, leaves, server deletion at once, fair: `Ledger`, `CapOvershoot`, `Succession`, `LastOneOut` | 3 users, cap 2, 2 slots: two joins race for one place, a leave races with the successor's leave |
| `MCMembership_all` | `ReferentialIntegrity` and the refinement of `MemberTable`, every endpoint, failing statements | 2 users, 2 slots: every pair of handlers interleaves |
| `MCInbox_overlap` | `ServerKeeps`, `DeliveredFirst` with overlapping, failing polls and erasure | 3 messages, one expiring, LIMIT 2, 2 tasks |
| `MCInbox_single` | one call at a time, fair: `HistoryComplete`, `SettledView`, `EventuallyStored`, refinement of `Mailbox` | 4 messages, 2 sends, LIMIT 2: a backlog of several polls |
| `MCLogin_races` | `SessionsOfAccount`, `SingleUse` with failing statements | 2 pages, 2 accounts in turn, 2 challenges, 3 sessions: two attempts find one row |
| `MCLogin_alone` | one page, fair: `CodesAreSpent`, `SecondFactorShown`, `RightAnswerGetsIn` | 3 codes in 2 sets, 2 challenges, 3 sessions |
| `ChannelKeys` | two calls at once, failing, refused or deadlocked, fair: `RotationWhole`, `OneKeyEach`, `KeptKeysUploaded`, `VersionsGrow`, `CallsEnd` | 2 members, 1 channel, 3 keys, one change (a member that joins, goes or changes role, an account or the server deleted): two rotations, or a rotation and the keys of the creation, meet on the same rows, and a member goes in between |
| `MCClient` | two calls at once on one page, cut off or refused by the database: `ListIsStored`, `RemoteCovers`, `ShownIsSent`, `KeysForward`, `UpgradeFreezes`, and, fair, `UpgradeReleases` | 2 usernames registered up to twice, 2 channels of which one has a key, LIMIT 2, three acts by people or failures: two adds, or a send and a poll, or two sends at once, a channel, an account or the server that goes under a send, an upgrade under any call |

These are violated, and show where the code and its documents part:

| Run | What happens |
|---|---|
| `MCMembership_cap` | two joins read the count before either raises it: one member more than the cap (README_PHASE3.md:59, "Atomic check-and-increment at 150") |
| `MCInbox_history` | a send overwrites the array a poll has stored; the message is marked delivered and nowhere (README.md:163) |
| `MCLogin_schema` | with `schema.sql` as it is, verify always replies 500 (README.md:42) |

Other differences the models contain, without a run of their own: a kick or role change
acts on roles that another request has changed since (`KickDelete` does not look again);
a moderator may set a member's role to moderator, which README_PHASE3.md:23 lists as an
admin's call; a delivered message without expiry is never deleted (`MarkDelivered`,
README.md:163 says deleted); a poll in flight puts the array it read before
`EraseDevice` back after it; two verify attempts that both ran `FindChallenge` before
either `ConsumeChallenge` go on with one challenge, and only because the page that was not
issued it cannot answer it do they not open two sessions (`SingleUse`); two pages that
sign in at once spoil each other's attempt, since verify takes the newest challenge of the
username; two logins with different recovery codes restore one of them (`SpendCode`), and
a second factor that is switched on after `CheckAnswer` is not asked for.  With faults, or
with two calls at once, a message can be marked delivered and lost: the rows are marked
before the response leaves, and `storeMessage` reads and writes in two transactions.

On a channel and its keys:

- `serversStore` is named six times in `stores/servers.js` (lines 76, 82, 156, 228, 250,
  359) and declared nowhere.  `createServer`, `selectServer`, `joinServer`, `kickMember`,
  `changeRole` and `createChannel` throw there, after what they did before.  So a kick
  never rotates the keys (README_PHASE3.md:57, "Immediate key rotation on kick"), a
  joining member fetches none, and `OtherRoutes` is all the store does after its request.
- `createServer` keeps the first key under the name `general`, where no look-up by channel
  id finds it (`StartGeneral` ends in no `CreateStore`).
- When GET `/members` fails, the list counts as empty: a rotation deletes the keys of every
  channel, a new channel has none (`NoList`; `OneKeyEach` and `calm` leave this out).
- The account of a member takes its `channel_keys` along.  When it held the last rows of a
  channel, MAX is 0 and the next rotation starts again at version 1 (`VersionsGrow` allows
  exactly this).  A rotation that was told of the member before is refused by the foreign
  key, rolled back, and leaves the others with the old key.
- A rotation reads MAX before its DELETE, so one that waited for another writes the same
  version again for whomever the other left out, or meets its rows and is rolled back;
  `storeChannelKey` has run by then, and the browser keeps a key that nobody has.
  `VersionsGrow` and `KeptKeysUploaded` therefore speak of calls that ran undisturbed,
  while `RotationWhole` and `CallsEnd` hold of all.
- `decryptGroupMessage` does not strip what `encryptGroupMessage` padded
  (`GroupNeverOpens`), and a poll looks a sender up by its id among contacts filed by
  username hash: in the repository `Known` is empty.  Nor would a sender that is known be
  shown: a poll reads the contacts, at version 2, after the key of its channel, at version
  3.  A channel shows what its page has sent, and nothing else
  (`ShownIsSent`).  `fetchAndDecryptKeys` decrypts with a random IV, always fails, and
  stores nothing.
- No page gets to a channel: `$servers` is the list of servers, so `$servers.activeServer`
  is undefined in `chat/+page.svelte`.  `rotateKeys`, `leaveServer`, `deleteServer`,
  `loadFromServer` and `removeContact` are called by no page.  The models run them as the
  stores define them.

On the page's database: after the first look-up of a channel key, every later call of
`crypto/db.js` fails for good (`UpgradeFreezes`).  `storeContact` holds a connection while
it opens a second one (crypto/db.js:101); if the upgrade is asked for in between, the two
wait for each other (`Held`, `Answered`), until the page is closed.  `UpgradeReleases` says
that nothing else keeps a call waiting.  Two `addContact` at once lose one of the two in
IndexedDB while both are on the page and on the server; hence `alone` in
`ListIsStored`.  Enter in the chat page sends again while the last send is under way, as
`sendMessage` does not look at `sending`.

Bounds: the number of users, slots, pages, tasks, messages and fresh values are the
constants in the `.cfg` files; `MaxMembers` and `Limit` stand for 150 and 100 (50 in
`ChannelView`), which only enter by comparison.  `MaxActs` bounds what people do and what
fails together, `MaxChanges` what becomes of members, accounts and the
server.  `ChannelKeys` has one channel: a rotation takes its channels in the order of
`created_at`, one after the other with the same steps, and what two rotations over several
channels could do to each other's locks is outside the bound; so are cycles of more than two
rotations, which `Deadlock` does not break.  Counters in the code are bounded by
these.  Runs that may stop (all accounts or fresh values used up, a page that waits for its
database) say `CHECK_DEADLOCK FALSE`.

Fairness: a handler's awaited statement returns or throws, so the next step of a request
in progress is weakly fair (`WF_vars(Step(w))`); nobody has to start a request.  In
`Inbox` the start of a poll is fair as well: `setInterval` calls it every five seconds.  In
`ChannelKeys` `Deadlock` is a step like any other: PostgreSQL looks for a cycle after
`deadlock_timeout`.  `Upgrade` of `Client` is not fair: it waits for connections that only
garbage collection closes.  `UpgradeReleases` therefore starts where it has happened.
Faults are never fair; where a liveness run has them (`ChannelKeys`, `MCClient`) they are
bounded, and a cut-off ends its call.

## Theorems

Proved by TLAPS for every value of the constants, under the named assumptions of the
modules.  These ask that users, request slots and page slots are finite sets, that limits
and bounds are numbers (the cap, `Limit` of `Inbox` and `MaxKeys` of `Contacts` positive),
that values which stand for "none" are no real value, that two batches of recovery codes
share no code, and that the person at the page is a possible sender.  What a theorem asks
beyond that is said with it; "one page", "one slot" and "one call" are the cases the runs
check too.  Every invariant and action property of every passing run is proved; the
liveness properties are not.

`Membership`:

- `TypeCorrect`: `TypeOK`.
- `References`: `ReferentialIntegrity`, for any number of concurrent requests and any
  faults.  The invariant is strengthened by `Lifecycle`, which ties what a request may be
  doing to the phase of the server: a create that has inserted its server is the only one,
  and before its second statement no other request names the server.
- `CapBound`, `CountCoversMembers`: if kick is not called and a join does not fail before
  its last statement, `CapOvershoot` and `Ledger` hold.  The invariant counts the joins
  between check and insert, between insert and increment, and the leaves between delete
  and decrement: the cap is missed by less than the number of slots.  Kick lowers the
  count for rows it may not have deleted, which is why it is excluded.
- `SerialCap`: from it and with what it excludes (kicks, and joins that fail before their
  update of the count), with one slot the cap is respected.
- `SuccessionHolds`: `Succession`, with joins, leaves, invites and server deletion only,
  and leaves that do not fail.  The invariant adds that no slot is in kick, role or
  account (`NoStrays`), that `older` orders the members (`JoinOrder`), and that an oldest
  member who is not admin yet is about to be promoted by a leave in progress (`Pending`).
- `AdminsStayAdmins`: `AdminsStepDownThemselves`, with one slot, every endpoint and any
  faults.  `Chosen` is the invariant: a target that has passed `canManageRole` is a member
  and no admin, since nobody is above an admin.
- `OwnerIsOldest`: `SettledOwner`, with one slot, every endpoint and leaves that do not
  fail.  `Heir` says where the owner is while a leave runs: `leave_owner` keeps the oldest
  member, `leave_promote` has made it the owner; everywhere else the owner is the oldest
  member and an admin, whom kick and role do not reach (`Chosen`).  `Founder` covers the
  creation.
- `OwnerReigns`: `SettledOwner` again, for any number of slots and any faults, when nobody
  leaves.  `Reigns` adds that a kick or role change that has checked its target has not
  checked the owner: it may act on roles that have changed since, but the owner's has not.
- `CountIsExact`: `SettledCount`, with one slot and no failure right before an update of
  `member_count`.  `Exact` says by how much the count is off before each such update.
- `ImplementsTable`: `ImplementsMemberTable`.  Each statement that writes `role` is a step
  of `MemberTable` and every other a stutter; `RefInv` gives that an insert finds no row
  of its user and that a server being founded has no members yet, `KnownRoles` that a role
  request carries a role.

`Login`:

- `SessionsHaveAccounts`: `SessionsOfAccount`.  A username without an account has no
  sessions, so the next registration starts from none; the foreign key keeps a login that
  read an earlier account from adding one.
- `LoginTypes`: `TypeOK`.  `LoginInv` adds what the locals of a page hold at each
  statement.
- `ChallengesOpenOneSession`: `SingleUse`, for any pages and faults.  `ConsumedIsGone` says
  that a challenge an attempt has deleted is not in the table again.  `UseInv` adds that
  no two pages hold one challenge, that one which has opened a session is not in the table,
  and that an attempt on the way with the challenge of its own page is the first that could
  open a session with it: it is deleted before the answer is looked at, and only the page
  that holds it can answer it.
- `CodesSpentOnce`, `SecondFactorNeeded`: `CodesAreSpent` and `SecondFactorShown`, with
  one page: two logins at once put a spent code back.  `CodeInv` says that what
  `SpendCode` is about to write is the codes without the one that was shown.

`ChannelKeys`, for any channels, keys, members and calls at once:

- `KeysTypes`: `TypeOK`.  `KeysInv` counts the channels and keys that calls in progress
  are still to make, so that the bounds of the model are never exceeded.
- `RotationsAreWhole`: `RotationWhole`, whatever overlaps, waits and fails.  `RotationInv`
  says that the keys of two calls are different, that a key whose rotation is in progress
  has no committed row, that a transaction deletes and has seen whole rotations, that its
  own rows are complete for each channel it has done, and that no row, committed or not,
  is that of an account that has gone.
- `KeptKeysAreUploaded`: `KeptKeysUploaded`; `StoreInv` says that a key a browser keeps
  has been uploaded or belongs to the rotation that is about to commit it.
- `OneKeyForEach`, `KeyVersionsGrow`: `OneKeyEach` and `VersionsGrow`.  `CalmInv`
  describes the only call in progress: which channels have been done, and that between two
  calls the rows of every channel are those of one key in one version, one for each of
  those it was made for whose account has not gone.

`Inbox` and `Mailbox`:

- `InboxTypes`, `MessagesAreKept`, `OldestAreMarked`: `TypeOK`, `ServerKeeps` and
  `DeliveredFirst`, for any number of overlapping, failing and erased polls.  `InboxInv`
  says what each task has in hand: a poll that is going to mark has selected the oldest
  rows that were not marked, and whatever is marked or deleted in the meantime leaves them
  the oldest.  A `StoreError` only takes a message out of a batch.
- `HistoryIsComplete`, `ViewSettles`: `HistoryComplete` and `SettledView`, where there is
  one call at a time, no fault and no erasure (`OneCall`), on any number of devices: two
  calls at once do lose messages (`MCInbox_history`).  `DeviceInv` says that what a call
  has read and will put back is what the array still holds.
- `InboxIsMailbox`: `ImplementsMailbox`, with `OneCall` and one device (`OneReader`), step
  by step: a poll that deletes expired rows is an `Expire`, a `StorePut` delivers the
  first message in hand, an INSERT arrives, every other step is a stutter.

`Client`, for any usernames, channels, messages and calls at once:

- `ClientTypes`: `TypeOK`, from `CallsInv` (what each call keeps), `ActsInv` (every
  message and every send under way was counted as an act) and `ShownInv`.
- `ContactsFreeze`: `UpgradeFreezes`; `Frozen` in `CallsInv` says that after the upgrade
  no call is left between its read and its write.
- `StoredIsPosted`: `RemoteCovers`; `Covers` says the same of every array a call has read
  and will put back, and counts the POST still to be sent.
- `ListsAgree`, `NewerKeysStay`: `ListIsStored` and `KeysForward`; `Agreed` says where the
  three lists differ while the only call of the contacts runs, `KeysInv` that no copy is
  newer than the published keys.
- `ShownMessagesAreSent`: `ShownIsSent`, however sends, polls and the upgrade overlap and
  whoever goes meanwhile.  `ShownInv` says that a send about to show its message has its
  row, which no other send has and the page does not show yet, and that a poll gets to
  its last step after the upgrade only, where it shows nothing.

`Padding`:

- `MessageSizeHidesLength`, `StripUndoesPadding`: direct messages in one bucket have one
  size, and decryption gets back what was padded, for every length and noise.  They rest
  on `SmallestBucket`, what `getBucket` returns.
- `GroupSizeAtTheEdge`, `GroupNeverOpens`: a channel message has the size of its bucket
  exactly when the tag fits in as well, and what is decrypted is always longer than what
  was sealed.

Facts about every list (what `Without` keeps, that it keeps the order) need induction, and
the library's induction theorems take an operator, which the provers here cannot
instantiate.  `RowsProofs` goes through sets instead: the set of naturals up to which a
fact holds has 0 and is closed under successor, so it is `Nat` (`SetInduction`, from the
least element that `WellFoundedInduction` gives); `ListInduction` is the same for a set of
lists.

Model-checked only: the liveness properties, which are outside the prover's reach:
`LastOneOut`, `RightAnswerGetsIn`, `EventuallyStored`, `CallsEnd` and `UpgradeReleases`.
That `getBucket` agrees with the loop of the code is checked for the sizes up to 17000.

## Plan

1. Proofs: the safety part of `CallsEnd`, that no two calls wait for each other;
   `CodesAreSpent` and `HistoryComplete` with several pages and tasks of which one logs in
   or polls.
2. `ChannelKeys` with two channels and `CallsEnd`: rotations that lock several channels,
   and deadlocks of more than two.
3. The placeholders of messages from unknown senders in `Inbox`.

## Not modelled

`files.js` and R2 uploads (named by the README, absent from the code); rate limiting
(`RATE_LIMIT` is declared and not used); GET handlers that change nothing, among them GET
`/keys`; `fetchAndDecryptKeys`, which stores nothing; `deleteServer` of the client store and
the lists of servers, channels and members it shows; DELETE of a single direct message and
`deleteMessage`, which no page calls; `last_seen`, aliases and the copy of the contacts in
`localStorage`, which nothing reads; the export and import of keys; the cryptography itself;
formatting and layout.
