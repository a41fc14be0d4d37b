----------------------------- MODULE PageCalls ------------------------------
(***************************************************************************)
(* What the calls of one client page share: the slots in which they run    *)
(* and the IndexedDB database "cypherchat".                                *)
(*                                                                         *)
(* crypto/db.js opens the database at version 2, stores/servers.js at      *)
(* version 3, and neither ever closes a connection.  An open at a lower    *)
(* version fails.  An open at a higher one waits for the connections that  *)
(* are still in use, and the opens that come after it wait for it.         *)
(***************************************************************************)
EXTENDS Naturals, Sequences, FiniteSets

CONSTANTS
    Slots,     \* slots for calls in progress
    MaxActs    \* bound on what people do and on failing calls

ASSUME PageAssumption == IsFiniteSet(Slots) /\ MaxActs \in Nat

VARIABLES
    pc,        \* next step of each slot
    call,      \* what its call keeps
    version,   \* version of the database
    asked,     \* an open at version 3 waits for its upgrade
    acts,      \* what people have done so far
    alone,     \* history: {"contacts"} as long as no two calls of the contacts
               \* have been in progress at once, {} from then on
    whole      \* history: no call was cut off or refused by the database

shared == <<pc, call, version, asked, acts, alone, whole>>

Kinds == [add |-> "contacts", remove |-> "contacts", load |-> "contacts",
          poll |-> "channels", send |-> "channels"]
Idle == [op |-> "none"]
DB_VERSION == 2   \* of crypto/db.js

PageInit ==
    /\ pc = [s \in Slots |-> "idle"] /\ call = [s \in Slots |-> Idle]
    /\ version = DB_VERSION /\ asked = FALSE
    /\ acts = 0 /\ alone = {"contacts"} /\ whole = TRUE

Quiet == \A s \in Slots : pc[s] = "idle"
Busy(kind) == \E s \in Slots : pc[s] # "idle" /\ Kinds[call[s].op] = kind

Keep(s, step, c) == pc' = [pc EXCEPT ![s] = step] /\ call' = [call EXCEPT ![s] = c]
Goto(s, step) == Keep(s, step, call[s])
End(s) == Keep(s, "idle", Idle)

Start(s, step, c) ==
    /\ pc[s] = "idle" /\ Keep(s, step, c)
    /\ alone' = IF Busy(Kinds[c.op]) THEN alone \ {Kinds[c.op]} ELSE alone
    /\ UNCHANGED <<version, asked, whole>>

\* Somebody does something once more.
Act == acts < MaxActs /\ acts' = acts + 1

\* openDB of crypto/db.js is answered, with or without a connection.
Answered == ~asked
OpensAnyway == TRUE                                   \* mutant
CanOpen == version <= DB_VERSION

\* storeContact and deleteContact keep a connection while they open the next.
Held == \E s \in Slots : pc[s] \in {"add_read", "add_put", "remove_read", "remove_put"}

\* openDB of stores/servers.js: asks for the upgrade, once.
Ask ==
    /\ version < 3 /\ ~asked
    /\ asked' = TRUE
    /\ UNCHANGED <<pc, call, version, acts, alone, whole>>

UpgradeUnanswered ==                                  \* mutant
    /\ asked /\ ~Held
    /\ version' = 3
    /\ UNCHANGED <<pc, call, asked, acts, alone, whole>>
\* The unused connections are collected, onupgradeneeded runs.
Upgrade ==
    /\ asked /\ ~Held
    /\ asked' = FALSE /\ version' = 3
    /\ UNCHANGED <<pc, call, acts, alone, whole>>

\* Fetch rejects, the server answers 500, a transaction fails: the call ends.
CutOff(s) ==
    /\ pc[s] # "idle" /\ Act
    /\ End(s) /\ whole' = FALSE
    /\ UNCHANGED <<version, asked, alone>>
=============================================================================
