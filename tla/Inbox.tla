------------------------------- MODULE Inbox --------------------------------
(***************************************************************************)
(* The direct messages of one account: its rows of the table messages, the *)
(* handlers of routes/messages.js, and on each of its devices the polling  *)
(* and sending of stores/messages.js over the array "messages" that        *)
(* crypto/db.js keeps in IndexedDB.                                        *)
(*                                                                         *)
(* Every SQL statement and every IndexedDB transaction is one step.  A     *)
(* task is a call of pollInbox, with the inbox handler that answers it, or *)
(* of sendMessage; tasks of one device share its array.                    *)
(***************************************************************************)
EXTENDS Rows, FiniteSets, Functions

CONSTANTS
    Msgs,         \* messages others may send to the account
    Expiring,     \* those of them with an expires_at
    Sends,        \* messages the account may send
    Devices,      \* browsers signed in to the account
    Tasks,        \* slots for calls in progress
    Limit,        \* LIMIT of the inbox query (100)
    Ops,          \* what else happens: "send", "erase"
    FaultPoints   \* steps at which a task may be cut off

Steps == {"expire", "select", "mark", "answer", "snapshot", "read", "put",
          "reload", "send_read", "send_put"}

ASSUME InboxAssumption ==
    /\ Expiring \subseteq Msgs /\ Msgs \cap Sends = {}
    /\ Limit \in Nat \ {0}
    /\ Ops \subseteq {"send", "erase"}
    /\ FaultPoints \subseteq Steps

VARIABLES
    rows,       \* messages rows for the account, by sequence_number
    delivered,  \* those with delivered = TRUE
    arrived,    \* messages sent so far
    due,        \* messages whose expires_at has passed
    sent,       \* messages the account has sent
    local,      \* the array "messages" in each device's IndexedDB
    view,       \* the messages store of each device's page
    signedIn,   \* the device has token and keys
    pc, dev,    \* next step and device of each task
    batch,      \* what the task has still to store
    array       \* the array storeMessage has read

server == <<rows, delivered, arrived, due>>
device == <<local, view, signedIn, sent>>
task == <<pc, dev, batch, array>>
vars == <<server, device, task>>

Entries == Msgs \cup Sends
TypeOK ==
    /\ rows \in Seq(Msgs) /\ delivered \subseteq arrived /\ arrived \subseteq Msgs
    /\ due \subseteq Expiring \cap arrived /\ sent \subseteq Sends
    /\ local \in [Devices -> Seq(Entries)] /\ view \in [Devices -> Seq(Entries)]
    /\ signedIn \in [Devices -> BOOLEAN]
    /\ pc \in [Tasks -> Steps \cup {"idle"}] /\ dev \in [Tasks -> Devices]
    /\ batch \in [Tasks -> Seq(Entries)] /\ array \in [Tasks -> Seq(Entries)]

Init ==
    /\ rows = <<>> /\ delivered = {} /\ arrived = {} /\ due = {} /\ sent = {}
    /\ local = [d \in Devices |-> <<>>] /\ view = local
    /\ signedIn = [d \in Devices |-> TRUE]
    /\ pc = [t \in Tasks |-> "idle"] /\ dev \in [Tasks -> Devices]
    /\ batch = [t \in Tasks |-> <<>>] /\ array = batch

\* Task t goes on with step s and the lists b and a.
Go(t, s, b, a) ==
    /\ pc' = [pc EXCEPT ![t] = s] /\ batch' = [batch EXCEPT ![t] = b]
    /\ array' = [array EXCEPT ![t] = a] /\ UNCHANGED dev
Done(t) == Go(t, "idle", <<>>, <<>>)

-----------------------------------------------------------------------------
(* POST /api/messages/send by somebody else, and the clock.                *)

Arrive(m) ==
    /\ m \in Msgs \ arrived
    /\ arrived' = arrived \cup {m} /\ rows' = Append(rows, m)
    /\ UNCHANGED <<delivered, due, device, task>>

FallDueAny(m) ==                                      \* mutant
    /\ m \in arrived \ due
    /\ due' = due \cup {m}
    /\ UNCHANGED <<rows, delivered, arrived, device, task>>
FallDue(m) ==
    /\ m \in (Expiring \cap arrived) \ due
    /\ due' = due \cup {m}
    /\ UNCHANGED <<rows, delivered, arrived, device, task>>

-----------------------------------------------------------------------------
(* GET /api/messages/inbox                                                 *)

StartPoll(t) ==
    /\ pc[t] = "idle"
    /\ \E d \in Devices :
          /\ signedIn[d]
          /\ dev' = [dev EXCEPT ![t] = d]
    /\ pc' = [pc EXCEPT ![t] = "expire"]
    /\ UNCHANGED <<batch, array, server, device>>

DeleteExpiring(t) ==                                  \* mutant
    /\ pc[t] = "expire"
    /\ rows' = Without(rows, Expiring)
    /\ Go(t, "select", <<>>, <<>>)
    /\ UNCHANGED <<delivered, arrived, due, device>>
DeleteExpired(t) ==
    /\ pc[t] = "expire"
    /\ rows' = Without(rows, due)
    /\ Go(t, "select", <<>>, <<>>)
    /\ UNCHANGED <<delivered, arrived, due, device>>

AtMost(s, n) == SubSeq(s, 1, IF Len(s) < n THEN Len(s) ELSE n)
Undelivered == Without(rows, delivered)
NewestFirst ==                                        \* mutant
    SubSeq(Undelivered, 1 + Len(Undelivered) - Len(AtMost(Undelivered, Limit)),
           Len(Undelivered))
OldestRows == AtMost(rows, Limit)                     \* mutant
InboxQuery == AtMost(Undelivered, Limit)

SelectInbox(t) ==
    /\ pc[t] = "select"
    /\ \/ InboxQuery = <<>> /\ Done(t)
       \/ InboxQuery # <<>> /\ Go(t, "mark", InboxQuery, <<>>)
    /\ UNCHANGED <<server, device>>

MarkAll(t) ==                                         \* mutant
    /\ pc[t] = "mark"
    /\ delivered' = delivered \cup Range(rows)
    /\ Go(t, "answer", batch[t], <<>>)
    /\ UNCHANGED <<rows, arrived, due, device>>
\* A row deleted since stays in the set: its id never returns.
MarkDelivered(t) ==
    /\ pc[t] = "mark"
    /\ delivered' = delivered \cup Range(batch[t])
    /\ Go(t, "answer", batch[t], <<>>)
    /\ UNCHANGED <<rows, arrived, due, device>>

-----------------------------------------------------------------------------
(* pollInbox, from the response on                                         *)

\* Without keys the messages of the response are dropped.
Answer(t) ==
    /\ pc[t] = "answer"
    /\ \/ signedIn[dev[t]] /\ Go(t, "snapshot", batch[t], <<>>)
       \/ ~signedIn[dev[t]] /\ Done(t)
    /\ UNCHANGED <<server, device>>

\* The loop over data.messages, for those left in b.
Loop(t, b) == Go(t, IF b = <<>> THEN "reload" ELSE "read", b, <<>>)

\* stored = await getMessages(): what is in it now is not stored again.
Snapshot(t) ==
    /\ pc[t] = "snapshot"
    /\ Loop(t, Without(batch[t], Range(local[dev[t]])))
    /\ UNCHANGED <<server, device>>

\* storeMessage reads the array in one transaction ...
StoreRead(t) ==
    /\ pc[t] = "read"
    /\ Go(t, "put", batch[t], local[dev[t]])
    /\ UNCHANGED <<server, device>>

\* ... and writes it back, with the message pushed, in another.
StorePut(t) ==
    /\ pc[t] = "put"
    /\ local' = [local EXCEPT ![dev[t]] = Append(array[t], Head(batch[t]))]
    /\ Loop(t, Tail(batch[t]))
    /\ UNCHANGED <<server, view, signedIn, sent>>

Reload(t) ==
    /\ pc[t] = "reload"
    /\ view' = [view EXCEPT ![dev[t]] = local[dev[t]]]
    /\ Done(t)
    /\ UNCHANGED <<server, local, signedIn, sent>>

-----------------------------------------------------------------------------
(* sendMessage: the peer's inbox is not this one, the copy kept here is.   *)

StartSend(t) ==
    /\ "send" \in Ops /\ pc[t] = "idle"
    /\ \E d \in Devices, s \in Sends \ sent :
          /\ signedIn[d]
          /\ sent' = sent \cup {s}
          /\ dev' = [dev EXCEPT ![t] = d]
          /\ batch' = [batch EXCEPT ![t] = <<s>>]
    /\ pc' = [pc EXCEPT ![t] = "send_read"]
    /\ UNCHANGED <<array, server, local, view, signedIn>>

SendRead(t) ==
    /\ pc[t] = "send_read"
    /\ Go(t, "send_put", batch[t], local[dev[t]])
    /\ UNCHANGED <<server, device>>

SendPutSilent(t) ==                                   \* mutant
    /\ pc[t] = "send_put"
    /\ local' = [local EXCEPT ![dev[t]] = Append(array[t], Head(batch[t]))]
    /\ Done(t)
    /\ UNCHANGED <<server, view, signedIn, sent>>
SendPut(t) ==
    /\ pc[t] = "send_put"
    /\ local' = [local EXCEPT ![dev[t]] = Append(array[t], Head(batch[t]))]
    /\ view' = [view EXCEPT ![dev[t]] = Append(@, Head(batch[t]))]
    /\ Done(t)
    /\ UNCHANGED <<server, signedIn, sent>>

-----------------------------------------------------------------------------
(* deleteAccount and logout of settings/keys: clearAllData, token dropped. *)

EraseDevice(d) ==
    /\ "erase" \in Ops /\ signedIn[d]
    /\ local' = [local EXCEPT ![d] = <<>>]
    /\ signedIn' = [signedIn EXCEPT ![d] = FALSE]
    /\ UNCHANGED <<server, view, sent, task>>

\* The next sign-in on the device; the chat page loads what IndexedDB holds.
SignIn(d) ==
    /\ ~signedIn[d]
    /\ signedIn' = [signedIn EXCEPT ![d] = TRUE]
    /\ view' = [view EXCEPT ![d] = local[d]]
    /\ UNCHANGED <<server, local, sent, task>>

\* A statement throws, the response is lost, or the tab is closed.
CutOff(t) == pc[t] \in FaultPoints /\ Done(t) /\ UNCHANGED <<server, device>>

\* What storeMessage throws is caught inside the loop, which goes on without
\* the message.
StoreError(t) ==
    /\ pc[t] \in {"read", "put"} \cap FaultPoints
    /\ Loop(t, Tail(batch[t]))
    /\ UNCHANGED <<server, device>>

Step(t) ==
    \/ DeleteExpired(t) \/ SelectInbox(t) \/ MarkDelivered(t)
    \/ Answer(t) \/ Snapshot(t) \/ StoreRead(t) \/ StorePut(t) \/ Reload(t)
    \/ SendRead(t) \/ SendPut(t)

Next ==
    \/ \E t \in Tasks : \/ StartPoll(t) \/ StartSend(t) \/ Step(t)
                       \/ CutOff(t) \/ StoreError(t)
    \/ \E m \in Msgs : Arrive(m) \/ FallDue(m)
    \/ \E d \in Devices : EraseDevice(d) \/ SignIn(d)

Spec == Init /\ [][Next]_vars

\* setInterval starts pollInbox again and again; awaited calls return.
FairSpec == Spec /\ \A t \in Tasks : WF_vars(StartPoll(t)) /\ WF_vars(Step(t))

-----------------------------------------------------------------------------
(* Properties.                                                             *)

InHand(m) == \E t \in Tasks : m \in Range(batch[t])

\* The server keeps a message until it has handed it out or it has expired.
ServerKeeps == \A m \in arrived \ (delivered \cup due) : m \in Range(rows)

\* However polls overlap and fail, a message is never marked delivered before
\* an older one: the marked rows are the oldest ones.
DeliveredFirst ==
    \A i, j \in DOMAIN rows : i < j /\ rows[j] \in delivered => rows[i] \in delivered

\* README.md:163, "History lives only in the recipient's local IndexedDB": a
\* message marked delivered is there, or a task is about to put it there.
HistoryComplete ==
    \A m \in delivered : InHand(m) \/ \E d \in Devices : m \in Range(local[d])

\* Between calls the page shows what IndexedDB holds (one call at a time).
SettledView ==
    (\A t \in Tasks : pc[t] = "idle") => view = local

\* A message without expiry reaches the history, whatever the backlog.
EventuallyStored ==
    \A m \in Msgs \ Expiring :
        m \in arrived ~> \E d \in Devices : m \in Range(local[d])

\* With one call at a time on one device this implements the Mailbox: the
\* queue is what a poll has in hand, then the rows it has not selected.
TheTask == CHOOSE t \in Tasks : TRUE
TheDevice == CHOOSE d \in Devices : TRUE
OnTheWay ==
    LET inHand == Without(batch[TheTask], Sends)
    IN  inHand \o Without(Undelivered, Range(inHand))
Abstract == INSTANCE Mailbox WITH
    queue <- OnTheWay,
    history <- Without(local[TheDevice], Sends)
ImplementsMailbox == Abstract!MailboxSpec
=============================================================================
