------------------------------ MODULE Mailbox -------------------------------
(* What direct messages promise their reader: a queue of messages on the    *)
(* way and the history they end up in.  Each message arrives once, reaches  *)
(* the history once and in order of arrival, unless it expires on the way.  *)
EXTENDS Rows

CONSTANTS Msgs,       \* message rows that may be sent
          Expiring    \* those sent with expires_at

VARIABLES arrived, queue, history

MailboxInit == arrived = {} /\ queue = <<>> /\ history = <<>>

Arrive ==
    \E m \in Msgs \ arrived :
        /\ arrived' = arrived \cup {m}
        /\ queue' = Append(queue, m)
        /\ UNCHANGED history

Deliver ==
    /\ queue # <<>>
    /\ history' = Append(history, Head(queue))
    /\ queue' = Tail(queue)
    /\ UNCHANGED arrived

Expire ==
    /\ \E S \in SUBSET Expiring : queue' = Without(queue, S)
    /\ UNCHANGED <<arrived, history>>

MailboxSpec ==
    MailboxInit /\ [][Arrive \/ Deliver \/ Expire]_<<arrived, queue, history>>
=============================================================================
