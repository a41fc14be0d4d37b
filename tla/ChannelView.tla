---------------------------- MODULE ChannelView -----------------------------
(***************************************************************************)
(* The messages of a server's channels as one page shows them:             *)
(* stores/serverMessages.js, the send and fetch handlers of                *)
(* routes/channels.js, and what the chat page calls when a channel or a    *)
(* contact is selected.  Known and Keyed say whose messages the page can   *)
(* decrypt and for which channels it keeps a key; a poll drops the rest.   *)
(* (Known is really empty: the keys of contacts are looked up by their     *)
(* usernameHash, with the id of the account that sent.)                    *)
(***************************************************************************)
EXTENDS PageCalls, Rows, SequencesExt

CONSTANTS
    Chans,       \* channels of the server
    Keyed,       \* those with a channel key in this browser
    Senders,     \* members who send
    Me,          \* the account of the page
    Known,       \* senders whose messages decrypt
    Limit,       \* limit of the fetch (50)
    NoChan       \* no channel selected

ASSUME ChannelsAssumption ==
    Me \in Senders /\ NoChan \notin Chans /\ Chans \cap Senders = {} /\ Limit \in Nat

VARIABLES
    rows,        \* all messages the server has taken in, by sequence_number
    gone,        \* accounts deleted, and the channels of a server deleted
    open,        \* channels the account may read and write
    current,     \* channel the interval polls, NoChan without one
    view         \* the serverMessages store of the page

channels == <<rows, gone, open, current, view>>
\* The sequence_number of an echo is history: on the page it has a random id.
Entry == [chan : Chans, from : Senders, seq : 1..MaxActs]

ChannelsInit ==
    /\ rows = << >> /\ gone = {} /\ open = Chans /\ current = NoChan /\ view = << >>

\* server_messages rows go with their channel and their sender.
RowsOf(c) == {i \in DOMAIN rows : rows[i].chan = c /\ gone \cap {c, rows[i].from} = {}}
\* SELECT ... ORDER BY sequence_number DESC LIMIT.
Newest(c) == {i \in RowsOf(c) : Cardinality({j \in RowsOf(c) : j > i}) < Limit}

\* The rows with their sequence_number, and those of them that a poll of the
\* rows S does not show: it has not got them, or they do not decrypt.
Numbered == [i \in DOMAIN rows |->
                [chan |-> rows[i].chan, from |-> rows[i].from, seq |-> i]]
Dropped(S) == {m \in Range(Numbered) : m.seq \notin S \/ m.from \notin Known}
\* What decrypts of the rows S, sorted by sequenceNumber.
Readable(S) == Without(Numbered, Dropped(S))
Echo(c, n) == [chan |-> c, from |-> Me, seq |-> n]

\* The foreign keys of server_messages.
CanInsert(c, p) == gone \cap {c, p} = {}
Insert(c, p) == rows' = Append(rows, [chan |-> c, from |-> p])

\* Another member sends a message.
Arrive ==
    /\ \E c \in Chans, p \in Senders \ {Me} : CanInsert(c, p) /\ Insert(c, p)
    /\ Act
    /\ UNCHANGED <<gone, open, current, view, pc, call, version, asked, alone, whole>>

\* The account joins, is removed, or has its role changed.
Access ==
    /\ \E c \in Chans \ gone : open' = IF c \in open THEN open \ {c} ELSE open \cup {c}
    /\ Me \notin gone /\ Act
    /\ UNCHANGED <<rows, gone, current, view, pc, call, version, asked, alone, whole>>

\* DELETE /api/auth/account for a sender, here or in another browser.
DeleteAccount ==
    /\ \E p \in Senders \ gone :
          gone' = gone \cup {p} /\ open' = IF p = Me THEN {} ELSE open
    /\ Act
    /\ UNCHANGED <<rows, current, view, pc, call, version, asked, alone, whole>>

\* The server is deleted, when its last member leaves or with its owner.
DropServer ==
    /\ Chans \ gone # {} /\ gone' = gone \cup Chans /\ open' = {}
    /\ Act
    /\ UNCHANGED <<rows, current, view, pc, call, version, asked, alone, whole>>

\* selectChannel: startPolling replaces the interval and leaves the view.
SelectChannel ==
    /\ \E c \in Chans \ {current} : current' = c
    /\ Act
    /\ UNCHANGED <<rows, gone, open, view, pc, call, version, asked, alone, whole>>

\* stopPolling, from selectContact, onDestroy or a change of the servers store.
StopPolling ==
    /\ current # NoChan /\ current' = NoChan /\ view' = << >>
    /\ Act
    /\ UNCHANGED <<rows, gone, open, pc, call, version, asked, alone, whole>>

\* startPolling's first poll, and every tick of the interval.
StartPoll(s) ==
    /\ current # NoChan
    /\ Start(s, "poll_check", [op |-> "poll", chan |-> current, rows |-> {}])
    /\ UNCHANGED <<channels, acts>>
StartSend(s) ==
    /\ current # NoChan /\ Act
    /\ Start(s, "send_keys", [op |-> "send", chan |-> current, seq |-> 0])
    /\ UNCHANGED channels

\* channelCheck and memberCheck of both handlers; a refusal ends the call.
Check(s, from, to) ==
    /\ pc[s] = from
    /\ IF call[s].chan \in open THEN Goto(s, to) ELSE End(s)
    /\ UNCHANGED <<channels, version, asked>>

PollSelect(s) ==
    /\ pc[s] = "poll_select"
    /\ Keep(s, "poll_keys", [call[s] EXCEPT !.rows = Newest(call[s].chan)])
    /\ UNCHANGED <<channels, version, asked>>

\* getKeys; the poll swallows an error, the send throws it.
GetKeys(s, from, to) ==
    /\ pc[s] = from /\ Answered
    /\ IF CanOpen THEN Goto(s, to) ELSE End(s)
    /\ UNCHANGED <<channels, version, asked>>

\* getChannelKey, once the database has version 3.
GetChannelKey(s, from, to) ==
    /\ pc[s] = from /\ version = 3
    /\ IF call[s].chan \in Keyed THEN Goto(s, to) ELSE End(s)
    /\ UNCHANGED <<channels, version, asked>>

\* getContacts, decryption, set.
PollShow(s) ==
    /\ pc[s] = "poll_show" /\ Answered
    /\ view' = IF CanOpen THEN Readable(call[s].rows) ELSE view
    /\ End(s)
    /\ UNCHANGED <<rows, gone, open, current, version, asked>>

SendInsertLate(s) ==                                  \* mutant
    /\ pc[s] = "send_insert"
    /\ \/ CanInsert(call[s].chan, Me) /\ Insert(call[s].chan, Me)
       \/ ~CanInsert(call[s].chan, Me) /\ UNCHANGED rows
    /\ Keep(s, "send_echo", [call[s] EXCEPT !.seq = Len(rows) + 1])
    /\ UNCHANGED <<gone, open, current, view, version, asked>>
\* The INSERT of the send; a foreign key that is violated makes it a 500.
SendInsert(s) ==
    /\ pc[s] = "send_insert"
    /\ \/ /\ CanInsert(call[s].chan, Me) /\ Insert(call[s].chan, Me)
          /\ Keep(s, "send_echo", [call[s] EXCEPT !.seq = Len(rows) + 1])
       \/ ~CanInsert(call[s].chan, Me) /\ End(s) /\ UNCHANGED rows
    /\ UNCHANGED <<gone, open, current, view, version, asked>>

\* The response has come: the page adds the message it has sent.
SendEcho(s) ==
    /\ pc[s] = "send_echo"
    /\ view' = Append(view, Echo(call[s].chan, call[s].seq))
    /\ End(s)
    /\ UNCHANGED <<rows, gone, open, current, version, asked>>

ChannelsStep(s) ==
    /\ \/ Check(s, "poll_check", "poll_select") \/ PollSelect(s)
       \/ GetKeys(s, "poll_keys", "poll_key")
       \/ GetChannelKey(s, "poll_key", "poll_show") \/ PollShow(s)
       \/ GetKeys(s, "send_keys", "send_key")
       \/ GetChannelKey(s, "send_key", "send_check")
       \/ Check(s, "send_check", "send_insert") \/ SendInsert(s) \/ SendEcho(s)
    /\ UNCHANGED <<acts, alone, whole>>

-----------------------------------------------------------------------------
(* Properties.                                                             *)

\* What the page shows of its channels are messages of its own account, each
\* once, that the server has taken in for that channel: a send that is refused
\* after its checks, or whose channel or account goes in between, shows nothing.
\* No poll gets to show the others' (see UpgradeFreezes), nor a second copy.
ShownIsSent ==
    /\ \A i \in DOMAIN view :
          /\ view[i].from = Me /\ view[i].seq \in DOMAIN rows
          /\ rows[view[i].seq] = [chan |-> view[i].chan, from |-> Me]
    /\ \A i, j \in DOMAIN view : view[i].seq = view[j].seq => i = j
=============================================================================
