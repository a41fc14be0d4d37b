---------------------------- MODULE ClientProofs ----------------------------
(* Proofs about Client: what the contact list of a page, its copy in        *)
(* IndexedDB and the server's rows have in common, and that the page shows  *)
(* of a channel what it has sent there, once.                               *)
EXTENDS Client, FiniteSetTheorems, SequenceTheorems, TLAPS

AddSteps == {"add_search", "add_open", "add_read", "add_put", "add_copy", "add_post"}
RemoveSteps == {"remove_open", "remove_read", "remove_put"}
LoadSteps == {"load_fetch", "load_show"}
PollSteps == {"poll_check", "poll_select", "poll_keys", "poll_key", "poll_show"}
SendSteps == {"send_keys", "send_key", "send_check", "send_insert", "send_echo"}
ContactsSteps == AddSteps \cup RemoveSteps \cup LoadSteps
ChannelsSteps == PollSteps \cup SendSteps
Steps == {"idle"} \cup ContactsSteps \cup ChannelsSteps

\* What a call keeps, by the step it is at.
Arrays == Lists \cup {<< >>}
Editing(op) == [op : {op}, who : People, keys : 0..MaxKeys, array : Arrays]
Loading == [op : {"load"}, rows : Arrays]
Polls == [op : {"poll"}, chan : Chans, rows : SUBSET Nat]
Sending == [op : {"send"}, chan : Chans, seq : Nat]
Row == [chan : Chans, from : Senders]

CallType(s) ==
    /\ pc[s] = "idle" => call[s] = Idle
    /\ pc[s] \in AddSteps => call[s] \in Editing("add")
    /\ pc[s] \in RemoveSteps => call[s] \in Editing("remove")
    /\ pc[s] \in LoadSteps => call[s] \in Loading
    /\ pc[s] \in PollSteps => call[s] \in Polls
    /\ pc[s] \in SendSteps => call[s] \in Sending

\* The types of what the calls and the contacts are about ...
CallTypes ==
    /\ pc \in [Slots -> Steps] /\ call = [s \in Slots |-> call[s]]
    /\ \A s \in Slots : CallType(s)
    /\ published \in Lists /\ stored \in Lists /\ shown \in Lists /\ remote \in Lists
    /\ version \in {2, 3} /\ asked \in BOOLEAN /\ (asked => version = 2)
    /\ gone \subseteq Senders \cup Chans /\ rows \in Seq(Row)
    /\ open \subseteq Chans /\ current \in Chans \cup {NoChan}

\* ... and no connection from before an upgrade is in use after it.
Connected == {"add_read", "add_put", "remove_read", "remove_put"}
Frozen == \A s \in Slots : pc[s] \in Connected => version = 2

\* Only slot s moves.
Only(s) ==
    /\ pc' \in [Slots -> Steps] /\ call' = [t \in Slots |-> call'[t]]
    /\ \A t \in Slots \ {s} : pc'[t] = pc[t] /\ call'[t] = call[t]

LEMMA KeepMoves ==
    ASSUME CallTypes, NEW s \in Slots, NEW step \in Steps, NEW c, Keep(s, step, c)
    PROVE  pc'[s] = step /\ call'[s] = c /\ Only(s)
<1>1. pc'[s] = step /\ pc' \in [Slots -> Steps] /\ \A t \in Slots \ {s} : pc'[t] = pc[t]
  BY DEF Keep, CallTypes
<1>2. call = [t \in Slots |-> call[t]] /\ call' = [call EXCEPT ![s] = c]
  BY DEF Keep, CallTypes
<1>3. DOMAIN call = Slots
  BY <1>2
<1>4. call'[s] = c /\ \A t \in Slots \ {s} : call'[t] = call[t]
  BY <1>2, <1>3
<1>5. call' = [t \in Slots |-> call'[t]]
  BY <1>2, <1>3
<1>6. QED
  BY <1>1, <1>4, <1>5 DEF Only

LEMMA EndMoves ==
    ASSUME CallTypes, NEW s \in Slots, End(s)
    PROVE  pc'[s] = "idle" /\ call'[s] = Idle /\ Only(s) /\ CallType(s)'
<1>1. "idle" \in Steps /\ Keep(s, "idle", Idle)
  BY DEF End, Steps
<1>2. pc'[s] = "idle" /\ call'[s] = Idle /\ Only(s)
  BY <1>1, KeepMoves
<1>3. CallType(s)'
  BY <1>2 DEF CallType, AddSteps, RemoveSteps, LoadSteps, PollSteps, SendSteps
<1>4. QED
  BY <1>2, <1>3

\* Each step of the two stores keeps the types; the other store is not moved.
ContactsMove(s) ==
    /\ pc[s] \in ContactsSteps /\ pc'[s] \in ContactsSteps \cup {"idle"}
    /\ Only(s) /\ CallType(s)'
    /\ published' = published /\ stored' \in Lists /\ shown' \in Lists /\ remote' \in Lists
    /\ pc'[s] \in Connected => pc[s] \in Connected \/ version = 2
    /\ UNCHANGED <<version, asked, acts, alone>>
    /\ whole' \in {whole, FALSE}

LEMMA RefusedMoves ==
    ASSUME CallTypes, NEW s \in Slots, pc[s] \in ContactsSteps, Refused(s), Steady, UNCHANGED contacts
    PROVE  ContactsMove(s) /\ pc'[s] = "idle" /\ whole' = FALSE
<1>1. pc'[s] = "idle" /\ Only(s) /\ CallType(s)' /\ whole' = FALSE
  BY EndMoves DEF Refused
<1>2. QED
  BY <1>1 DEF ContactsMove, Steady, contacts, local, Connected, CallTypes

LEMMA AddSearchMoves ==
    ASSUME CallTypes, NEW s \in Slots, AddSearch(s), Steady
    PROVE  /\ ContactsMove(s) /\ pc[s] = "add_search" /\ UNCHANGED contacts /\ whole' = whole
           /\ \/ pc'[s] = "idle"
              \/ /\ pc'[s] = "add_open" /\ call'[s].who = call[s].who
                 /\ published[call[s].who] # 0 /\ call'[s].keys = published[call[s].who]
<1> DEFINE p == call[s].who
           c == [call[s] EXCEPT !.keys = published[p]]
<1>1. pc[s] = "add_search" /\ UNCHANGED contacts /\ whole' = whole
  BY DEF AddSearch
<1>2. call[s] \in Editing("add") /\ p \in People /\ published[p] \in 0..MaxKeys
  <2>1. call[s] \in Editing("add")
    BY <1>1 DEF CallTypes, CallType, AddSteps
  <2>2. p \in People
    BY <2>1 DEF Editing
  <2>3. QED
    BY <2>1, <2>2 DEF CallTypes, Lists
<1>3. CASE published[p] = 0 /\ End(s)
  <2>1. pc'[s] = "idle" /\ Only(s) /\ CallType(s)'
    BY <1>3, EndMoves
  <2>2. QED
    BY <1>1, <2>1 DEF ContactsMove, Steady, contacts, local, Connected, CallTypes, ContactsSteps, AddSteps
<1>4. CASE published[p] # 0 /\ Keep(s, "add_open", c)
  <2>1. c \in Editing("add") /\ c.who = p /\ c.keys = published[p]
    BY <1>2 DEF Editing
  <2> HIDE DEF c
  <2>2. "add_open" \in Steps
    BY DEF Steps, ContactsSteps, AddSteps
  <2>3. pc'[s] = "add_open" /\ call'[s] = c /\ Only(s)
    BY <1>4, <2>2, KeepMoves
  <2>4. CallType(s)'
    BY <2>1, <2>3 DEF CallType, Editing, Lists, Arrays, AddSteps, RemoveSteps, LoadSteps, PollSteps, SendSteps
  <2>5. QED
    BY <1>1, <1>4, <2>1, <2>3, <2>4 DEF ContactsMove, Steady, contacts, local, Connected, CallTypes,
                                         ContactsSteps, AddSteps
<1>5. QED
  BY <1>3, <1>4 DEF AddSearch

\* A step to another of the same call.
LEMMA GotoMoves ==
    ASSUME CallTypes, NEW s \in Slots, NEW to, Goto(s, to),
           \/ pc[s] \in AddSteps /\ to \in AddSteps
           \/ pc[s] \in RemoveSteps /\ to \in RemoveSteps
           \/ pc[s] \in PollSteps /\ to \in PollSteps
           \/ pc[s] \in SendSteps /\ to \in SendSteps
    PROVE  pc'[s] = to /\ call'[s] = call[s] /\ Only(s) /\ (published' = published => CallType(s)')
<1>1. to \in Steps /\ Keep(s, to, call[s])
  BY DEF Steps, ContactsSteps, ChannelsSteps, Goto
<1>2. pc'[s] = to /\ call'[s] = call[s] /\ Only(s)
  <2>1. PICK c : c = call[s]
    OBVIOUS
  <2>2. Keep(s, to, c)
    BY <1>1, <2>1
  <2>3. QED
    BY <1>1, <2>1, <2>2, KeepMoves
<1>3. CallType(s)'
  <2>1. CallType(s)
    BY DEF CallTypes
  <2>2. QED
    BY <1>2, <2>1 DEF CallType, Editing, Loading, Polls, Sending, Lists, Arrays, Idle,
                      AddSteps, RemoveSteps, LoadSteps, PollSteps, SendSteps
<1>4. QED
  BY <1>2, <1>3

\* storeContact and deleteContact open a connection, and addContact once more.
LEMMA OpenMoves ==
    ASSUME CallTypes, NEW s \in Slots, NEW from, NEW to, Open(s, from, to), Steady,
           \/ from = "add_open" /\ to = "add_read"
           \/ from = "add_copy" /\ to = "add_post"
           \/ from = "remove_open" /\ to = "remove_read"
    PROVE  /\ ContactsMove(s) /\ pc[s] = from /\ UNCHANGED contacts
           /\ \/ pc'[s] = to /\ call'[s] = call[s] /\ whole' = whole
              \/ pc'[s] = "idle" /\ whole' = FALSE
<1>1. pc[s] = from /\ UNCHANGED contacts
  BY DEF Open
<1>2. CASE Refused(s)
  <2>1. pc[s] \in ContactsSteps
    BY <1>1 DEF ContactsSteps, AddSteps, RemoveSteps
  <2>2. QED
    BY <1>1, <1>2, <2>1, RefusedMoves
<1>3. CASE CanOpen /\ Goto(s, to) /\ UNCHANGED whole
  <2>1. \/ pc[s] \in AddSteps /\ to \in AddSteps
        \/ pc[s] \in RemoveSteps /\ to \in RemoveSteps
    BY <1>1 DEF AddSteps, RemoveSteps
  <2>2. pc'[s] = to /\ call'[s] = call[s] /\ Only(s) /\ CallType(s)'
    BY <1>1, <1>3, <2>1, GotoMoves DEF contacts
  <2>3. QED
    BY <1>1, <1>3, <2>1, <2>2 DEF ContactsMove, Steady, contacts, local, CanOpen, DB_VERSION, CallTypes, ContactsSteps
<1>4. QED
  BY <1>2, <1>3 DEF Open

LEMMA ReadMoves ==
    ASSUME CallTypes, NEW s \in Slots, NEW from, NEW to, Read(s, from, to), Steady,
           \/ from = "add_read" /\ to = "add_put"
           \/ from = "remove_read" /\ to = "remove_put"
    PROVE  /\ ContactsMove(s) /\ pc[s] = from /\ UNCHANGED contacts
           /\ \/ /\ pc'[s] = to /\ whole' = whole /\ call'[s].who = call[s].who
                 /\ call'[s].keys = call[s].keys /\ call'[s].array = stored
              \/ pc'[s] = "idle" /\ whole' = FALSE
<1>1. pc[s] = from /\ UNCHANGED contacts
  BY DEF Read
<1>2. CASE Refused(s)
  <2>1. pc[s] \in ContactsSteps
    BY <1>1 DEF ContactsSteps, AddSteps, RemoveSteps
  <2>2. QED
    BY <1>1, <1>2, <2>1, RefusedMoves
<1> DEFINE c == [call[s] EXCEPT !.array = stored]
<1>3. CASE CanOpen /\ UNCHANGED whole /\ Keep(s, to, c)
  <2>1. \/ from = "add_read" /\ to = "add_put" /\ call[s] \in Editing("add")
        \/ from = "remove_read" /\ to = "remove_put" /\ call[s] \in Editing("remove")
    BY <1>1 DEF CallTypes, CallType, AddSteps, RemoveSteps
  <2>2. stored \in Arrays
    BY DEF CallTypes, Arrays
  <2>3. /\ c.who = call[s].who /\ c.keys = call[s].keys /\ c.array = stored
        /\ \/ to = "add_put" /\ c \in Editing("add")
           \/ to = "remove_put" /\ c \in Editing("remove")
    BY <2>1, <2>2 DEF Editing
  <2> HIDE DEF c
  <2>4. to \in Steps
    BY DEF Steps, ContactsSteps, AddSteps, RemoveSteps
  <2>5. pc'[s] = to /\ call'[s] = c /\ Only(s)
    BY <1>3, <2>4, KeepMoves
  <2>6. CallType(s)'
    BY <2>3, <2>5 DEF CallType, Editing, Lists, Arrays, AddSteps, RemoveSteps, LoadSteps, PollSteps, SendSteps
  <2>7. pc[s] \in ContactsSteps /\ to \in ContactsSteps
    BY <1>1 DEF ContactsSteps, AddSteps, RemoveSteps
  <2>8. ContactsMove(s)
    BY <1>1, <1>3, <2>5, <2>6, <2>7 DEF ContactsMove, Steady, contacts, local, CanOpen, CallTypes, Connected
  <2>9. QED
    BY <1>1, <1>3, <2>3, <2>5, <2>8
<1>4. QED
  BY <1>2, <1>3 DEF Read

\* A call at a putting step has read the array.
LEMMA PutFacts ==
    ASSUME CallTypes, NEW s \in Slots, pc[s] \in AddSteps \cup RemoveSteps
    PROVE  /\ call[s].who \in People /\ call[s].keys \in 0..MaxKeys
           /\ call[s].array \in Arrays
<1>1. call[s] \in Editing("add") \cup Editing("remove")
  BY DEF CallTypes, CallType
<1>2. QED
  BY <1>1 DEF Editing

LEMMA ListChange ==
    ASSUME NEW f \in Lists, NEW p \in People, NEW k \in 0..MaxKeys
    PROVE  /\ [f EXCEPT ![p] = k] \in Lists /\ [f EXCEPT ![p] = k][p] = k
           /\ \A q \in People \ {p} : [f EXCEPT ![p] = k][q] = f[q]
  BY DEF Lists

LEMMA AddPutMoves ==
    ASSUME CallTypes, NEW s \in Slots, AddPut(s), Steady, call[s].array \in Lists
    PROVE  /\ ContactsMove(s) /\ pc[s] = "add_put" /\ pc'[s] = "add_copy" /\ call'[s] = call[s]
           /\ stored' = [call[s].array EXCEPT ![call[s].who] = call[s].keys]
           /\ shown' = [shown EXCEPT ![call[s].who] = call[s].keys]
           /\ UNCHANGED <<published, remote, whole>>
<1>1. /\ pc[s] = "add_put" /\ Goto(s, "add_copy")
      /\ stored' = [call[s].array EXCEPT ![call[s].who] = call[s].keys]
      /\ shown' = [shown EXCEPT ![call[s].who] = call[s].keys]
      /\ UNCHANGED <<published, remote, whole>>
  BY DEF AddPut
<1>2. pc[s] \in AddSteps /\ "add_copy" \in AddSteps
  BY <1>1 DEF AddSteps
<1>3. pc'[s] = "add_copy" /\ call'[s] = call[s] /\ Only(s) /\ CallType(s)'
  BY <1>1, <1>2, GotoMoves
<1>4. call[s].who \in People /\ call[s].keys \in 0..MaxKeys
  BY <1>2, PutFacts
<1>5. shown \in Lists
  BY DEF CallTypes
<1>6. stored' \in Lists /\ shown' \in Lists
  BY <1>1, <1>4, <1>5, ListChange
<1>7. ContactsMove(s)
  BY <1>1, <1>2, <1>3, <1>6 DEF ContactsMove, Steady, CallTypes, Connected, ContactsSteps
<1>8. QED
  BY <1>1, <1>3, <1>7

LEMMA RemovePutMoves ==
    ASSUME CallTypes, NEW s \in Slots, RemovePut(s), Steady, call[s].array \in Lists
    PROVE  /\ ContactsMove(s) /\ pc[s] = "remove_put" /\ pc'[s] = "idle"
           /\ stored' = [call[s].array EXCEPT ![call[s].who] = 0]
           /\ shown' = [shown EXCEPT ![call[s].who] = 0]
           /\ UNCHANGED <<published, remote, whole>>
<1>1. /\ pc[s] = "remove_put" /\ End(s)
      /\ stored' = [call[s].array EXCEPT ![call[s].who] = 0]
      /\ shown' = [shown EXCEPT ![call[s].who] = 0]
      /\ UNCHANGED <<published, remote, whole>>
  BY DEF RemovePut
<1>2. pc[s] \in RemoveSteps
  BY <1>1 DEF RemoveSteps
<1>3. pc'[s] = "idle" /\ Only(s) /\ CallType(s)'
  BY <1>1, EndMoves
<1>4. call[s].who \in People /\ 0 \in 0..MaxKeys
  BY <1>2, PutFacts, ContactsAssumption
<1>5. shown \in Lists
  BY DEF CallTypes
<1>6. stored' \in Lists /\ shown' \in Lists
  BY <1>1, <1>4, <1>5, ListChange
<1>7. ContactsMove(s)
  BY <1>1, <1>2, <1>3, <1>6 DEF ContactsMove, Steady, CallTypes, Connected, ContactsSteps
<1>8. QED
  BY <1>1, <1>3, <1>7

LEMMA AddPostMoves ==
    ASSUME CallTypes, NEW s \in Slots, AddPost(s), Steady
    PROVE  /\ ContactsMove(s) /\ pc[s] = "add_post" /\ pc'[s] = "idle"
           /\ remote' = [remote EXCEPT ![call[s].who] = call[s].keys]
           /\ UNCHANGED <<published, stored, shown, whole>>
<1>1. /\ pc[s] = "add_post" /\ End(s)
      /\ remote' = [remote EXCEPT ![call[s].who] = call[s].keys]
      /\ UNCHANGED <<published, stored, shown, whole>>
  BY DEF AddPost, local
<1>2. pc[s] \in AddSteps
  BY <1>1 DEF AddSteps
<1>3. pc'[s] = "idle" /\ Only(s) /\ CallType(s)'
  BY <1>1, EndMoves
<1>4. call[s].who \in People /\ call[s].keys \in 0..MaxKeys /\ remote \in Lists
  BY <1>2, PutFacts DEF CallTypes
<1>5. remote' \in Lists
  BY <1>1, <1>4, ListChange
<1>6. ContactsMove(s)
  BY <1>1, <1>2, <1>3, <1>5 DEF ContactsMove, Steady, CallTypes, Connected, ContactsSteps
<1>7. QED
  BY <1>1, <1>3, <1>6

LEMMA LoadFetchMoves ==
    ASSUME CallTypes, NEW s \in Slots, LoadFetch(s), Steady
    PROVE  /\ ContactsMove(s) /\ pc[s] = "load_fetch" /\ pc'[s] = "load_show"
           /\ call'[s].rows = remote /\ UNCHANGED contacts /\ whole' = whole
<1> DEFINE c == [call[s] EXCEPT !.rows = remote]
<1>1. pc[s] = "load_fetch" /\ Keep(s, "load_show", c) /\ UNCHANGED contacts /\ whole' = whole
  BY DEF LoadFetch
<1>2. call[s] \in Loading /\ remote \in Arrays
  BY <1>1 DEF CallTypes, CallType, LoadSteps, Arrays
<1>3. c \in Loading /\ c.rows = remote
  BY <1>2 DEF Loading
<1> HIDE DEF c
<1>4. "load_show" \in Steps
  BY DEF Steps, ContactsSteps, LoadSteps
<1>5. pc'[s] = "load_show" /\ call'[s] = c /\ Only(s)
  BY <1>1, <1>4, KeepMoves
<1>6. CallType(s)'
  BY <1>3, <1>5 DEF CallType, Loading, Lists, Arrays, AddSteps, RemoveSteps, LoadSteps, PollSteps, SendSteps
<1>7. ContactsMove(s)
  BY <1>1, <1>5, <1>6 DEF ContactsMove, Steady, contacts, local, CallTypes, Connected, ContactsSteps, LoadSteps
<1>8. QED
  BY <1>1, <1>3, <1>5, <1>7

LEMMA LoadShowMoves ==
    ASSUME CallTypes, NEW s \in Slots, LoadShow(s), Steady, call[s].rows \in Lists
    PROVE  /\ ContactsMove(s) /\ pc[s] = "load_show" /\ pc'[s] = "idle"
           /\ UNCHANGED <<published, stored, remote>>
           /\ \/ /\ whole' = whole
                 /\ shown' = [p \in People |->
                       IF stored[p] # 0 /\ call[s].rows[p] # 0 THEN call[s].rows[p] ELSE stored[p]]
              \/ whole' = FALSE /\ shown' = shown
<1>1. pc[s] = "load_show" /\ UNCHANGED <<published, stored, remote>> /\ End(s)
  BY DEF LoadShow, Refused
<1>2. pc'[s] = "idle" /\ Only(s) /\ CallType(s)'
  BY <1>1, EndMoves
<1>3. \/ /\ whole' = whole
         /\ shown' = [p \in People |->
               IF stored[p] # 0 /\ call[s].rows[p] # 0 THEN call[s].rows[p] ELSE stored[p]]
      \/ whole' = FALSE /\ shown' = shown
  BY DEF LoadShow, Refused
<1>4. shown' \in Lists
  BY <1>3 DEF CallTypes, Lists
<1>5. ContactsMove(s)
  BY <1>1, <1>2, <1>3, <1>4 DEF ContactsMove, Steady, CallTypes, Connected, ContactsSteps, LoadSteps
<1>6. QED
  BY <1>1, <1>2, <1>3, <1>5

-----------------------------------------------------------------------------
(* The calls of the channels.                                                *)

ChannelsMove(s) ==
    /\ pc[s] \in ChannelsSteps /\ pc'[s] \in ChannelsSteps \cup {"idle"}
    /\ Only(s) /\ CallType(s)' /\ UNCHANGED contacts
    /\ UNCHANGED <<version, asked, acts, alone, whole, gone, open, current>>

ChannelsFrame == UNCHANGED <<acts, alone, whole, contacts>>

\* A step that goes on with the call as it is, or ends it.
LEMMA PassMoves ==
    ASSUME CallTypes, NEW s \in Slots, NEW to, Goto(s, to) \/ End(s), ChannelsFrame,
           UNCHANGED <<version, asked, gone, open, current>>,
           \/ pc[s] \in PollSteps /\ to \in PollSteps
           \/ pc[s] \in SendSteps /\ to \in SendSteps
    PROVE  /\ ChannelsMove(s)
           /\ pc'[s] = "idle" \/ (pc'[s] = to /\ call'[s] = call[s])
           /\ Goto(s, to) => pc'[s] = to /\ call'[s] = call[s]
<1>1. CASE Goto(s, to)
  <2>1. pc'[s] = to /\ call'[s] = call[s] /\ Only(s) /\ CallType(s)'
    BY <1>1, GotoMoves DEF ChannelsFrame, contacts
  <2>2. QED
    BY <2>1 DEF ChannelsMove, ChannelsFrame, ChannelsSteps
<1>2. CASE End(s) /\ ~Goto(s, to)
  <2>1. pc'[s] = "idle" /\ Only(s) /\ CallType(s)'
    BY <1>2, EndMoves
  <2>2. QED
    BY <1>2, <2>1 DEF ChannelsMove, ChannelsFrame, ChannelsSteps
<1>3. QED
  BY <1>1, <1>2

LEMMA PollSelectMoves ==
    ASSUME CallTypes, NEW s \in Slots, PollSelect(s), ChannelsFrame
    PROVE  /\ ChannelsMove(s) /\ pc[s] = "poll_select" /\ pc'[s] = "poll_keys"
           /\ call'[s].chan = call[s].chan /\ call'[s].rows = Newest(call[s].chan)
           /\ UNCHANGED <<rows, view>>
<1> DEFINE n == Newest(call[s].chan)
           c == [call[s] EXCEPT !.rows = n]
<1>1. pc[s] = "poll_select" /\ Keep(s, "poll_keys", c) /\ UNCHANGED <<channels, version, asked>>
  BY DEF PollSelect
<1>2. call[s] \in Polls
  BY <1>1 DEF CallTypes, CallType, PollSteps
<1>3. n \in SUBSET Nat
  <2>1. DOMAIN rows = 1..Len(rows) /\ Len(rows) \in Nat
    BY DEF CallTypes
  <2>2. QED
    BY <2>1 DEF Newest, RowsOf
<1> HIDE DEF n
<1>4. c \in Polls /\ c.chan = call[s].chan /\ c.rows = n
  BY <1>2, <1>3 DEF Polls
<1> HIDE DEF c
<1>5. "poll_keys" \in Steps
  BY DEF Steps, ChannelsSteps, PollSteps
<1>6. pc'[s] = "poll_keys" /\ call'[s] = c /\ Only(s)
  BY <1>1, <1>5, KeepMoves
<1>7. CallType(s)'
  BY <1>4, <1>6 DEF CallType, Polls, AddSteps, RemoveSteps, LoadSteps, PollSteps, SendSteps
<1>8. ChannelsMove(s)
  BY <1>1, <1>6, <1>7 DEF ChannelsMove, ChannelsFrame, ChannelsSteps, PollSteps, channels
<1>9. QED
  BY <1>1, <1>4, <1>6, <1>8 DEF n, channels

\* A send that has not inserted its row yet.
Inserting == {"send_keys", "send_key", "send_check", "send_insert"}

\* The steps of polls and sends, and what each changes.
LEMMA ChannelsStepMoves ==
    ASSUME CallTypes, NEW s \in Slots, ChannelsStep(s), UNCHANGED contacts
    PROVE  /\ ChannelsMove(s)
           /\ pc'[s] \in Inserting => pc[s] \in Inserting
           /\ \/ /\ UNCHANGED <<rows, view>> /\ pc'[s] # "send_echo"
                 /\ pc'[s] = "poll_show" => version = 3
              \/ PollShow(s) /\ pc[s] = "poll_show" /\ pc'[s] = "idle" /\ UNCHANGED rows
              \/ /\ Insert(call[s].chan, Me) /\ view' = view /\ pc[s] = "send_insert"
                 /\ pc'[s] = "send_echo" /\ call[s].chan \in Chans
                 /\ call'[s].chan = call[s].chan /\ call'[s].seq = Len(rows) + 1
              \/ /\ view' = Append(view, Echo(call[s].chan, call[s].seq)) /\ UNCHANGED rows /\ pc[s] = "send_echo"
                 /\ pc'[s] = "idle" /\ call[s].chan \in Chans
<1>0. ChannelsFrame
  BY DEF ChannelsStep, ChannelsFrame
<1>1. pc[s] \in SendSteps => call[s].chan \in Chans
  BY DEF CallTypes, CallType, Sending
<1>2. ASSUME NEW from, NEW to,
             \/ from \in PollSteps /\ to \in PollSteps
             \/ from \in SendSteps /\ to \in SendSteps,
             \/ Check(s, from, to) \/ GetKeys(s, from, to) \/ GetChannelKey(s, from, to)
      PROVE  /\ ChannelsMove(s) /\ pc[s] = from /\ UNCHANGED <<rows, view>>
             /\ pc'[s] = "idle" \/ (pc'[s] = to /\ call'[s] = call[s])
  <2>1. pc[s] = from /\ (Goto(s, to) \/ End(s)) /\ UNCHANGED <<channels, version, asked>>
    BY <1>2 DEF Check, GetKeys, GetChannelKey
  <2>2. ChannelsMove(s) /\ (pc'[s] = "idle" \/ (pc'[s] = to /\ call'[s] = call[s]))
    BY <1>0, <1>2, <2>1, PassMoves DEF channels
  <2>3. QED
    BY <2>1, <2>2 DEF channels
<1>3. CASE Check(s, "poll_check", "poll_select")
  BY <1>2, <1>3 DEF PollSteps, Inserting
<1>4. CASE GetKeys(s, "poll_keys", "poll_key")
  BY <1>2, <1>4 DEF PollSteps, Inserting
<1>5. CASE GetChannelKey(s, "poll_key", "poll_show")
  BY <1>2, <1>5 DEF PollSteps, Inserting, GetChannelKey
<1>6. CASE GetKeys(s, "send_keys", "send_key")
  BY <1>2, <1>6 DEF SendSteps, Inserting
<1>7. CASE GetChannelKey(s, "send_key", "send_check")
  BY <1>2, <1>7 DEF SendSteps, Inserting
<1>8. CASE Check(s, "send_check", "send_insert")
  BY <1>2, <1>8 DEF SendSteps, Inserting
<1>9. CASE PollSelect(s)
  BY <1>0, <1>9, PollSelectMoves DEF Inserting
<1>10. CASE PollShow(s)
  <2>1. pc[s] = "poll_show" /\ End(s) /\ UNCHANGED <<rows, gone, open, current, version, asked>>
    BY <1>10 DEF PollShow
  <2>2. pc'[s] = "idle" /\ Only(s) /\ CallType(s)'
    BY <2>1, EndMoves
  <2>3. QED
    BY <1>0, <1>10, <2>1, <2>2 DEF ChannelsMove, ChannelsFrame, ChannelsSteps, PollSteps, Inserting
<1>11. CASE SendInsert(s)
  <2> DEFINE c == [call[s] EXCEPT !.seq = Len(rows) + 1]
  <2>1. /\ pc[s] = "send_insert" /\ UNCHANGED <<gone, open, current, view, version, asked>>
        /\ \/ Insert(call[s].chan, Me) /\ Keep(s, "send_echo", c)
           \/ End(s) /\ UNCHANGED rows
    BY <1>11 DEF SendInsert
  <2>2. pc[s] \in SendSteps /\ "send_echo" \in SendSteps /\ "send_echo" \in Steps
    BY <2>1 DEF SendSteps, ChannelsSteps, Steps
  <2>3. c \in Sending /\ c.chan = call[s].chan /\ c.seq = Len(rows) + 1
    <3>1. call[s] \in Sending /\ Len(rows) + 1 \in Nat
      BY <2>2 DEF CallTypes, CallType
    <3>2. QED
      BY <3>1 DEF Sending
  <2> HIDE DEF c
  <2>4. CASE Insert(call[s].chan, Me) /\ Keep(s, "send_echo", c)
    <3>1. pc'[s] = "send_echo" /\ call'[s] = c /\ Only(s)
      BY <2>2, <2>4, KeepMoves
    <3>2. CallType(s)'
      BY <2>3, <3>1 DEF CallType, Sending, AddSteps, RemoveSteps, LoadSteps, PollSteps, SendSteps
    <3>3. ChannelsMove(s)
      BY <1>0, <2>1, <2>2, <3>1, <3>2 DEF ChannelsMove, ChannelsFrame, ChannelsSteps
    <3>4. QED
      BY <1>1, <2>1, <2>2, <2>3, <2>4, <3>1, <3>3 DEF Inserting
  <2>5. CASE End(s) /\ UNCHANGED rows
    <3>1. pc'[s] = "idle" /\ Only(s) /\ CallType(s)'
      BY <2>5, EndMoves
    <3>2. QED
      BY <1>0, <2>1, <2>2, <2>5, <3>1 DEF ChannelsMove, ChannelsFrame, ChannelsSteps, Inserting
  <2>6. QED
    BY <2>1, <2>4, <2>5
<1>12. CASE SendEcho(s)
  <2>1. /\ pc[s] = "send_echo" /\ view' = Append(view, Echo(call[s].chan, call[s].seq)) /\ End(s)
        /\ UNCHANGED <<rows, gone, open, current, version, asked>>
    BY <1>12 DEF SendEcho
  <2>2. pc[s] \in SendSteps
    BY <2>1 DEF SendSteps
  <2>3. pc'[s] = "idle" /\ Only(s) /\ CallType(s)'
    BY <2>1, EndMoves
  <2>4. QED
    BY <1>0, <1>1, <2>1, <2>2, <2>3 DEF ChannelsMove, ChannelsFrame, ChannelsSteps, Inserting
<1>13. QED
  BY <1>3, <1>4, <1>5, <1>6, <1>7, <1>8, <1>9, <1>10, <1>11, <1>12 DEF ChannelsStep

-----------------------------------------------------------------------------
(* The start of a call: alone says whether another of its kind is under way. *)

AloneIn(S) == \A s, t \in Slots : pc[s] \in S /\ pc[t] \in S => s = t

OneByOne == "contacts" \in alone => AloneIn(ContactsSteps)

LEMMA StepsDiffer ==
    /\ "idle" \notin ContactsSteps /\ "idle" \notin ChannelsSteps
    /\ ContactsSteps \cap ChannelsSteps = {}
  BY DEF ContactsSteps, ChannelsSteps, AddSteps, RemoveSteps, LoadSteps, PollSteps, SendSteps

LEMMA KindsAre ==
    /\ Kinds["add"] = "contacts" /\ Kinds["remove"] = "contacts" /\ Kinds["load"] = "contacts"
    /\ Kinds["poll"] = "channels" /\ Kinds["send"] = "channels"
  BY DEF Kinds

LEMMA BusyMeans ==
    ASSUME CallTypes
    PROVE  /\ Busy("contacts") <=> \E t \in Slots : pc[t] \in ContactsSteps
           /\ Busy("channels") <=> \E t \in Slots : pc[t] \in ChannelsSteps
<1>1. ASSUME NEW t \in Slots
      PROVE  /\ pc[t] \in ContactsSteps => pc[t] # "idle" /\ Kinds[call[t].op] = "contacts"
             /\ pc[t] \in ChannelsSteps => pc[t] # "idle" /\ Kinds[call[t].op] = "channels"
             /\ pc[t] # "idle" => pc[t] \in ContactsSteps \/ pc[t] \in ChannelsSteps
  <2>1. pc[t] \in Steps /\ CallType(t)
    BY DEF CallTypes
  <2>2. pc[t] \in ContactsSteps => call[t].op \in {"add", "remove", "load"}
    BY <2>1 DEF CallType, ContactsSteps, Editing, Loading
  <2>3. pc[t] \in ChannelsSteps => call[t].op \in {"poll", "send"}
    BY <2>1 DEF CallType, ChannelsSteps, Polls, Sending
  <2>4. QED
    BY <2>1, <2>2, <2>3, KindsAre, StepsDiffer DEF Steps
<1>2. "contacts" # "channels"
  OBVIOUS
<1>3. QED
  BY <1>1, <1>2 DEF Busy

\* Slot s starts a call, at one of the steps of S.
Begins(s, kind, S) ==
    /\ pc[s] = "idle" /\ pc'[s] \in S /\ Only(s) /\ CallType(s)'
    /\ alone' \subseteq alone
    /\ kind \in alone' => \A t \in Slots : pc[t] \notin S
    /\ UNCHANGED <<version, asked, whole, contacts, channels>>

LEMMA StartMoves ==
    ASSUME CallTypes, NEW s \in Slots, NEW step, NEW c, Start(s, step, c),
           UNCHANGED <<contacts, channels>>
    PROVE  /\ step \in ContactsSteps /\ c.op \in {"add", "remove", "load"} /\ CallType(s)' =>
                 Begins(s, "contacts", ContactsSteps)
           /\ step \in ChannelsSteps /\ c.op \in {"poll", "send"} /\ CallType(s)' =>
                 Begins(s, "channels", ChannelsSteps)
           /\ step \in Steps => pc'[s] = step /\ call'[s] = c
<1>1. /\ pc[s] = "idle" /\ Keep(s, step, c)
      /\ alone' = IF Busy(Kinds[c.op]) THEN alone \ {Kinds[c.op]} ELSE alone
      /\ UNCHANGED <<version, asked, whole>>
  BY DEF Start
<1>2. step \in Steps => pc'[s] = step /\ call'[s] = c /\ Only(s)
  BY <1>1, KeepMoves
<1>3. step \in ContactsSteps \/ step \in ChannelsSteps => step \in Steps
  BY DEF Steps
<1>4. ASSUME step \in ContactsSteps, c.op \in {"add", "remove", "load"}
      PROVE  /\ alone' \subseteq alone
             /\ "contacts" \in alone' => \A t \in Slots : pc[t] \notin ContactsSteps
  <2>1. Kinds[c.op] = "contacts"
    BY <1>4, KindsAre
  <2>2. alone' = IF Busy("contacts") THEN alone \ {"contacts"} ELSE alone
    BY <1>1, <2>1
  <2>3. QED
    BY <2>2, BusyMeans
<1>5. ASSUME step \in ChannelsSteps, c.op \in {"poll", "send"}
      PROVE  /\ alone' \subseteq alone
             /\ "channels" \in alone' => \A t \in Slots : pc[t] \notin ChannelsSteps
  <2>1. Kinds[c.op] = "channels"
    BY <1>5, KindsAre
  <2>2. alone' = IF Busy("channels") THEN alone \ {"channels"} ELSE alone
    BY <1>1, <2>1
  <2>3. QED
    BY <2>2, BusyMeans
<1>6. QED
  BY <1>1, <1>2, <1>3, <1>4, <1>5 DEF Begins

LEMMA StartContactsMoves ==
    ASSUME CallTypes, NEW s \in Slots, StartContacts(s), UNCHANGED channels
    PROVE  /\ Begins(s, "contacts", ContactsSteps)
           /\ pc'[s] \in {"add_search", "remove_open", "load_fetch"}
<1>0. UNCHANGED contacts
  BY DEF StartContacts
<1>1. << >> \in Arrays /\ 0 \in 0..MaxKeys
  BY ContactsAssumption DEF Arrays
<1>2. ASSUME NEW p \in People, NEW op, NEW step,
             (step = "add_search" /\ op = "add") \/ (step = "remove_open" /\ op = "remove"),
             Start(s, step, [op |-> op, who |-> p, keys |-> 0, array |-> << >>])
      PROVE  /\ Begins(s, "contacts", ContactsSteps)
             /\ pc'[s] \in {"add_search", "remove_open", "load_fetch"}
  <2> DEFINE c == [op |-> op, who |-> p, keys |-> 0, array |-> << >>]
  <2>1. c \in Editing(op) /\ c.op = op
    BY <1>1 DEF Editing
  <2>2. Start(s, step, c)
    BY <1>2
  <2> HIDE DEF c
  <2>3. step \in ContactsSteps /\ step \in Steps
    BY <1>2 DEF ContactsSteps, AddSteps, RemoveSteps, Steps
  <2>4. pc'[s] = step /\ call'[s] = c
    BY <1>0, <2>2, <2>3, StartMoves
  <2>5. CallType(s)'
    <3>1. UNCHANGED <<published>>
      BY <1>0 DEF contacts
    <3>2. QED
      BY <1>2, <2>1, <2>4 DEF CallType, Editing, Lists, Arrays, AddSteps, RemoveSteps, LoadSteps,
                              PollSteps, SendSteps
  <2>6. QED
    BY <1>0, <1>2, <2>1, <2>2, <2>3, <2>4, <2>5, StartMoves
<1>3. ASSUME Start(s, "load_fetch", [op |-> "load", rows |-> << >>])
      PROVE  /\ Begins(s, "contacts", ContactsSteps)
             /\ pc'[s] \in {"add_search", "remove_open", "load_fetch"}
  <2> DEFINE c == [op |-> "load", rows |-> << >>]
  <2>1. c \in Loading /\ c.op = "load"
    BY <1>1 DEF Loading
  <2>2. Start(s, "load_fetch", c)
    BY <1>3
  <2> HIDE DEF c
  <2>3. "load_fetch" \in ContactsSteps /\ "load_fetch" \in Steps
    BY DEF ContactsSteps, LoadSteps, Steps
  <2>4. pc'[s] = "load_fetch" /\ call'[s] = c
    BY <1>0, <2>2, <2>3, StartMoves
  <2>5. CallType(s)'
    BY <2>1, <2>4 DEF CallType, Loading, Lists, Arrays, AddSteps, RemoveSteps, LoadSteps,
                      PollSteps, SendSteps
  <2>6. QED
    BY <1>0, <2>1, <2>2, <2>3, <2>4, <2>5, StartMoves
<1>4. ASSUME NEW p \in People, NEW op \in {"add", "remove"},
             Start(s, IF op = "add" THEN "add_search" ELSE "remove_open",
                   [op |-> op, who |-> p, keys |-> 0, array |-> << >>])
      PROVE  /\ Begins(s, "contacts", ContactsSteps)
             /\ pc'[s] \in {"add_search", "remove_open", "load_fetch"}
  <2>1. PICK step : step = IF op = "add" THEN "add_search" ELSE "remove_open"
    OBVIOUS
  <2>2. Start(s, step, [op |-> op, who |-> p, keys |-> 0, array |-> << >>])
    BY <1>4, <2>1
  <2>3. (step = "add_search" /\ op = "add") \/ (step = "remove_open" /\ op = "remove")
    BY <2>1
  <2>4. QED
    BY <1>2, <2>2, <2>3
<1>5. QED
  BY <1>3, <1>4 DEF StartContacts

LEMMA StartChannelsMoves ==
    ASSUME CallTypes, NEW s \in Slots, StartPoll(s) \/ StartSend(s), UNCHANGED contacts
    PROVE  /\ Begins(s, "channels", ChannelsSteps)
           /\ \/ pc'[s] = "poll_check" /\ acts' = acts
              \/ pc'[s] = "send_keys" /\ Act
<1>0. UNCHANGED channels /\ current \in Chans
  BY DEF StartPoll, StartSend, CallTypes
<1>1. CASE StartPoll(s)
  <2> DEFINE c == [op |-> "poll", chan |-> current, rows |-> {}]
  <2>1. c \in Polls /\ c.op = "poll"
    BY <1>0 DEF Polls
  <2>2. Start(s, "poll_check", c) /\ acts' = acts
    BY <1>1 DEF StartPoll
  <2> HIDE DEF c
  <2>3. "poll_check" \in ChannelsSteps /\ "poll_check" \in Steps
    BY DEF ChannelsSteps, PollSteps, Steps
  <2>4. pc'[s] = "poll_check" /\ call'[s] = c
    BY <1>0, <2>2, <2>3, StartMoves
  <2>5. CallType(s)'
    BY <2>1, <2>4 DEF CallType, Polls, AddSteps, RemoveSteps, LoadSteps, PollSteps, SendSteps
  <2>6. QED
    BY <1>0, <2>1, <2>2, <2>3, <2>4, <2>5, StartMoves
<1>2. CASE StartSend(s)
  <2> DEFINE c == [op |-> "send", chan |-> current, seq |-> 0]
  <2>1. c \in Sending /\ c.op = "send"
    BY <1>0 DEF Sending
  <2>2. Start(s, "send_keys", c) /\ Act
    BY <1>2 DEF StartSend
  <2> HIDE DEF c
  <2>3. "send_keys" \in ChannelsSteps /\ "send_keys" \in Steps
    BY DEF ChannelsSteps, SendSteps, Steps
  <2>4. pc'[s] = "send_keys" /\ call'[s] = c
    BY <1>0, <2>2, <2>3, StartMoves
  <2>5. CallType(s)'
    BY <2>1, <2>4 DEF CallType, Sending, AddSteps, RemoveSteps, LoadSteps, PollSteps, SendSteps
  <2>6. QED
    BY <1>0, <2>1, <2>2, <2>3, <2>4, <2>5, StartMoves
<1>3. QED
  BY <1>1, <1>2

-----------------------------------------------------------------------------
(* What every step keeps: the types, who is alone, and that no connection    *)
(* is used across an upgrade.                                                *)

Putting == {"add_put", "remove_put"}

\* What a call has read.
Loaded(s) ==
    /\ pc[s] \in Putting => call[s].array \in Lists
    /\ pc[s] = "load_show" => call[s].rows \in Lists

CallsInv == CallTypes /\ (\A s \in Slots : Loaded(s)) /\ OneByOne /\ Frozen

LEMMA ContactsStepMoves ==
    ASSUME CallsInv, NEW s \in Slots, ContactsStep(s), UNCHANGED channels
    PROVE  ContactsMove(s) /\ Loaded(s)'
<1>0. CallTypes /\ Loaded(s) /\ Steady
  BY DEF CallsInv, ContactsStep
<1>1. pc'[s] = "idle" => Loaded(s)'
  BY DEF Loaded, Putting
<1>2. CASE AddSearch(s)
  BY <1>0, <1>2, AddSearchMoves DEF Loaded, Putting
<1>3. CASE Open(s, "add_open", "add_read")
  BY <1>0, <1>3, OpenMoves DEF Loaded, Putting
<1>4. CASE Open(s, "remove_open", "remove_read")
  BY <1>0, <1>4, OpenMoves DEF Loaded, Putting
<1>5. CASE AddCopy(s)
  <2>1. Open(s, "add_copy", "add_post")
    BY <1>5 DEF AddCopy, Open
  <2>2. QED
    BY <1>0, <2>1, OpenMoves DEF Loaded, Putting
<1>6. CASE Read(s, "add_read", "add_put") \/ Read(s, "remove_read", "remove_put")
  <2>1. /\ ContactsMove(s) /\ UNCHANGED contacts
        /\ \/ pc'[s] \in Putting /\ call'[s].array = stored
           \/ pc'[s] = "idle"
    BY <1>0, <1>6, ReadMoves DEF Putting
  <2>2. Lists' = Lists /\ stored \in Lists
    BY <1>0 DEF CallTypes, Lists
  <2>3. QED
    BY <1>1, <2>1, <2>2 DEF Loaded, Putting
<1>7. CASE AddPut(s)
  <2>1. call[s].array \in Lists
    BY <1>0, <1>7 DEF AddPut, Loaded, Putting
  <2>2. ContactsMove(s) /\ pc'[s] = "add_copy"
    BY <1>0, <1>7, <2>1, AddPutMoves
  <2>3. QED
    BY <2>2 DEF Loaded, Putting
<1>8. CASE RemovePut(s)
  <2>1. call[s].array \in Lists
    BY <1>0, <1>8 DEF RemovePut, Loaded, Putting
  <2>2. QED
    BY <1>0, <1>1, <1>8, <2>1, RemovePutMoves
<1>9. CASE AddPost(s)
  BY <1>0, <1>1, <1>9, AddPostMoves
<1>10. CASE LoadFetch(s)
  <2>1. ContactsMove(s) /\ pc'[s] = "load_show" /\ call'[s].rows = remote
    BY <1>0, <1>10, LoadFetchMoves
  <2>2. Lists' = Lists /\ remote \in Lists
    BY <1>0 DEF CallTypes, Lists
  <2>3. QED
    BY <2>1, <2>2 DEF Loaded, Putting
<1>11. CASE LoadShow(s)
  <2>1. call[s].rows \in Lists
    BY <1>0, <1>11 DEF LoadShow, Loaded
  <2>2. QED
    BY <1>0, <1>1, <1>11, <2>1, LoadShowMoves
<1>12. QED
  BY <1>2, <1>3, <1>4, <1>5, <1>6, <1>7, <1>8, <1>9, <1>10, <1>11 DEF ContactsStep

\* The invariant when one slot moves.
LEMMA OnlyInv ==
    ASSUME CallsInv, NEW s \in Slots, Only(s), CallType(s)', Loaded(s)', OneByOne',
           published' \in Lists, stored' \in Lists, shown' \in Lists, remote' \in Lists,
           UNCHANGED <<version, asked>>, rows' \in Seq(Row), gone' \subseteq Senders \cup Chans,
           open' \subseteq Chans, current' \in Chans \cup {NoChan},
           pc'[s] \in Connected => pc[s] \in Connected \/ version = 2
    PROVE  CallsInv'
<1>1. ASSUME NEW t \in Slots PROVE CallType(t)' /\ Loaded(t)'
  <2>1. CallType(t) /\ Loaded(t)
    BY DEF CallsInv, CallTypes
  <2>2. CASE t # s
    <3>1. pc'[t] = pc[t] /\ call'[t] = call[t]
      BY <2>2 DEF Only
    <3>2. QED
      BY <2>1, <3>1 DEF CallType, Loaded, Editing, Loading, Polls, Sending, Arrays, Lists
  <2>3. QED
    BY <2>2
<1>2. pc' \in [Slots -> Steps] /\ call' = [t \in Slots |-> call'[t]]
  BY DEF Only
<1>3. CallTypes'
  <2>1. version \in {2, 3} /\ asked \in BOOLEAN /\ (asked => version = 2)
    BY DEF CallsInv, CallTypes
  <2>2. QED
    BY <1>1, <1>2, <2>1 DEF CallTypes, Lists
<1>4. Frozen'
  <2>1. version \in {2, 3}
    BY DEF CallsInv, CallTypes
  <2>2. ASSUME NEW t \in Slots, pc'[t] \in Connected PROVE version = 2
    <3>1. CASE t = s
      BY <2>1, <2>2, <3>1 DEF CallsInv, Frozen
    <3>2. CASE t # s
      BY <2>2, <3>2 DEF CallsInv, Frozen, Only
    <3>3. QED
      BY <3>1, <3>2
  <2>3. QED
    BY <2>2 DEF Frozen
<1>5. QED
  BY <1>1, <1>3, <1>4 DEF CallsInv

\* A call that goes on or ends leaves the others what they were.
LEMMA OneByOneGoesOn ==
    ASSUME CallsInv, NEW s \in Slots, Only(s), alone' = alone,
           pc'[s] \in ContactsSteps => pc[s] \in ContactsSteps
    PROVE  OneByOne'
<1>1. ASSUME NEW t \in Slots PROVE pc'[t] \in ContactsSteps => pc[t] \in ContactsSteps
  BY <1>1 DEF Only
<1>2. QED
  BY <1>1 DEF CallsInv, OneByOne, AloneIn

LEMMA OneByOneBegins ==
    ASSUME CallsInv, NEW s \in Slots,
           Begins(s, "contacts", ContactsSteps) \/ Begins(s, "channels", ChannelsSteps)
    PROVE  OneByOne'
<1>1. /\ Only(s) /\ alone' \subseteq alone
      /\ pc'[s] \in ContactsSteps /\ "contacts" \in alone' => \A t \in Slots : pc[t] \notin ContactsSteps
  BY StepsDiffer DEF Begins
<1>2. \A t \in Slots \ {s} : pc'[t] = pc[t]
  BY <1>1 DEF Only
<1>3. pc'[s] \in ContactsSteps \/ pc'[s] \notin ContactsSteps
  OBVIOUS
<1>4. QED
  BY <1>1, <1>2, <1>3 DEF CallsInv, OneByOne, AloneIn

LEMMA InsertRow ==
    ASSUME rows \in Seq(Row), NEW c \in Chans, NEW p \in Senders, Insert(c, p)
    PROVE  /\ rows' \in Seq(Row) /\ Len(rows') = Len(rows) + 1 /\ Len(rows) \in Nat
           /\ DOMAIN rows = 1..Len(rows) /\ DOMAIN rows' = 1..(Len(rows) + 1)
           /\ \A i \in DOMAIN rows : rows'[i] = rows[i]
<1>1. [chan |-> c, from |-> p] \in Row
  BY DEF Row
<1>2. QED
  BY <1>1 DEF Insert

\* What moves no slot.
LEMMA NobodyInv ==
    ASSUME CallsInv, UNCHANGED <<pc, call, alone>>, gone' \subseteq Senders \cup Chans,
           published' \in Lists, stored' \in Lists, shown' \in Lists, remote' \in Lists,
           version' \in {2, 3}, asked' \in BOOLEAN, asked' => version' = 2,
           version' = version \/ \A s \in Slots : pc[s] \notin Connected,
           rows' \in Seq(Row), open' \subseteq Chans, current' \in Chans \cup {NoChan}
    PROVE  CallsInv'
<1>1. \A t \in Slots : CallType(t)' /\ Loaded(t)'
  BY DEF CallsInv, CallTypes, CallType, Loaded, Editing, Loading, Polls, Sending, Arrays, Lists
<1>2. CallTypes'
  BY <1>1 DEF CallsInv, CallTypes, Lists
<1>3. OneByOne' /\ Frozen'
  BY DEF CallsInv, OneByOne, AloneIn, Frozen
<1>4. QED
  BY <1>1, <1>2, <1>3 DEF CallsInv

LEMMA CutOffMoves ==
    ASSUME CallsInv, NEW s \in Slots, CutOff(s), UNCHANGED <<contacts, channels>>
    PROVE  pc'[s] = "idle" /\ Only(s) /\ whole' = FALSE /\ CallsInv'
<1>1. End(s) /\ whole' = FALSE /\ UNCHANGED <<version, asked, alone>>
  BY DEF CutOff
<1>2. pc'[s] = "idle" /\ Only(s) /\ CallType(s)'
  BY <1>1, EndMoves DEF CallsInv
<1>3. Loaded(s)' /\ pc'[s] \notin Connected
  BY <1>2 DEF Loaded, Putting, Connected
<1>4. OneByOne'
  BY <1>1, <1>2, OneByOneGoesOn, StepsDiffer
<1>5. /\ published' \in Lists /\ stored' \in Lists /\ shown' \in Lists /\ remote' \in Lists
      /\ rows' \in Seq(Row)
      /\ gone' \subseteq Senders \cup Chans /\ open' \subseteq Chans /\ current' \in Chans \cup {NoChan}
  BY DEF CallsInv, CallTypes, contacts, channels, local
<1>6. QED
  BY <1>1, <1>2, <1>3, <1>4, <1>5, OnlyInv

LEMMA ContactsStepInv ==
    ASSUME CallsInv, NEW s \in Slots, ContactsStep(s), UNCHANGED channels
    PROVE  CallsInv'
<1>1. ContactsMove(s) /\ Loaded(s)'
  BY ContactsStepMoves
<1>2. OneByOne'
  BY <1>1, OneByOneGoesOn, StepsDiffer DEF ContactsMove
<1>3. /\ published' \in Lists /\ rows' \in Seq(Row)
      /\ gone' \subseteq Senders \cup Chans /\ open' \subseteq Chans /\ current' \in Chans \cup {NoChan}
  BY <1>1 DEF CallsInv, CallTypes, channels, ContactsMove
<1>4. QED
  BY <1>1, <1>2, <1>3, OnlyInv DEF ContactsMove

LEMMA ChannelsStepInv ==
    ASSUME CallsInv, NEW s \in Slots, ChannelsStep(s), UNCHANGED contacts
    PROVE  CallsInv'
<1>1. ChannelsMove(s) /\ (rows' = rows \/ (call[s].chan \in Chans /\ Insert(call[s].chan, Me)))
  <2>1. CallTypes
    BY DEF CallsInv
  <2>2. PollSelect(s) \/ PollShow(s) => rows' = rows
    BY DEF PollSelect, PollShow, channels
  <2>3. QED
    BY <2>1, <2>2, ChannelsStepMoves
<1>2. OneByOne'
  BY <1>1, OneByOneGoesOn, StepsDiffer DEF ChannelsMove
<1>3. rows' \in Seq(Row)
  BY <1>1, InsertRow, ChannelsAssumption DEF CallsInv, CallTypes
<1>4. pc'[s] \notin Connected /\ Loaded(s)'
  <2>1. pc'[s] \in ChannelsSteps \cup {"idle"}
    BY <1>1 DEF ChannelsMove
  <2>2. QED
    BY <2>1 DEF Connected, Loaded, Putting, ChannelsSteps, PollSteps, SendSteps
<1>5. /\ published' \in Lists /\ stored' \in Lists /\ shown' \in Lists /\ remote' \in Lists
     
      /\ gone' \subseteq Senders \cup Chans /\ open' \subseteq Chans /\ current' \in Chans \cup {NoChan}
  BY <1>1 DEF CallsInv, CallTypes, ChannelsMove, contacts, local
<1>6. QED
  BY <1>1, <1>2, <1>3, <1>4, <1>5, OnlyInv DEF ChannelsMove

LEMMA BeginsInv ==
    ASSUME CallsInv, NEW s \in Slots,
           \/ Begins(s, "contacts", ContactsSteps)
              /\ pc'[s] \in {"add_search", "remove_open", "load_fetch"}
           \/ Begins(s, "channels", ChannelsSteps)
    PROVE  CallsInv'
<1>1. /\ Only(s) /\ CallType(s)' /\ UNCHANGED <<version, asked, whole, contacts, channels>>
      /\ pc'[s] \in {"add_search", "remove_open", "load_fetch"} \cup ChannelsSteps
  BY DEF Begins
<1>2. OneByOne'
  BY OneByOneBegins
<1>3. pc'[s] \notin Connected /\ Loaded(s)'
  BY <1>1 DEF Connected, Loaded, Putting, ChannelsSteps, PollSteps, SendSteps
<1>4. /\ published' \in Lists /\ stored' \in Lists /\ shown' \in Lists /\ remote' \in Lists
      /\ rows' \in Seq(Row)
      /\ gone' \subseteq Senders \cup Chans /\ open' \subseteq Chans /\ current' \in Chans \cup {NoChan}
  BY <1>1 DEF CallsInv, CallTypes, contacts, channels, local
<1>5. QED
  BY <1>1, <1>2, <1>3, <1>4, OnlyInv

\* What happens outside the calls.
Outside ==
    \/ Upgrade /\ UNCHANGED <<contacts, channels>>
    \/ (Mount \/ \E p \in People : Register(p)) /\ UNCHANGED channels
    \/ (Others \/ SelectChannel \/ StopPolling) /\ UNCHANGED contacts
    \/ \E s \in Slots : AskFor(s)

LEMMA OutsideInv == ASSUME CallsInv, Outside PROVE CallsInv'
<1>0. /\ published \in Lists /\ stored \in Lists /\ shown \in Lists /\ remote \in Lists
      /\ gone \subseteq Senders \cup Chans /\ version \in {2, 3} /\ asked \in BOOLEAN /\ (asked => version = 2)
      /\ rows \in Seq(Row) /\ open \subseteq Chans /\ current \in Chans \cup {NoChan}
  BY DEF CallsInv, CallTypes
<1>1. CASE Upgrade /\ UNCHANGED <<contacts, channels>>
  <2>1. \A s \in Slots : pc[s] \notin Connected
    BY <1>1 DEF Upgrade, Held, Connected
  <2>2. UNCHANGED <<pc, call, alone, contacts, channels>> /\ version' = 3 /\ asked' = FALSE
    BY <1>1 DEF Upgrade
  <2>3. QED
    BY <1>0, <2>1, <2>2, NobodyInv DEF contacts, channels, local
<1>2. CASE Mount /\ UNCHANGED channels
  <2>1. shown' = stored /\ UNCHANGED <<published, stored, remote, shared, channels>>
    BY <1>2 DEF Mount
  <2>2. QED
    BY <1>0, <2>1, NobodyInv DEF shared, channels
<1>3. CASE (\E p \in People : Register(p)) /\ UNCHANGED channels
  <2>1. PICK p \in People : Register(p)
    BY <1>3
  <2>2. published' \in Lists
    <3>1. published[p] \in 0..MaxKeys /\ published[p] < MaxKeys /\ published' = [published EXCEPT ![p] = @ + 1]
      BY <1>0, <2>1 DEF Register, Lists
    <3>2. published[p] + 1 \in 0..MaxKeys
      BY <3>1, ContactsAssumption
    <3>3. QED
      BY <1>0, <3>1, <3>2 DEF Lists
  <2>3. UNCHANGED <<stored, shown, remote, pc, call, version, asked, alone, channels>>
    BY <1>3, <2>1 DEF Register, local
  <2>4. QED
    BY <1>0, <2>2, <2>3, NobodyInv DEF channels
<1>4. CASE (Others \/ SelectChannel \/ StopPolling) /\ UNCHANGED contacts
  <2>1. UNCHANGED <<pc, call, version, asked, alone, contacts>>
    BY <1>4 DEF Arrive, Others, Access, DeleteAccount, DropServer, SelectChannel, StopPolling
  <2>2. rows' \in Seq(Row)
    <3>1. CASE Arrive
      <4>1. PICK c \in Chans, p \in Senders : Insert(c, p)
        BY <3>1 DEF Arrive
      <4>2. QED
        BY <1>0, <4>1, InsertRow
    <3>2. CASE Access \/ DeleteAccount \/ DropServer \/ SelectChannel \/ StopPolling
      BY <1>0, <3>2 DEF Access, DeleteAccount, DropServer, SelectChannel, StopPolling
    <3>3. QED
      BY <1>4, <3>1, <3>2 DEF Others
  <2>3. gone' \subseteq Senders \cup Chans /\ open' \subseteq Chans /\ current' \in Chans \cup {NoChan}
    BY <1>0, <1>4 DEF Arrive, Others, Access, DeleteAccount, DropServer, SelectChannel, StopPolling
  <2>4. QED
    BY <1>0, <2>1, <2>2, <2>3, NobodyInv DEF contacts, local
<1>5. CASE \E s \in Slots : AskFor(s)
  <2>1. /\ UNCHANGED <<pc, call, version, alone, contacts, channels>>
        /\ version < 3 /\ asked' = TRUE
    BY <1>5 DEF AskFor, Ask
  <2>2. version = 2
    BY <1>0, <2>1
  <2>3. QED
    BY <1>0, <2>1, <2>2, NobodyInv DEF contacts, channels, local
<1>6. QED
  BY <1>1, <1>2, <1>3, <1>4, <1>5 DEF Outside

\* The steps of the client, by what they move.
LEMMA NextCases ==
    ASSUME Next
    PROVE  \/ Outside
           \/ \E s \in Slots :
                 \/ ContactsStep(s) /\ UNCHANGED channels
                 \/ ChannelsStep(s) /\ UNCHANGED contacts
                 \/ StartContacts(s) /\ UNCHANGED channels
                 \/ (StartPoll(s) \/ StartSend(s)) /\ UNCHANGED contacts
                 \/ CutOff(s) /\ UNCHANGED <<contacts, channels>>
  BY DEF Next, Step, Outside

LEMMA CallsInvNext == ASSUME CallsInv, [Next]_vars PROVE CallsInv'
<1>1. CASE UNCHANGED vars
  <2>1. UNCHANGED <<shared, contacts, channels>>
    BY <1>1 DEF vars
  <2>2. /\ published' \in Lists /\ stored' \in Lists /\ shown' \in Lists /\ remote' \in Lists
        /\ version' \in {2, 3} /\ asked' \in BOOLEAN /\ (asked' => version' = 2) /\ version' = version
        /\ rows' \in Seq(Row)
        /\ gone' \subseteq Senders \cup Chans /\ open' \subseteq Chans /\ current' \in Chans \cup {NoChan}
    BY <2>1 DEF CallsInv, CallTypes, shared, contacts, channels, local
  <2>3. QED
    BY <2>1, <2>2, NobodyInv DEF shared
<1>2. CASE Outside
  BY <1>2, OutsideInv
<1>3. ASSUME NEW s \in Slots, ContactsStep(s) /\ UNCHANGED channels PROVE CallsInv'
  BY <1>3, ContactsStepInv
<1>4. ASSUME NEW s \in Slots, ChannelsStep(s) /\ UNCHANGED contacts PROVE CallsInv'
  BY <1>4, ChannelsStepInv
<1>5. ASSUME NEW s \in Slots, StartContacts(s) /\ UNCHANGED channels PROVE CallsInv'
  BY <1>5, StartContactsMoves, BeginsInv DEF CallsInv
<1>6. ASSUME NEW s \in Slots, (StartPoll(s) \/ StartSend(s)) /\ UNCHANGED contacts PROVE CallsInv'
  BY <1>6, StartChannelsMoves, BeginsInv DEF CallsInv
<1>7. ASSUME NEW s \in Slots, CutOff(s) /\ UNCHANGED <<contacts, channels>> PROVE CallsInv'
  BY <1>7, CutOffMoves
<1>8. QED
  BY <1>1, <1>2, <1>3, <1>4, <1>5, <1>6, <1>7, NextCases

LEMMA CallsInvInit == ASSUME Init PROVE CallsInv
<1>1. /\ pc = [s \in Slots |-> "idle"] /\ call = [s \in Slots |-> Idle]
      /\ version = DB_VERSION /\ asked = FALSE
      /\ rows = << >> /\ gone = {} /\ open = Chans /\ current = NoChan
  BY DEF Init, PageInit, ChannelsInit
<1>2. published \in Lists /\ stored \in Lists /\ shown \in Lists /\ remote \in Lists
  <2>1. published \in [People -> {0, 1}] /\ stored \in [People -> {0, 1}] /\ shown = stored /\ remote = stored
    BY DEF Init, ContactsInit
  <2>2. {0, 1} \subseteq 0..MaxKeys
    BY ContactsAssumption
  <2>3. QED
    BY <2>1, <2>2 DEF Lists
<1>3. \A s \in Slots : pc[s] = "idle" /\ call[s] = Idle
  BY <1>1
<1>4. \A s \in Slots : CallType(s) /\ Loaded(s)
  BY <1>3 DEF CallType, Loaded, Putting, AddSteps, RemoveSteps, LoadSteps, PollSteps, SendSteps
<1>5. OneByOne
  BY <1>3, StepsDiffer DEF OneByOne, AloneIn
<1>6. CallTypes
  <2>1. pc \in [Slots -> Steps]
    BY <1>1 DEF Steps
  <2>2. call = [s \in Slots |-> call[s]]
    BY <1>1
  <2>3. rows \in Seq(Row)
    BY <1>1
  <2>4. QED
    BY <1>1, <1>2, <1>4, <2>1, <2>2, <2>3 DEF CallTypes, DB_VERSION
<1>7. Frozen
  BY <1>1 DEF Frozen, DB_VERSION
<1>8. QED
  BY <1>4, <1>5, <1>6, <1>7 DEF CallsInv

LEMMA CallsInvHolds == Spec => []CallsInv
<1>1. Init => CallsInv
  BY CallsInvInit
<1>2. CallsInv /\ [Next]_vars => CallsInv'
  BY CallsInvNext
<1>3. QED
  BY <1>1, <1>2, PTL DEF Spec

-----------------------------------------------------------------------------
(* The contacts.                                                             *)

\* What the steps of a call of the contacts do.
Posting == {"add_copy", "add_post"}
Chosen == AddSteps \ {"add_search"}

Ends(s) ==
    /\ pc'[s] = "idle" /\ UNCHANGED contacts
    /\ whole' = FALSE \/ (pc[s] = "add_search" /\ whole' = whole)
Searches(s) ==
    /\ pc[s] = "add_search" /\ pc'[s] = "add_open" /\ UNCHANGED <<contacts, whole>>
    /\ call'[s].who = call[s].who
    /\ published[call[s].who] # 0 /\ call'[s].keys = published[call[s].who]
Opens(s) ==
    /\ \/ pc[s] = "add_open" /\ pc'[s] = "add_read"
       \/ pc[s] = "add_copy" /\ pc'[s] = "add_post"
       \/ pc[s] = "remove_open" /\ pc'[s] = "remove_read"
    /\ call'[s] = call[s] /\ UNCHANGED <<contacts, whole>>
Reads(s) ==
    /\ \/ pc[s] = "add_read" /\ pc'[s] = "add_put"
       \/ pc[s] = "remove_read" /\ pc'[s] = "remove_put"
    /\ call'[s].who = call[s].who /\ call'[s].keys = call[s].keys
    /\ call'[s].array = stored /\ UNCHANGED <<contacts, whole>>
Adds(s) ==
    /\ pc[s] = "add_put" /\ pc'[s] = "add_copy" /\ call'[s] = call[s]
    /\ stored' = [call[s].array EXCEPT ![call[s].who] = call[s].keys]
    /\ shown' = [shown EXCEPT ![call[s].who] = call[s].keys]
    /\ UNCHANGED <<published, remote, whole>>
Removes(s) ==
    /\ pc[s] = "remove_put" /\ pc'[s] = "idle"
    /\ stored' = [call[s].array EXCEPT ![call[s].who] = 0]
    /\ shown' = [shown EXCEPT ![call[s].who] = 0]
    /\ UNCHANGED <<published, remote, whole>>
Posts(s) ==
    /\ pc[s] = "add_post" /\ pc'[s] = "idle"
    /\ remote' = [remote EXCEPT ![call[s].who] = call[s].keys]
    /\ UNCHANGED <<published, stored, shown, whole>>
Fetches(s) ==
    /\ pc[s] = "load_fetch" /\ pc'[s] = "load_show" /\ call'[s].rows = remote
    /\ UNCHANGED <<contacts, whole>>
Shows(s) ==
    /\ pc[s] = "load_show" /\ pc'[s] = "idle" /\ UNCHANGED <<published, stored, remote, whole>>
    /\ shown' = [p \in People |->
          IF stored[p] # 0 /\ call[s].rows[p] # 0 THEN call[s].rows[p] ELSE stored[p]]

LEMMA ContactsEffects ==
    ASSUME CallsInv, NEW s \in Slots, ContactsStep(s), UNCHANGED channels
    PROVE  \/ Ends(s) \/ Searches(s) \/ Opens(s) \/ Reads(s) \/ Adds(s)
           \/ Removes(s) \/ Posts(s) \/ Fetches(s) \/ Shows(s)
<1>0. CallTypes /\ Loaded(s) /\ Steady
  BY DEF CallsInv, ContactsStep
<1>1. CASE AddSearch(s)
  BY <1>0, <1>1, AddSearchMoves DEF Ends, Searches
<1>2. CASE Open(s, "add_open", "add_read") \/ Open(s, "remove_open", "remove_read") \/ AddCopy(s)
  <2>1. AddCopy(s) => Open(s, "add_copy", "add_post")
    BY DEF AddCopy, Open
  <2>2. QED
    BY <1>0, <1>2, <2>1, OpenMoves DEF Ends, Opens
<1>3. CASE Read(s, "add_read", "add_put") \/ Read(s, "remove_read", "remove_put")
  BY <1>0, <1>3, ReadMoves DEF Ends, Reads
<1>4. CASE AddPut(s)
  <2>1. call[s].array \in Lists
    BY <1>0, <1>4 DEF AddPut, Loaded, Putting
  <2>2. QED
    BY <1>0, <1>4, <2>1, AddPutMoves DEF Adds
<1>5. CASE RemovePut(s)
  <2>1. call[s].array \in Lists
    BY <1>0, <1>5 DEF RemovePut, Loaded, Putting
  <2>2. QED
    BY <1>0, <1>5, <2>1, RemovePutMoves DEF Removes
<1>6. CASE AddPost(s)
  BY <1>0, <1>6, AddPostMoves DEF Posts
<1>7. CASE LoadFetch(s)
  BY <1>0, <1>7, LoadFetchMoves DEF Fetches
<1>8. CASE LoadShow(s)
  <2>1. call[s].rows \in Lists
    BY <1>0, <1>8 DEF LoadShow, Loaded
  <2>2. QED
    BY <1>0, <1>8, <2>1, LoadShowMoves DEF Ends, Shows, contacts
<1>9. QED
  BY <1>1, <1>2, <1>3, <1>4, <1>5, <1>6, <1>7, <1>8 DEF ContactsStep

-----------------------------------------------------------------------------
(* No list holds keys that have not been published yet.                      *)

Kept(s) ==
    /\ pc[s] \in Putting => \A p \in People : call[s].array[p] <= published[p]
    /\ pc[s] \in Chosen => 1 <= call[s].keys /\ call[s].keys <= published[call[s].who]

KeysInv ==
    /\ \A p \in People : stored[p] <= published[p] /\ remote[p] <= published[p]
    /\ \A s \in Slots : Kept(s)

LEMMA ListValues ==
    ASSUME CallsInv
    PROVE  /\ \A p \in People : /\ published[p] \in Nat /\ stored[p] \in Nat
                                /\ shown[p] \in Nat /\ remote[p] \in Nat
           /\ \A s \in Slots :
                 /\ pc[s] \in AddSteps \cup RemoveSteps => call[s].who \in People /\ call[s].keys \in Nat
                 /\ pc[s] \in Putting => /\ call[s].array \in Lists
                                         /\ \A p \in People : call[s].array[p] \in Nat
                 /\ pc[s] = "load_show" => /\ call[s].rows \in Lists
                                           /\ \A p \in People : call[s].rows[p] \in Nat
<1>1. \A f \in Lists : \A p \in People : f[p] \in Nat
  BY DEF Lists
<1>2. published \in Lists /\ stored \in Lists /\ shown \in Lists /\ remote \in Lists
  BY DEF CallsInv, CallTypes
<1>3. ASSUME NEW s \in Slots, pc[s] \in AddSteps \cup RemoveSteps
      PROVE  call[s].who \in People /\ call[s].keys \in Nat
  BY <1>3, PutFacts DEF CallsInv
<1>4. \A s \in Slots : Loaded(s)
  BY DEF CallsInv
<1>5. QED
  BY <1>1, <1>2, <1>3, <1>4 DEF Loaded

\* The calls that do not move.
LEMMA KeptStays ==
    ASSUME CallsInv, KeysInv, NEW t \in Slots, pc'[t] = pc[t], call'[t] = call[t],
           published' \in Lists, \A p \in People : published[p] <= published'[p]
    PROVE  Kept(t)'
<1>1. \A p \in People : published'[p] \in Nat
  BY DEF Lists
<1>2. Kept(t)
  BY DEF KeysInv
<1>3. ASSUME pc'[t] \in Putting, NEW p \in People PROVE call'[t].array[p] <= published'[p]
  BY <1>1, <1>2, <1>3, ListValues DEF Kept
<1>4. ASSUME pc'[t] \in Chosen PROVE 1 <= call'[t].keys /\ call'[t].keys <= published'[call'[t].who]
  <2>1. call[t].who \in People /\ call[t].keys \in Nat
    BY <1>4, ListValues DEF Chosen
  <2>2. QED
    BY <1>1, <1>2, <1>4, <2>1, ListValues DEF Kept
<1>5. QED
  BY <1>3, <1>4 DEF Kept

\* No list changes, and slot s does not hold keys or an array.
LEMMA KeysStay ==
    ASSUME CallsInv, KeysInv, NEW s \in Slots, Only(s), UNCHANGED contacts,
           pc'[s] \notin Putting /\ pc'[s] \notin Chosen
    PROVE  KeysInv'
<1>1. /\ \A t \in Slots \ {s} : pc'[t] = pc[t] /\ call'[t] = call[t]
      /\ published' = published /\ stored' = stored /\ remote' = remote
  BY DEF Only, contacts
<1>2. published' \in Lists /\ \A p \in People : published[p] <= published'[p]
  BY <1>1, ListValues DEF CallsInv, CallTypes
<1>3. \A t \in Slots \ {s} : Kept(t)'
  BY <1>1, <1>2, KeptStays
<1>4. Kept(s)'
  BY DEF Kept
<1>5. QED
  BY <1>1, <1>3, <1>4 DEF KeysInv

LEMMA KeysStep ==
    ASSUME CallsInv, KeysInv, NEW s \in Slots, ContactsStep(s), UNCHANGED channels
    PROVE  KeysInv'
<1>0. Only(s) /\ published' = published
  BY ContactsStepMoves DEF ContactsMove
<1>1. \A t \in Slots \ {s} : pc'[t] = pc[t] /\ call'[t] = call[t]
  BY <1>0 DEF Only
<1>2. published' \in Lists /\ \A p \in People : published[p] <= published'[p]
  BY <1>0, ListValues DEF CallsInv, CallTypes
<1>3. \A t \in Slots \ {s} : Kept(t)'
  BY <1>1, <1>2, KeptStays
<1>4. ASSUME Kept(s)', \A p \in People : stored'[p] <= published[p] /\ remote'[p] <= published[p]
      PROVE  KeysInv'
  BY <1>0, <1>3, <1>4 DEF KeysInv
<1>5. \A p \in People : stored[p] <= published[p] /\ remote[p] <= published[p]
  BY DEF KeysInv
<1>6. Kept(s)
  BY DEF KeysInv
<1>7. CASE Ends(s) \/ Fetches(s)
  <2>1. UNCHANGED contacts /\ pc'[s] \notin Putting /\ pc'[s] \notin Chosen
    BY <1>7 DEF Ends, Fetches, Putting, Chosen, AddSteps
  <2>2. QED
    BY <1>0, <2>1, KeysStay
<1>8. CASE Searches(s)
  <2>1. call[s].who \in People
    BY <1>8, ListValues DEF Searches, AddSteps
  <2>2. Kept(s)'
    BY <1>0, <1>8, <2>1, ListValues DEF Searches, Kept, Putting
  <2>3. QED
    BY <1>4, <1>5, <1>8, <2>2 DEF Searches, contacts
<1>9. CASE Opens(s)
  <2>1. Kept(s)'
    BY <1>0, <1>6, <1>9 DEF Opens, Kept, Putting, Chosen, AddSteps
  <2>2. QED
    BY <1>4, <1>5, <1>9, <2>1 DEF Opens, contacts
<1>10. CASE Reads(s)
  <2>1. Kept(s)'
    BY <1>0, <1>5, <1>6, <1>10 DEF Reads, Kept, Putting, Chosen, AddSteps
  <2>2. QED
    BY <1>4, <1>5, <1>10, <2>1 DEF Reads, contacts
<1>11. CASE Adds(s)
  <2>1. /\ call[s].who \in People /\ call[s].keys \in Nat /\ call[s].array \in Lists
        /\ call[s].keys <= published[call[s].who] /\ \A p \in People : call[s].array[p] <= published[p]
    BY <1>6, <1>11, ListValues DEF Adds, Kept, Putting, Chosen, AddSteps
  <2>2. Kept(s)'
    BY <1>0, <1>6, <1>11 DEF Adds, Kept, Putting, Chosen, AddSteps
  <2>3. \A p \in People : stored'[p] <= published[p]
    BY <1>11, <2>1 DEF Adds, Lists
  <2>4. QED
    BY <1>4, <1>5, <1>11, <2>2, <2>3 DEF Adds
<1>12. CASE Removes(s)
  <2>1. /\ call[s].who \in People /\ call[s].array \in Lists
        /\ \A p \in People : call[s].array[p] <= published[p] /\ published[p] \in Nat
    BY <1>6, <1>12, ListValues DEF Removes, Kept, Putting, RemoveSteps
  <2>2. Kept(s)'
    BY <1>12 DEF Removes, Kept, Putting, Chosen, AddSteps
  <2>3. \A p \in People : stored'[p] <= published[p]
    BY <1>12, <2>1 DEF Removes, Lists
  <2>4. QED
    BY <1>4, <1>5, <1>12, <2>2, <2>3 DEF Removes
<1>13. CASE Posts(s)
  <2>1. call[s].who \in People /\ call[s].keys <= published[call[s].who] /\ remote \in Lists
    BY <1>6, <1>13, ListValues DEF Posts, Kept, Chosen, AddSteps, CallsInv, CallTypes
  <2>2. Kept(s)'
    BY <1>13 DEF Posts, Kept, Putting, Chosen, AddSteps
  <2>3. \A p \in People : remote'[p] <= published[p]
    BY <1>5, <1>13, <2>1 DEF Posts, Lists
  <2>4. QED
    BY <1>4, <1>5, <1>13, <2>2, <2>3 DEF Posts
<1>14. CASE Shows(s)
  <2>1. Kept(s)'
    BY <1>14 DEF Shows, Kept, Putting, Chosen, AddSteps
  <2>2. QED
    BY <1>4, <1>5, <1>14, <2>1 DEF Shows
<1>15. QED
  BY <1>7, <1>8, <1>9, <1>10, <1>11, <1>12, <1>13, <1>14, ContactsEffects

-----------------------------------------------------------------------------
(* For the contacts a step of the client is one of their own steps, or it    *)
(* only publishes keys or mounts the page, or it moves a slot that is at     *)
(* none of the steps above.                                                  *)

Calm ==
    /\ UNCHANGED <<pc, call, stored, remote, whole, alone>>
    /\ published' \in Lists /\ \A p \in People : published[p] <= published'[p]
    /\ shown' \in {shown, stored}
Aside(s) ==
    /\ Only(s) /\ UNCHANGED contacts /\ alone' \subseteq alone
    /\ pc'[s] \in {"idle", "add_search", "remove_open", "load_fetch"} \cup ChannelsSteps
    /\ whole' = FALSE \/ (whole' = whole /\ pc[s] \notin ContactsSteps)

LEMMA OutsideIsCalm == ASSUME CallsInv, Outside PROVE Calm
<1>1. published \in Lists /\ \A p \in People : published[p] \in Nat
  BY ListValues DEF CallsInv, CallTypes
<1>2. \A p \in People : published[p] <= published[p]
  BY <1>1
<1>3. CASE \E p \in People : Register(p)
  <2>1. PICK p \in People : Register(p)
    BY <1>3
  <2>2. published[p] < MaxKeys /\ published' = [published EXCEPT ![p] = @ + 1]
    BY <2>1 DEF Register
  <2>3. published[p] + 1 \in 0..MaxKeys
    BY <1>1, <2>2, ContactsAssumption
  <2>4. published' \in Lists /\ \A q \in People : published[q] <= published'[q]
    BY <1>1, <2>2, <2>3 DEF Lists
  <2>5. UNCHANGED <<pc, call, stored, remote, whole, alone, shown>>
    BY <2>1 DEF Register, local
  <2>6. QED
    BY <2>4, <2>5 DEF Calm
<1>4. CASE Mount
  BY <1>1, <1>2, <1>4 DEF Mount, Calm, shared
<1>5. CASE \/ (\E s \in Slots : AskFor(s))
           \/ Upgrade /\ UNCHANGED <<contacts, channels>>
           \/ (Others \/ SelectChannel \/ StopPolling) /\ UNCHANGED contacts
  BY <1>1, <1>2, <1>5 DEF AskFor, Ask, Upgrade, Arrive, Others, Access, DeleteAccount, DropServer, SelectChannel, StopPolling, Calm, contacts, local
<1>6. QED
  BY <1>3, <1>4, <1>5 DEF Outside

LEMMA ContactsCases ==
    ASSUME CallsInv, [Next]_vars
    PROVE  \/ Calm
           \/ \E s \in Slots : Aside(s) \/ (ContactsStep(s) /\ UNCHANGED channels)
<1>1. CASE UNCHANGED vars
  <2>1. published \in Lists /\ \A p \in People : published[p] \in Nat /\ published[p] <= published[p]
    BY ListValues DEF CallsInv, CallTypes
  <2>2. QED
    BY <1>1, <2>1 DEF vars, shared, contacts, local, Calm
<1>2. CASE Outside
  BY <1>2, OutsideIsCalm
<1>3. ASSUME NEW s \in Slots, ChannelsStep(s) /\ UNCHANGED contacts PROVE Aside(s)
  <2>1. ChannelsMove(s)
    <3>1. CallTypes
      BY DEF CallsInv
    <3>2. QED
      BY <1>3, <3>1, ChannelsStepMoves
  <2>2. QED
    BY <1>3, <2>1, StepsDiffer DEF ChannelsMove, Aside, ChannelsStep
<1>4. ASSUME NEW s \in Slots, StartContacts(s) /\ UNCHANGED channels PROVE Aside(s)
  <2>1. /\ Begins(s, "contacts", ContactsSteps) /\ UNCHANGED contacts
        /\ pc'[s] \in {"add_search", "remove_open", "load_fetch"}
    BY <1>4, StartContactsMoves DEF CallsInv, StartContacts
  <2>2. QED
    BY <2>1, StepsDiffer DEF Begins, Aside
<1>5. ASSUME NEW s \in Slots, (StartPoll(s) \/ StartSend(s)) /\ UNCHANGED contacts PROVE Aside(s)
  <2>1. Begins(s, "channels", ChannelsSteps)
    BY <1>5, StartChannelsMoves DEF CallsInv
  <2>2. QED
    BY <1>5, <2>1, StepsDiffer DEF Begins, Aside
<1>6. ASSUME NEW s \in Slots, CutOff(s) /\ UNCHANGED <<contacts, channels>> PROVE Aside(s)
  BY <1>6, CutOffMoves DEF Aside, CutOff
<1>7. QED
  BY <1>1, <1>2, <1>3, <1>4, <1>5, <1>6, NextCases

LEMMA AsideSteps ==
    ASSUME NEW s \in Slots, Aside(s)
    PROVE  /\ pc'[s] \notin Putting /\ pc'[s] \notin Chosen /\ pc'[s] \notin Posting
           /\ pc'[s] # "load_show"
  BY DEF Aside, Putting, Chosen, Posting, AddSteps, ChannelsSteps, PollSteps, SendSteps

LEMMA KeysInvNext == ASSUME CallsInv, KeysInv, [Next]_vars PROVE KeysInv'
<1>1. CASE Calm
  <2>1. \A t \in Slots : Kept(t)'
    BY <1>1, KeptStays DEF Calm
  <2>2. ASSUME NEW p \in People PROVE stored'[p] <= published'[p] /\ remote'[p] <= published'[p]
    <3>1. stored[p] <= published[p] /\ remote[p] <= published[p] /\ published[p] <= published'[p]
      BY <1>1 DEF Calm, KeysInv
    <3>2. published'[p] \in Nat
      BY <1>1 DEF Calm, Lists
    <3>3. stored' = stored /\ remote' = remote
      BY <1>1 DEF Calm
    <3>4. QED
      BY <3>1, <3>2, <3>3, ListValues
  <2>3. QED
    BY <2>1, <2>2 DEF KeysInv
<1>2. ASSUME NEW s \in Slots, Aside(s) PROVE KeysInv'
  BY <1>2, AsideSteps, KeysStay DEF Aside
<1>3. QED
  BY <1>1, <1>2, KeysStep, ContactsCases

LEMMA KeysInvHolds == Spec => []KeysInv
<1>1. Init => KeysInv
  <2> SUFFICES ASSUME Init PROVE KeysInv
    OBVIOUS
  <2>1. \A p \in People : stored[p] <= published[p] /\ remote[p] <= published[p]
    BY DEF Init, ContactsInit
  <2>2. \A s \in Slots : pc[s] = "idle"
    BY DEF Init, PageInit
  <2>3. QED
    BY <2>1, <2>2 DEF KeysInv, Kept, Putting, Chosen, AddSteps
<1>2. CallsInv /\ KeysInv /\ [Next]_vars => KeysInv'
  BY KeysInvNext
<1>3. QED
  BY <1>1, <1>2, CallsInvHolds, PTL DEF Spec

-----------------------------------------------------------------------------
(* A stored contact has its row on the server, or the call that stored it    *)
(* has still to post it.                                                     *)

Pending(p) == \E s \in Slots : pc[s] \in Posting /\ call[s].who = p
Covered(p) == remote[p] # 0 \/ Pending(p)

\* What a call has read and will put back is covered as well: without it a
\* removal could put back a contact that was never posted.
Covers ==
    whole =>
       /\ \A p \in People : stored[p] # 0 => Covered(p)
       /\ \A s \in Slots : pc[s] \in Putting => \A p \in People : call[s].array[p] # 0 => Covered(p)

LEMMA CoveredStays ==
    ASSUME NEW s \in Slots, Only(s), remote' = remote,
           pc[s] \in Posting => pc'[s] \in Posting /\ call'[s] = call[s],
           NEW p \in People, Covered(p)
    PROVE  Covered(p)'
<1>1. CASE remote[p] # 0
  BY <1>1 DEF Covered
<1>2. CASE Pending(p)
  <2>1. PICK t \in Slots : pc[t] \in Posting /\ call[t].who = p
    BY <1>2 DEF Pending
  <2>2. pc'[t] \in Posting /\ call'[t].who = p
    BY <2>1 DEF Only
  <2>3. QED
    BY <2>2 DEF Covered, Pending
<1>3. QED
  BY <1>1, <1>2 DEF Covered

LEMMA CoversFrom ==
    ASSUME Covers, whole, NEW s \in Slots, Only(s),
           \A p \in People : Covered(p) => Covered(p)',
           \A p \in People : stored'[p] # 0 => stored[p] # 0 \/ Covered(p)',
           pc'[s] \in Putting => call'[s].array = stored
    PROVE  Covers'
<1>1. \A p \in People : stored[p] # 0 => Covered(p)'
  BY DEF Covers
<1>2. ASSUME NEW t \in Slots, pc'[t] \in Putting, NEW p \in People, call'[t].array[p] # 0
      PROVE  Covered(p)'
  <2>1. CASE t = s
    BY <1>1, <1>2, <2>1
  <2>2. CASE t # s
    <3>1. pc'[t] = pc[t] /\ call'[t] = call[t]
      BY <2>2 DEF Only
    <3>2. QED
      BY <1>2, <3>1 DEF Covers
  <2>3. QED
    BY <2>1, <2>2
<1>3. \A p \in People : stored'[p] # 0 => Covered(p)'
  BY <1>1
<1>4. QED
  BY <1>2, <1>3 DEF Covers

LEMMA CoversStep ==
    ASSUME CallsInv, KeysInv, Covers, NEW s \in Slots, ContactsStep(s), UNCHANGED channels
    PROVE  Covers'
<1>0. Only(s)
  BY ContactsStepMoves DEF ContactsMove
<1>1. CASE whole' = FALSE
  BY <1>1 DEF Covers
<1>2. ASSUME whole, remote' = remote, stored' = stored, pc'[s] \in Putting => call'[s].array = stored,
             pc[s] \in Posting => pc'[s] \in Posting /\ call'[s] = call[s]
      PROVE  Covers'
  <2>1. \A p \in People : Covered(p) => Covered(p)'
    BY <1>0, <1>2, CoveredStays
  <2>2. QED
    BY <1>0, <1>2, <2>1, CoversFrom
<1>3. CASE Ends(s) \/ Searches(s) \/ Opens(s) \/ Reads(s) \/ Fetches(s) \/ Shows(s)
  <2>1. CASE whole' = whole /\ ~whole
    BY <2>1 DEF Covers
  <2>2. CASE whole' = whole /\ whole
    <3>1. remote' = remote /\ stored' = stored
      BY <1>3 DEF Ends, Searches, Opens, Reads, Fetches, Shows, contacts, local
    <3>2. pc'[s] \in Putting => call'[s].array = stored
      BY <1>3 DEF Ends, Searches, Opens, Reads, Fetches, Shows, Putting
    <3>3. CASE whole' = FALSE
      BY <3>3 DEF Covers
    <3>4. CASE pc[s] \in Posting => pc'[s] \in Posting /\ call'[s] = call[s]
      BY <1>2, <2>2, <3>1, <3>2, <3>4
    <3>5. QED
      BY <1>3, <3>3, <3>4 DEF Ends, Searches, Opens, Reads, Fetches, Shows, Posting
  <2>3. whole' = whole \/ whole' = FALSE
    BY <1>3 DEF Ends, Searches, Opens, Reads, Fetches, Shows
  <2>4. QED
    BY <1>1, <2>1, <2>2, <2>3
<1>4. CASE ~whole /\ whole' = whole
  BY <1>4 DEF Covers
<1>5. CASE whole /\ Adds(s)
  <2>0. PICK q : q = call[s].who
    OBVIOUS
  <2>1. call[s].array \in Lists /\ q \in People /\ pc[s] \in Putting
    BY <1>5, <2>0, ListValues DEF Adds, Putting, AddSteps
  <2>2. \A p \in People : Covered(p) => Covered(p)'
    BY <1>0, <1>5, CoveredStays DEF Adds, Posting
  <2>3. Covered(q)'
    BY <1>5, <2>0 DEF Adds, Posting, Covered, Pending
  <2>4. ASSUME NEW p \in People, stored'[p] # 0 PROVE Covered(p)'
    <3>1. CASE p = q
      BY <2>3, <3>1
    <3>2. CASE p # q
      <4>1. stored'[p] = call[s].array[p]
        BY <1>5, <2>0, <2>1, <3>2 DEF Adds, Lists
      <4>2. Covered(p)
        BY <1>5, <2>1, <2>4, <4>1 DEF Covers
      <4>3. QED
        BY <2>2, <4>2
    <3>3. QED
      BY <3>1, <3>2
  <2>5. pc'[s] \notin Putting
    BY <1>5 DEF Adds, Putting
  <2>6. QED
    BY <1>0, <1>5, <2>2, <2>4, <2>5, CoversFrom
<1>6. CASE whole /\ Removes(s)
  <2>1. call[s].array \in Lists /\ call[s].who \in People /\ pc[s] \in Putting
    BY <1>6, ListValues DEF Removes, Putting, RemoveSteps
  <2>2. \A p \in People : Covered(p) => Covered(p)'
    BY <1>0, <1>6, CoveredStays DEF Removes, Posting
  <2>3. ASSUME NEW p \in People, stored'[p] # 0 PROVE Covered(p)'
    <3>1. stored'[p] = call[s].array[p]
      BY <1>6, <2>1, <2>3 DEF Removes, Lists
    <3>2. Covered(p)
      BY <1>6, <2>1, <2>3, <3>1 DEF Covers
    <3>3. QED
      BY <2>2, <3>2
  <2>4. pc'[s] \notin Putting
    BY <1>6 DEF Removes, Putting
  <2>5. QED
    BY <1>0, <1>6, <2>2, <2>3, <2>4, CoversFrom
<1>7. CASE whole /\ Posts(s)
  <2> DEFINE q == call[s].who
  <2>1. q \in People /\ remote \in Lists /\ call[s].keys \in Nat
    BY <1>7, ListValues DEF Posts, AddSteps, CallsInv, CallTypes
  <2>2. call[s].keys # 0
    <3>1. Kept(s)
      BY DEF KeysInv
    <3>2. 1 <= call[s].keys
      BY <1>7, <3>1 DEF Posts, Kept, Chosen, AddSteps
    <3>3. QED
      BY <3>2
  <2>3. ASSUME NEW p \in People, Covered(p) PROVE Covered(p)'
    <3>1. CASE p = q
      <4>1. remote'[p] = call[s].keys
        BY <1>7, <2>1, <3>1 DEF Posts, Lists
      <4>2. QED
        BY <2>2, <4>1 DEF Covered
    <3>2. CASE p # q /\ remote[p] # 0
      BY <1>7, <2>1, <3>2 DEF Posts, Lists, Covered
    <3>3. CASE p # q /\ Pending(p)
      <4>1. PICK t \in Slots : pc[t] \in Posting /\ call[t].who = p
        BY <3>3 DEF Pending
      <4>2. t # s
        BY <3>3, <4>1
      <4>3. pc'[t] \in Posting /\ call'[t].who = p
        BY <1>0, <4>1, <4>2 DEF Only
      <4>4. QED
        BY <4>3 DEF Covered, Pending
    <3>4. QED
      BY <2>3, <3>1, <3>2, <3>3 DEF Covered
  <2>4. stored' = stored /\ pc'[s] \notin Putting
    BY <1>7 DEF Posts, Putting
  <2>5. QED
    BY <1>0, <1>7, <2>3, <2>4, CoversFrom
<1>8. Adds(s) \/ Removes(s) \/ Posts(s) => whole' = whole
  BY DEF Adds, Removes, Posts
<1>9. QED
  BY <1>3, <1>4, <1>5, <1>6, <1>7, <1>8, ContactsEffects

LEMMA CoversNext == ASSUME CallsInv, KeysInv, Covers, [Next]_vars PROVE Covers'
<1>1. CASE Calm
  <2>1. \A p \in People : Covered(p)' <=> Covered(p)
    BY <1>1 DEF Calm, Covered, Pending
  <2>2. QED
    BY <1>1, <2>1 DEF Calm, Covers
<1>2. ASSUME NEW s \in Slots, Aside(s) PROVE Covers'
  <2>1. CASE whole' = FALSE \/ (whole' = whole /\ ~whole)
    BY <2>1 DEF Covers
  <2>2. CASE whole /\ pc[s] \notin ContactsSteps
    <3>1. Only(s) /\ remote' = remote /\ stored' = stored
      BY <1>2 DEF Aside, contacts, local
    <3>2. pc[s] \notin Posting
      BY <2>2 DEF Posting, ContactsSteps, AddSteps
    <3>3. \A p \in People : Covered(p) => Covered(p)'
      BY <3>1, <3>2, CoveredStays
    <3>4. QED
      BY <1>2, <2>2, <3>1, <3>3, CoversFrom, AsideSteps
  <2>3. QED
    BY <1>2, <2>1, <2>2 DEF Aside
<1>3. QED
  BY <1>1, <1>2, CoversStep, ContactsCases

LEMMA CoversHolds == Spec => []Covers
<1>1. Init => Covers
  <2> SUFFICES ASSUME Init PROVE Covers
    OBVIOUS
  <2>1. remote = stored
    BY DEF Init, ContactsInit
  <2>2. \A s \in Slots : pc[s] = "idle"
    BY DEF Init, PageInit
  <2>3. QED
    BY <2>1, <2>2 DEF Covers, Covered, Putting
<1>2. CallsInv /\ KeysInv /\ Covers /\ [Next]_vars => Covers'
  BY CoversNext
<1>3. QED
  BY <1>1, <1>2, CallsInvHolds, KeysInvHolds, PTL DEF Spec

\* However the calls of the contacts overlap, a contact that is stored is on
\* the server once they have ended.
THEOREM StoredIsPosted == Spec => []RemoteCovers
<1>1. Covers => RemoteCovers
  <2> SUFFICES ASSUME Covers, whole, Quiet, NEW p \in People, stored[p] # 0 PROVE remote[p] # 0
    BY DEF RemoteCovers
  <2>1. ~Pending(p)
    BY DEF Quiet, Pending, Posting
  <2>2. QED
    BY <2>1 DEF Covers, Covered
<1>2. QED
  BY <1>1, CoversHolds, PTL

-----------------------------------------------------------------------------
(* When calls of the contacts run one at a time and none is cut off, the     *)
(* three lists agree but for what the call in progress has still to post.    *)

Own(s) ==
    /\ pc[s] \in Putting => call[s].array = stored
    /\ pc[s] \in Chosen => stored[call[s].who] <= call[s].keys /\ remote[call[s].who] <= call[s].keys
    /\ pc[s] \in Posting => stored[call[s].who] = call[s].keys
    /\ pc[s] = "load_show" => call[s].rows = remote

Agree ==
    /\ shown = stored
    /\ \A p \in People : stored[p] # 0 /\ ~Pending(p) => remote[p] = stored[p]
    /\ \A s \in Slots : Own(s)

Agreed == "contacts" \in alone /\ whole => Agree

LEMMA NamedSteps ==
    /\ Putting \subseteq ContactsSteps /\ Chosen \subseteq ContactsSteps
    /\ Posting \subseteq ContactsSteps /\ "load_show" \in ContactsSteps
  BY DEF Putting, Chosen, Posting, ContactsSteps, AddSteps, RemoveSteps, LoadSteps

\* The only call of the contacts is the one that moves.
LEMMA AloneHere ==
    ASSUME CallsInv, "contacts" \in alone, NEW s \in Slots, pc[s] \in ContactsSteps, Only(s)
    PROVE  /\ \A t \in Slots \ {s} : Own(t)'
           /\ \A p \in People : Pending(p) <=> (pc[s] \in Posting /\ call[s].who = p)
           /\ \A p \in People : Pending(p)' <=> (pc'[s] \in Posting /\ call'[s].who = p)
<1>1. \A t \in Slots \ {s} : pc[t] \notin ContactsSteps
  BY DEF CallsInv, OneByOne, AloneIn
<1>2. \A t \in Slots \ {s} : pc'[t] = pc[t]
  BY DEF Only
<1>3. \A t \in Slots \ {s} : Own(t)'
  BY <1>1, <1>2, NamedSteps DEF Own
<1>4. \A p \in People : Pending(p) <=> (pc[s] \in Posting /\ call[s].who = p)
  BY <1>1, NamedSteps DEF Pending
<1>5. ASSUME NEW p \in People PROVE Pending(p)' <=> (pc'[s] \in Posting /\ call'[s].who = p)
  <2>1. Pending(p)' <=> \E t \in Slots : pc'[t] \in Posting /\ call'[t].who = p
    BY DEF Pending
  <2>2. QED
    BY <1>1, <1>2, <2>1, NamedSteps
<1>6. QED
  BY <1>3, <1>4, <1>5

LEMMA AgreeStep ==
    ASSUME CallsInv, KeysInv, Agree, "contacts" \in alone, NEW s \in Slots,
           ContactsStep(s), UNCHANGED channels, whole' # FALSE
    PROVE  Agree'
<1>0. Only(s) /\ pc[s] \in ContactsSteps
  BY ContactsStepMoves DEF ContactsMove
<1>1. /\ \A t \in Slots \ {s} : Own(t)'
      /\ \A p \in People : Pending(p) <=> (pc[s] \in Posting /\ call[s].who = p)
      /\ \A p \in People : Pending(p)' <=> (pc'[s] \in Posting /\ call'[s].who = p)
  BY <1>0, AloneHere
<1>2. Own(s) /\ Kept(s) /\ shown = stored
  BY DEF Agree, KeysInv
<1>3. stored \in Lists /\ shown \in Lists /\ remote \in Lists
  BY DEF CallsInv, CallTypes
<1>4. ASSUME Own(s)', shown' = stored',
             \A p \in People : stored'[p] # 0 /\ ~Pending(p)' => remote'[p] = stored'[p]
      PROVE  Agree'
  BY <1>1, <1>4 DEF Agree
<1>5. ASSUME UNCHANGED contacts, pc[s] \in Posting => pc'[s] \in Posting /\ call'[s] = call[s], Own(s)'
      PROVE  Agree'
  <2>1. shown' = shown /\ stored' = stored /\ remote' = remote
    BY <1>5 DEF contacts, local
  <2>2. ASSUME NEW p \in People, stored'[p] # 0, ~Pending(p)' PROVE remote'[p] = stored'[p]
    <3>1. ~Pending(p)
      BY <1>1, <1>5, <2>2
    <3>2. QED
      BY <2>1, <2>2, <3>1 DEF Agree
  <2>3. QED
    BY <1>2, <1>4, <1>5, <2>1, <2>2
<1>6. CASE Ends(s)
  <2>1. pc[s] \notin Posting /\ Own(s)' /\ UNCHANGED contacts
    BY <1>6 DEF Ends, Own, Putting, Chosen, Posting, AddSteps
  <2>2. QED
    BY <1>5, <2>1
<1>7. CASE Searches(s)
  <2>0. UNCHANGED contacts /\ pc[s] \notin Posting
    BY <1>7 DEF Searches, Posting
  <2>1. call[s].who \in People
    BY <1>7, ListValues DEF Searches, AddSteps
  <2>2. stored[call[s].who] <= published[call[s].who] /\ remote[call[s].who] <= published[call[s].who]
    BY <2>1 DEF KeysInv
  <2>3. Own(s)'
    BY <1>7, <2>0, <2>2 DEF Searches, Own, Putting, Chosen, Posting, AddSteps, contacts, local
  <2>4. QED
    BY <1>5, <2>0, <2>3
<1>8. CASE Opens(s)
  <2>0. UNCHANGED contacts
    BY <1>8 DEF Opens
  <2>1. pc[s] \in Posting => pc'[s] \in Posting /\ call'[s] = call[s]
    BY <1>8 DEF Opens, Posting
  <2>2. Own(s)'
    BY <1>2, <1>8, <2>0 DEF Opens, Own, Putting, Chosen, Posting, AddSteps, contacts, local
  <2>3. QED
    BY <1>5, <2>0, <2>1, <2>2
<1>9. CASE Reads(s)
  <2>0. UNCHANGED contacts /\ pc[s] \notin Posting
    BY <1>9 DEF Reads, Posting
  <2>1. Own(s)'
    BY <1>2, <1>9, <2>0 DEF Reads, Own, Putting, Chosen, Posting, AddSteps, contacts, local
  <2>2. QED
    BY <1>5, <2>0, <2>1
<1>10. CASE Fetches(s)
  <2>0. UNCHANGED contacts /\ pc[s] \notin Posting
    BY <1>10 DEF Fetches, Posting
  <2>1. Own(s)'
    BY <1>2, <1>10, <2>0 DEF Fetches, Own, Putting, Chosen, Posting, AddSteps, contacts, local
  <2>2. QED
    BY <1>5, <2>0, <2>1
<1>11. CASE Adds(s)
  <2>0. PICK q, k : q = call[s].who /\ k = call[s].keys
    OBVIOUS
  <2>1. q \in People /\ k \in Nat /\ call[s].array = stored /\ remote[q] <= k
    BY <1>2, <1>11, <2>0, ListValues DEF Adds, Own, Putting, Chosen, AddSteps
  <2>2. /\ stored' = [stored EXCEPT ![q] = k] /\ shown' = stored' /\ remote' = remote
        /\ pc'[s] \in Posting /\ call'[s].who = q /\ call'[s].keys = k
    BY <1>2, <1>11, <2>0, <2>1 DEF Adds, Posting
  <2>3. stored'[q] = k /\ \A p \in People \ {q} : stored'[p] = stored[p]
    BY <1>3, <2>1, <2>2 DEF Lists
  <2>4. Own(s)'
    BY <1>11, <2>1, <2>2, <2>3 DEF Adds, Own, Putting
  <2>5. ASSUME NEW p \in People, stored'[p] # 0, ~Pending(p)' PROVE remote'[p] = stored'[p]
    <3>1. p # q
      BY <1>1, <2>2, <2>5
    <3>2. ~Pending(p)
      BY <1>1, <1>11 DEF Adds, Posting
    <3>3. QED
      BY <2>2, <2>3, <2>5, <3>1, <3>2 DEF Agree
  <2>6. QED
    BY <1>4, <2>2, <2>4, <2>5
<1>12. CASE Removes(s)
  <2>0. PICK q : q = call[s].who
    OBVIOUS
  <2>1. q \in People /\ call[s].array = stored
    BY <1>2, <1>12, <2>0, ListValues DEF Removes, Own, Putting, RemoveSteps
  <2>2. stored' = [stored EXCEPT ![q] = 0] /\ shown' = stored' /\ remote' = remote
    BY <1>2, <1>12, <2>0, <2>1 DEF Removes
  <2>3. stored'[q] = 0 /\ \A p \in People \ {q} : stored'[p] = stored[p]
    BY <1>3, <2>1, <2>2 DEF Lists
  <2>4. Own(s)'
    BY <1>12 DEF Removes, Own, Putting, Chosen, Posting, AddSteps
  <2>5. ASSUME NEW p \in People, stored'[p] # 0, ~Pending(p)' PROVE remote'[p] = stored'[p]
    <3>1. p # q
      BY <2>3, <2>5
    <3>2. ~Pending(p)
      BY <1>1, <1>12 DEF Removes, Posting
    <3>3. QED
      BY <2>2, <2>3, <2>5, <3>1, <3>2 DEF Agree
  <2>6. QED
    BY <1>4, <2>2, <2>4, <2>5
<1>13. CASE Posts(s)
  <2>0. PICK q : q = call[s].who
    OBVIOUS
  <2>1. q \in People /\ stored[q] = call[s].keys
    BY <1>2, <1>13, <2>0, ListValues DEF Posts, Own, Posting, AddSteps
  <2>2. remote' = [remote EXCEPT ![q] = stored[q]] /\ stored' = stored /\ shown' = shown
    BY <1>13, <2>0, <2>1 DEF Posts
  <2>3. remote'[q] = stored[q] /\ \A p \in People \ {q} : remote'[p] = remote[p]
    BY <1>3, <2>1, <2>2 DEF Lists
  <2>4. Own(s)'
    BY <1>13 DEF Posts, Own, Putting, Chosen, Posting, AddSteps
  <2>5. ASSUME NEW p \in People, stored'[p] # 0 PROVE remote'[p] = stored'[p]
    <3>1. CASE p = q
      BY <2>2, <2>3, <3>1
    <3>2. CASE p # q
      <4>1. ~Pending(p)
        BY <1>1, <2>0, <3>2
      <4>2. QED
        BY <2>2, <2>3, <2>5, <3>2, <4>1 DEF Agree
    <3>3. QED
      BY <3>1, <3>2
  <2>6. QED
    BY <1>2, <1>4, <2>2, <2>4, <2>5
<1>14. CASE Shows(s)
  <2>1. call[s].rows = remote /\ \A p \in People : ~Pending(p)
    BY <1>1, <1>2, <1>14 DEF Shows, Own, Posting
  <2>2. \A p \in People : stored[p] # 0 => remote[p] = stored[p]
    BY <2>1 DEF Agree
  <2>3. shown' = [p \in People |-> stored[p]]
    BY <1>14, <2>1, <2>2 DEF Shows
  <2>4. shown' = stored /\ stored' = stored /\ remote' = remote
    BY <1>3, <1>14, <2>3 DEF Lists, Shows
  <2>5. Own(s)'
    BY <1>14 DEF Shows, Own, Putting, Chosen, Posting, AddSteps
  <2>6. QED
    BY <1>4, <2>2, <2>4, <2>5
<1>15. QED
  BY <1>6, <1>7, <1>8, <1>9, <1>10, <1>11, <1>12, <1>13, <1>14, ContactsEffects

LEMMA AgreedNext == ASSUME CallsInv, KeysInv, Agreed, [Next]_vars PROVE Agreed'
<1> SUFFICES ASSUME "contacts" \in alone', whole' PROVE Agree'
  BY DEF Agreed
<1>1. CASE Calm
  <2>1. Agree
    BY <1>1 DEF Calm, Agreed
  <2>2. UNCHANGED <<pc, call, stored, shown, remote>>
    BY <1>1, <2>1 DEF Calm, Agree
  <2>3. /\ \A p \in People : Pending(p)' <=> Pending(p)
        /\ \A t \in Slots : Own(t)' <=> Own(t)
    BY <2>2 DEF Pending, Own
  <2>4. QED
    BY <2>1, <2>2, <2>3 DEF Agree
<1>2. ASSUME NEW s \in Slots, Aside(s) PROVE Agree'
  <2>1. /\ Agree /\ pc[s] \notin ContactsSteps /\ UNCHANGED <<stored, shown, remote>>
        /\ \A t \in Slots \ {s} : pc'[t] = pc[t] /\ call'[t] = call[t]
    BY <1>2 DEF Aside, Agreed, Only, contacts, local
  <2>2. pc[s] \notin Posting /\ pc'[s] \notin Posting
    BY <1>2, <2>1, AsideSteps, NamedSteps
  <2>3. \A p \in People : Pending(p)' <=> Pending(p)
    BY <2>1, <2>2 DEF Pending
  <2>4. \A t \in Slots \ {s} : Own(t)' <=> Own(t)
    BY <2>1 DEF Own
  <2>5. Own(s)'
    BY <1>2, AsideSteps DEF Own
  <2>6. QED
    BY <2>1, <2>3, <2>4, <2>5 DEF Agree
<1>3. ASSUME NEW s \in Slots, ContactsStep(s), UNCHANGED channels PROVE Agree'
  <2>1. Agree /\ "contacts" \in alone /\ whole' # FALSE
    BY <1>3, ContactsStepMoves DEF ContactsMove, Agreed
  <2>2. QED
    BY <1>3, <2>1, AgreeStep
<1>4. QED
  BY <1>1, <1>2, <1>3, ContactsCases

LEMMA AgreedHolds == Spec => []Agreed
<1>1. Init => Agreed
  <2> SUFFICES ASSUME Init PROVE Agreed
    OBVIOUS
  <2>1. shown = stored /\ remote = stored
    BY DEF Init, ContactsInit
  <2>2. \A s \in Slots : pc[s] = "idle"
    BY DEF Init, PageInit
  <2>3. QED
    BY <2>1, <2>2 DEF Agreed, Agree, Own, Putting, Chosen, Posting, AddSteps
<1>2. CallsInv /\ KeysInv /\ Agreed /\ [Next]_vars => Agreed'
  BY AgreedNext
<1>3. QED
  BY <1>1, <1>2, CallsInvHolds, KeysInvHolds, PTL DEF Spec

\* The list the page edits in memory stays the list that is stored.
THEOREM ListsAgree == Spec => []ListIsStored
<1>1. Agreed => ListIsStored
  BY DEF Agreed, Agree, ListIsStored
<1>2. QED
  BY <1>1, AgreedHolds, PTL

\* Nobody goes back to older keys of a contact, in the list that is stored, in
\* the one that is shown or on the server.
THEOREM NewerKeysStay == Spec => KeysForward
<1> DEFINE Forward(p) == /\ stored'[p] # 0 => stored'[p] >= stored[p]
                         /\ shown'[p] # 0 => shown'[p] >= shown[p]
                         /\ remote'[p] >= remote[p]
<1>1. ASSUME CallsInv, KeysInv, Agreed, [Next]_vars, "contacts" \in alone', whole', NEW p \in People
      PROVE  Forward(p)
  <2>0. stored[p] \in Nat /\ shown[p] \in Nat /\ remote[p] \in Nat
    BY <1>1, ListValues
  <2>1. CASE Calm
    <3>1. UNCHANGED <<stored, remote>> /\ shown' = shown
      BY <1>1, <2>1 DEF Calm, Agreed, Agree
    <3>2. QED
      BY <2>0, <3>1
  <2>2. ASSUME NEW s \in Slots, Aside(s) PROVE Forward(p)
    BY <2>0, <2>2 DEF Aside, contacts, local
  <2>3. ASSUME NEW s \in Slots, ContactsStep(s), UNCHANGED channels PROVE Forward(p)
    <3>0. Only(s) /\ pc[s] \in ContactsSteps /\ "contacts" \in alone /\ whole
      BY <1>1, <2>3, ContactsStepMoves DEF ContactsMove
    <3>1. Own(s) /\ shown = stored /\ (stored[p] # 0 /\ ~Pending(p) => remote[p] = stored[p])
      BY <1>1, <3>0 DEF Agreed, Agree
    <3>2. Pending(p) <=> (pc[s] \in Posting /\ call[s].who = p)
      BY <1>1, <3>0, AloneHere
    <3>3. stored \in Lists /\ shown \in Lists /\ remote \in Lists
      BY <1>1 DEF CallsInv, CallTypes
    <3>4. CASE Ends(s) \/ Searches(s) \/ Opens(s) \/ Reads(s) \/ Fetches(s)
      BY <2>0, <3>4 DEF Ends, Searches, Opens, Reads, Fetches, contacts, local
    <3>5. CASE Adds(s)
      <4>0. PICK q, k : q = call[s].who /\ k = call[s].keys
        OBVIOUS
      <4>1. q \in People /\ k \in Nat /\ call[s].array = stored /\ stored[q] <= k
        BY <1>1, <3>1, <3>5, <4>0, ListValues DEF Adds, Own, Putting, Chosen, AddSteps
      <4>2. stored' = [stored EXCEPT ![q] = k] /\ shown' = stored' /\ remote' = remote
        BY <3>1, <3>5, <4>0, <4>1 DEF Adds
      <4>3. stored'[p] = IF p = q THEN k ELSE stored[p]
        BY <3>3, <4>1, <4>2 DEF Lists
      <4>4. stored'[p] >= stored[p] /\ shown'[p] = stored'[p] /\ shown[p] = stored[p] /\ remote'[p] = remote[p]
        BY <2>0, <3>1, <4>1, <4>2, <4>3
      <4>5. QED
        BY <2>0, <4>4
    <3>6. CASE Removes(s)
      <4>0. PICK q : q = call[s].who
        OBVIOUS
      <4>1. q \in People /\ call[s].array = stored
        BY <1>1, <3>1, <3>6, <4>0, ListValues DEF Removes, Own, Putting, RemoveSteps
      <4>2. stored' = [stored EXCEPT ![q] = 0] /\ shown' = stored' /\ remote' = remote
        BY <3>1, <3>6, <4>0, <4>1 DEF Removes
      <4>3. stored'[p] = IF p = q THEN 0 ELSE stored[p]
        BY <3>3, <4>1, <4>2 DEF Lists
      <4>4. QED
        BY <2>0, <3>1, <4>2, <4>3
    <3>7. CASE Posts(s)
      <4>0. PICK q, k : q = call[s].who /\ k = call[s].keys
        OBVIOUS
      <4>1. q \in People /\ k \in Nat /\ remote[q] <= k
        BY <1>1, <3>1, <3>7, <4>0, ListValues DEF Posts, Own, Chosen, AddSteps
      <4>2. remote' = [remote EXCEPT ![q] = k] /\ stored' = stored /\ shown' = shown
        BY <3>7, <4>0 DEF Posts
      <4>3. remote'[p] = IF p = q THEN k ELSE remote[p]
        BY <3>3, <4>1, <4>2 DEF Lists
      <4>4. QED
        BY <2>0, <4>1, <4>2, <4>3
    <3>8. CASE Shows(s)
      <4>1. call[s].rows = remote /\ ~Pending(p)
        BY <3>1, <3>2, <3>8 DEF Shows, Own, Posting
      <4>2. shown'[p] = stored[p] /\ stored' = stored /\ remote' = remote
        BY <3>1, <3>8, <4>1 DEF Shows
      <4>3. QED
        BY <2>0, <3>1, <4>2
    <3>9. QED
      BY <1>1, <2>3, <3>4, <3>5, <3>6, <3>7, <3>8, ContactsEffects
  <2>4. QED
    BY <1>1, <2>1, <2>2, <2>3, ContactsCases
<1>2. CallsInv /\ KeysInv /\ Agreed /\ [Next]_vars =>
         ["contacts" \in alone' /\ whole' => \A p \in People : Forward(p)]_contacts
  BY <1>1
<1>3. QED
  BY <1>2, CallsInvHolds, KeysInvHolds, AgreedHolds, PTL DEF Spec, KeysForward

-----------------------------------------------------------------------------
(* The steps of the client, by what they do to the rows of the channels and  *)
(* to the view.                                                              *)

\* What others do, and what the person at the page does besides calls.
Around ==
    /\ UNCHANGED <<pc, call>> /\ view' \in {view, << >>} /\ (version = 3 => version' = 3)
    /\ \/ rows' = rows /\ (acts' = acts \/ Act)
       \/ Act /\ \E c \in Chans, p \in Senders : Insert(c, p)
Passes(s) ==
    /\ Only(s) /\ UNCHANGED <<rows, view, version>>
    /\ acts' = acts \/ Act
    /\ pc'[s] \in Inserting => pc[s] \in Inserting \/ Act
    /\ pc'[s] # "send_echo" /\ (pc'[s] = "poll_show" => version = 3)
Displays(s) ==
    /\ Only(s) /\ UNCHANGED <<rows, version, acts>>
    /\ pc[s] = "poll_show" /\ pc'[s] = "idle" /\ (version = 3 => view' = view)
Inserts(s) ==
    /\ Only(s) /\ UNCHANGED <<view, version, acts>>
    /\ pc[s] = "send_insert" /\ pc'[s] = "send_echo"
    /\ call[s].chan \in Chans /\ Insert(call[s].chan, Me)
    /\ call'[s].chan = call[s].chan /\ call'[s].seq = Len(rows) + 1
Echoes(s) ==
    /\ Only(s) /\ UNCHANGED <<rows, version, acts>>
    /\ pc[s] = "send_echo" /\ pc'[s] = "idle"
    /\ call[s].chan \in Chans /\ view' = Append(view, Echo(call[s].chan, call[s].seq))

LEMMA OutsideIsAround == ASSUME CallsInv, Outside PROVE Around
<1>1. CASE Mount /\ UNCHANGED channels
  BY <1>1 DEF Mount, Around, shared, channels
<1>2. CASE (\E p \in People : Register(p)) /\ UNCHANGED channels
  BY <1>2 DEF Register, Around, channels
<1>3. CASE (\E s \in Slots : AskFor(s)) \/ (Upgrade /\ UNCHANGED <<contacts, channels>>)
  BY <1>3 DEF AskFor, Ask, Upgrade, Around, channels
<1>4. CASE Arrive
  BY <1>4 DEF Arrive, Around
<1>5. CASE Access \/ DeleteAccount \/ DropServer \/ SelectChannel \/ StopPolling
  BY <1>5 DEF Access, DeleteAccount, DropServer, SelectChannel, StopPolling, Around
<1>6. QED
  BY <1>1, <1>2, <1>3, <1>4, <1>5 DEF Outside, Others

LEMMA StepsAround ==
    ASSUME CallsInv, NEW s \in Slots, ChannelsStep(s), UNCHANGED contacts
    PROVE  Passes(s) \/ Displays(s) \/ Inserts(s) \/ Echoes(s)
<1>0. CallTypes
  BY DEF CallsInv
<1>1. /\ Only(s) /\ UNCHANGED <<acts, version>>
      /\ pc'[s] \in Inserting => pc[s] \in Inserting
  BY <1>0, ChannelsStepMoves DEF ChannelsMove
<1>2. CASE UNCHANGED <<rows, view>> /\ pc'[s] # "send_echo" /\ (pc'[s] = "poll_show" => version = 3)
  BY <1>1, <1>2 DEF Passes
<1>3. CASE PollShow(s) /\ pc[s] = "poll_show" /\ pc'[s] = "idle" /\ UNCHANGED rows
  BY <1>1, <1>3 DEF PollShow, Displays, CanOpen, DB_VERSION
<1>4. CASE /\ Insert(call[s].chan, Me) /\ view' = view /\ pc[s] = "send_insert"
           /\ pc'[s] = "send_echo" /\ call[s].chan \in Chans
           /\ call'[s].chan = call[s].chan /\ call'[s].seq = Len(rows) + 1
  BY <1>1, <1>4 DEF Inserts
<1>5. CASE /\ view' = Append(view, Echo(call[s].chan, call[s].seq)) /\ UNCHANGED rows
           /\ pc[s] = "send_echo" /\ pc'[s] = "idle" /\ call[s].chan \in Chans
  BY <1>1, <1>5 DEF Echoes
<1>6. QED
  BY <1>0, <1>2, <1>3, <1>4, <1>5, ChannelsStepMoves

LEMMA ViewCases ==
    ASSUME CallsInv, [Next]_vars
    PROVE  \/ Around
           \/ \E s \in Slots : Passes(s) \/ Displays(s) \/ Inserts(s) \/ Echoes(s)
<1>1. CASE UNCHANGED vars
  BY <1>1 DEF vars, shared, channels, Around
<1>2. CASE Outside
  BY <1>2, OutsideIsAround
<1>3. ASSUME NEW s \in Slots, ContactsStep(s) /\ UNCHANGED channels PROVE Passes(s)
  <2>1. ContactsMove(s)
    BY <1>3, ContactsStepMoves
  <2>2. pc'[s] \notin Inserting /\ pc'[s] # "send_echo" /\ pc'[s] # "poll_show"
    BY <2>1 DEF ContactsMove, ContactsSteps, AddSteps, RemoveSteps, LoadSteps, Inserting
  <2>3. QED
    BY <1>3, <2>1, <2>2 DEF ContactsMove, Passes, channels
<1>4. ASSUME NEW s \in Slots, StartContacts(s) /\ UNCHANGED channels PROVE Passes(s)
  <2>1. /\ Begins(s, "contacts", ContactsSteps) /\ Act
        /\ pc'[s] \in {"add_search", "remove_open", "load_fetch"}
    BY <1>4, StartContactsMoves DEF CallsInv, StartContacts
  <2>2. pc'[s] \notin Inserting
    BY <2>1 DEF Inserting
  <2>3. QED
    BY <2>1, <2>2 DEF Begins, Passes, channels
<1>5. ASSUME NEW s \in Slots, (StartPoll(s) \/ StartSend(s)) /\ UNCHANGED contacts PROVE Passes(s)
  <2>1. /\ Begins(s, "channels", ChannelsSteps)
        /\ \/ pc'[s] = "poll_check" /\ acts' = acts
           \/ pc'[s] = "send_keys" /\ Act
    BY <1>5, StartChannelsMoves DEF CallsInv
  <2>2. QED
    BY <2>1 DEF Begins, Passes, channels, Inserting
<1>6. ASSUME NEW s \in Slots, CutOff(s) /\ UNCHANGED <<contacts, channels>> PROVE Passes(s)
  BY <1>6, CutOffMoves DEF CutOff, Passes, channels, Inserting
<1>7. QED
  BY <1>1, <1>2, <1>3, <1>4, <1>5, <1>6, NextCases, StepsAround

-----------------------------------------------------------------------------
(* The bound on what people do bounds the rows: each has been sent by        *)
(* someone, and a send that has not inserted its row counts already.         *)

Sendings == {s \in Slots : pc[s] \in Inserting}

ActsInv == acts \in 0..MaxActs /\ Len(rows) + Cardinality(Sendings) <= acts

LEMMA SendersMove ==
    ASSUME NEW s \in Slots, Only(s)
    PROVE  /\ Cardinality(Sendings) \in Nat /\ Cardinality(Sendings') \in Nat
           /\ Cardinality(Sendings') <= Cardinality(Sendings) + 1
           /\ (pc'[s] \in Inserting => pc[s] \in Inserting) => Cardinality(Sendings') <= Cardinality(Sendings)
           /\ pc[s] \in Inserting /\ pc'[s] \notin Inserting => Cardinality(Sendings') = Cardinality(Sendings) - 1
<1>1. IsFiniteSet(Sendings) /\ Sendings \subseteq Slots
  <2>1. Sendings \in SUBSET Slots /\ IsFiniteSet(Slots)
    BY PageAssumption DEF Sendings
  <2>2. QED
    BY <2>1, FS_Subset
<1>2. Cardinality(Sendings) \in Nat
  BY <1>1, FS_CardinalityType
<1>3. \A t \in Slots \ {s} : pc'[t] = pc[t]
  BY DEF Only
<1>4. Sendings' = {t \in Slots : pc'[t] \in Inserting}
  BY DEF Sendings
<1>5. CASE pc[s] \in Inserting /\ pc'[s] \notin Inserting
  <2>1. Sendings' = Sendings \ {s} /\ s \in Sendings
    BY <1>3, <1>4, <1>5 DEF Sendings
  <2>2. Cardinality(Sendings') = Cardinality(Sendings) - 1
    BY <1>1, <2>1, FS_RemoveElement
  <2>3. Cardinality(Sendings') \in Nat
    BY <1>1, <2>1, FS_RemoveElement, FS_CardinalityType
  <2>4. QED
    BY <1>2, <1>5, <2>2, <2>3
<1>6. CASE pc[s] \notin Inserting /\ pc'[s] \in Inserting
  <2>1. Sendings' = Sendings \cup {s} /\ s \notin Sendings
    BY <1>3, <1>4, <1>6 DEF Sendings
  <2>2. Cardinality(Sendings') = Cardinality(Sendings) + 1
    BY <1>1, <2>1, FS_AddElement
  <2>3. QED
    BY <1>2, <1>6, <2>2
<1>7. CASE pc[s] \in Inserting <=> pc'[s] \in Inserting
  <2>1. Sendings' = Sendings
    BY <1>3, <1>4, <1>7 DEF Sendings
  <2>2. QED
    BY <1>2, <1>7, <2>1
<1>8. QED
  BY <1>5, <1>6, <1>7

LEMMA ActsInvNext == ASSUME CallsInv, ActsInv, [Next]_vars PROVE ActsInv'
<1>0. acts \in Nat /\ acts <= MaxActs /\ MaxActs \in Nat /\ Len(rows) \in Nat /\ rows \in Seq(Row)
  BY PageAssumption DEF ActsInv, CallsInv, CallTypes
<1>1. Act => acts' \in 0..MaxActs /\ acts' = acts + 1
  BY <1>0 DEF Act
<1>2. acts' = acts => acts' \in 0..MaxActs
  BY <1>0
<1>3. ASSUME NEW c \in Chans, NEW p \in Senders, Insert(c, p) PROVE Len(rows') = Len(rows) + 1
  BY <1>0, <1>3, InsertRow
<1>4. CASE Around
  <2>1. Sendings' = Sendings
    BY <1>4 DEF Around, Sendings
  <2>2. IsFiniteSet(Sendings)
    <3>1. Sendings \in SUBSET Slots
      BY DEF Sendings
    <3>2. QED
      BY <3>1, PageAssumption, FS_Subset
  <2>3. Cardinality(Sendings) \in Nat /\ Cardinality(Sendings') = Cardinality(Sendings)
    BY <2>1, <2>2, FS_CardinalityType
  <2>4. rows' = rows \/ (Len(rows') = Len(rows) + 1 /\ Act)
    BY <1>3, <1>4 DEF Around
  <2>5. acts' = acts \/ Act
    BY <1>4 DEF Around
  <2>6. QED
    BY <1>0, <1>1, <1>2, <2>3, <2>4, <2>5 DEF ActsInv
<1>5. ASSUME NEW s \in Slots, Passes(s) \/ Displays(s) \/ Inserts(s) \/ Echoes(s)
      PROVE  ActsInv'
  <2>0. Only(s)
    BY <1>5 DEF Passes, Displays, Inserts, Echoes
  <2>1. PICK n, m : n = Cardinality(Sendings) /\ m = Cardinality(Sendings')
    OBVIOUS
  <2>2. /\ n \in Nat /\ m \in Nat /\ m <= n + 1
        /\ (pc'[s] \in Inserting => pc[s] \in Inserting) => m <= n
        /\ pc[s] \in Inserting /\ pc'[s] \notin Inserting => m = n - 1
    BY <2>0, <2>1, SendersMove
  <2>3. Len(rows) + n <= acts
    BY <2>1 DEF ActsInv
  <2>4. ASSUME Len(rows') + m <= acts', acts' = acts \/ Act PROVE ActsInv'
    BY <1>1, <1>2, <2>1, <2>4 DEF ActsInv
  <2>5. CASE Passes(s)
    <3>1. rows' = rows /\ (acts' = acts \/ Act) /\ (m <= n \/ (m <= n + 1 /\ Act))
      BY <2>2, <2>5 DEF Passes
    <3>2. QED
      BY <1>0, <1>1, <2>2, <2>3, <2>4, <3>1
  <2>6. CASE Displays(s) \/ Echoes(s)
    <3>1. rows' = rows /\ acts' = acts /\ m <= n
      BY <2>2, <2>6 DEF Displays, Echoes, Inserting
    <3>2. QED
      BY <1>0, <2>2, <2>3, <2>4, <3>1
  <2>7. CASE Inserts(s)
    <3>1. Len(rows') = Len(rows) + 1 /\ acts' = acts /\ m = n - 1
      BY <1>3, <2>2, <2>7, ChannelsAssumption DEF Inserts, Inserting
    <3>2. QED
      BY <1>0, <2>2, <2>3, <2>4, <3>1
  <2>8. QED
    BY <1>5, <2>5, <2>6, <2>7
<1>6. QED
  BY <1>4, <1>5, ViewCases

LEMMA ActsInvHolds == Spec => []ActsInv
<1>1. Init => ActsInv
  <2> SUFFICES ASSUME Init PROVE ActsInv
    OBVIOUS
  <2>1. acts = 0 /\ rows = << >> /\ \A s \in Slots : pc[s] = "idle"
    BY DEF Init, PageInit, ChannelsInit
  <2>2. Sendings = {}
    BY <2>1 DEF Sendings, Inserting
  <2>3. Cardinality(Sendings) = 0 /\ Len(rows) = 0
    BY <2>1, <2>2, FS_EmptySet
  <2>4. QED
    BY <2>1, <2>3, PageAssumption DEF ActsInv
<1>2. CallsInv /\ ActsInv /\ [Next]_vars => ActsInv'
  BY ActsInvNext
<1>3. QED
  BY <1>1, <1>2, CallsInvHolds, PTL DEF Spec

-----------------------------------------------------------------------------
(* What is shown.  When a poll gets to show its rows the database has        *)
(* version 3 and the poll cannot read the contacts; so all that is added to  *)
(* the view is the echo of a send, and each echo has its own row.            *)

ShowsLate(s) == pc[s] = "poll_show" => version = 3
Sent(s) ==
    pc[s] = "send_echo" =>
        /\ call[s].seq \in DOMAIN rows
        /\ rows[call[s].seq] = [chan |-> call[s].chan, from |-> Me]
        /\ \A i \in DOMAIN view : view[i].seq # call[s].seq
Apart ==
    \A s, t \in Slots :
        pc[s] = "send_echo" /\ pc[t] = "send_echo" /\ call[s].seq = call[t].seq => s = t

ShownInv ==
    /\ view \in Seq([chan : Chans, from : Senders, seq : Nat]) /\ ShownIsSent
    /\ Apart /\ \A s \in Slots : ShowsLate(s) /\ Sent(s)

\* A step that adds nothing to the view, and no send that has its row.
LEMMA ShownStays ==
    ASSUME CallsInv, ShownInv, view' \in {view, << >>}, version = 3 => version' = 3,
           rows' = rows \/ \E c \in Chans, p \in Senders : Insert(c, p),
           \A t \in Slots :
              /\ pc'[t] = "send_echo" => pc[t] = "send_echo" /\ call'[t] = call[t]
              /\ pc'[t] = "poll_show" => pc[t] = "poll_show" \/ version = 3
    PROVE  ShownInv'
<1> DEFINE E == [chan : Chans, from : Senders, seq : Nat]
<1>1. DOMAIN rows \subseteq DOMAIN rows' /\ \A n \in DOMAIN rows : rows'[n] = rows[n]
  <2>1. ASSUME NEW c \in Chans, NEW p \in Senders, Insert(c, p)
        PROVE  DOMAIN rows \subseteq DOMAIN rows' /\ \A n \in DOMAIN rows : rows'[n] = rows[n]
    <3>1. /\ Len(rows) \in Nat /\ DOMAIN rows = 1..Len(rows) /\ DOMAIN rows' = 1..(Len(rows) + 1)
          /\ \A n \in DOMAIN rows : rows'[n] = rows[n]
      BY <2>1, InsertRow DEF CallsInv, CallTypes
    <3>2. QED
      BY <3>1
  <2>2. QED
    BY <2>1
<1>2. view \in Seq(E) /\ << >> \in Seq(E)
  BY EmptySeq, Zenon DEF ShownInv
<1>3. view' \in Seq(E)
  BY <1>2, Zenon
<1>4. DOMAIN << >> = {}
  OBVIOUS
<1>5. DOMAIN view' \subseteq DOMAIN view /\ \A i \in DOMAIN view' : view'[i] = view[i]
  <2>1. CASE view' = view
    BY <2>1
  <2>2. CASE view' = << >>
    BY <1>4, <2>2
  <2>3. QED
    BY <2>1, <2>2
<1>6. ShownIsSent'
  <2>1. \A i \in DOMAIN view :
           /\ view[i].from = Me /\ view[i].seq \in DOMAIN rows
           /\ rows[view[i].seq] = [chan |-> view[i].chan, from |-> Me]
    BY DEF ShownInv, ShownIsSent
  <2>2. \A i, j \in DOMAIN view : view[i].seq = view[j].seq => i = j
    BY DEF ShownInv, ShownIsSent
  <2>3. \A i \in DOMAIN view' :
           /\ view'[i].from = Me /\ view'[i].seq \in DOMAIN rows'
           /\ rows'[view'[i].seq] = [chan |-> view'[i].chan, from |-> Me]
    BY <1>1, <1>5, <2>1
  <2>4. \A i, j \in DOMAIN view' : view'[i].seq = view'[j].seq => i = j
    BY <1>5, <2>2
  <2>5. QED
    BY <2>3, <2>4 DEF ShownIsSent
<1>7. Apart'
  BY DEF ShownInv, Apart
<1>8. \A t \in Slots : ShowsLate(t)'
  BY DEF ShownInv, ShowsLate
<1>9. ASSUME NEW t \in Slots PROVE Sent(t)'
  <2>1. SUFFICES ASSUME pc'[t] = "send_echo" PROVE Sent(t)'
    BY DEF Sent
  <2>2. Sent(t) /\ pc[t] = "send_echo" /\ call'[t] = call[t]
    BY <2>1 DEF ShownInv
  <2>3. QED
    BY <1>1, <1>5, <2>2 DEF Sent
<1>10. QED
  BY <1>3, <1>6, <1>7, <1>8, <1>9 DEF ShownInv

\* The INSERT gives a send a row that no other send and nothing shown has.
LEMMA ShownInserts == ASSUME CallsInv, ShownInv, NEW s \in Slots, Inserts(s) PROVE ShownInv'
<1> DEFINE n == Len(rows) + 1
<1>1. /\ rows \in Seq(Row) /\ Insert(call[s].chan, Me) /\ call[s].chan \in Chans
      /\ UNCHANGED <<view, version>> /\ pc'[s] = "send_echo"
      /\ call'[s].chan = call[s].chan /\ call'[s].seq = n
      /\ \A t \in Slots \ {s} : pc'[t] = pc[t] /\ call'[t] = call[t]
  BY DEF CallsInv, CallTypes, Inserts, Only
<1>2. /\ Len(rows) \in Nat /\ DOMAIN rows = 1..Len(rows) /\ DOMAIN rows' = 1..(Len(rows) + 1)
      /\ \A i \in DOMAIN rows : rows'[i] = rows[i]
  BY <1>1, InsertRow, ChannelsAssumption
<1>3. rows'[n] = [chan |-> call[s].chan, from |-> Me]
  BY <1>1, <1>2 DEF Insert
<1>4. DOMAIN rows \subseteq DOMAIN rows' /\ n \in DOMAIN rows' /\ n \notin DOMAIN rows
  BY <1>2
<1> HIDE DEF n
<1>5. ASSUME NEW t \in Slots, pc[t] = "send_echo" PROVE call[t].seq # n
  BY <1>4, <1>5 DEF ShownInv, Sent
<1>6. \A i \in DOMAIN view : view[i].seq # n
  BY <1>4 DEF ShownInv, ShownIsSent
<1>7. ShownIsSent'
  <2>1. \A i \in DOMAIN view :
           /\ view[i].from = Me /\ view[i].seq \in DOMAIN rows
           /\ rows[view[i].seq] = [chan |-> view[i].chan, from |-> Me]
    BY DEF ShownInv, ShownIsSent
  <2>2. \A i, j \in DOMAIN view : view[i].seq = view[j].seq => i = j
    BY DEF ShownInv, ShownIsSent
  <2>3. view' = view
    BY <1>1
  <2>4. QED
    BY <1>2, <1>4, <2>1, <2>2, <2>3 DEF ShownIsSent
<1>8. Apart'
  BY <1>1, <1>5 DEF ShownInv, Apart
<1>9. ASSUME NEW t \in Slots PROVE ShowsLate(t)' /\ Sent(t)'
  <2>1. CASE t = s
    BY <1>1, <1>3, <1>4, <1>6, <2>1 DEF ShowsLate, Sent
  <2>2. CASE t # s
    <3>1. ShowsLate(t) /\ Sent(t) /\ pc'[t] = pc[t] /\ call'[t] = call[t] /\ view' = view /\ version' = version
      BY <1>1, <2>2 DEF ShownInv
    <3>2. QED
      BY <1>2, <1>4, <3>1 DEF ShowsLate, Sent
  <2>3. QED
    BY <2>1, <2>2
<1>10. QED
  BY <1>1, <1>7, <1>8, <1>9 DEF ShownInv

\* The echo takes the row of its send with it.
LEMMA ShownEchoes == ASSUME CallsInv, ShownInv, NEW s \in Slots, Echoes(s) PROVE ShownInv'
<1> DEFINE E == [chan : Chans, from : Senders, seq : Nat]
           e == Echo(call[s].chan, call[s].seq)
<1>1. /\ UNCHANGED <<rows, version>> /\ pc[s] = "send_echo" /\ pc'[s] = "idle"
      /\ call[s].chan \in Chans /\ view' = Append(view, e)
      /\ \A t \in Slots \ {s} : pc'[t] = pc[t] /\ call'[t] = call[t]
  BY DEF Echoes, Only
<1>2. /\ call[s].seq \in DOMAIN rows /\ rows[call[s].seq] = [chan |-> call[s].chan, from |-> Me]
      /\ \A i \in DOMAIN view : view[i].seq # call[s].seq
  BY <1>1 DEF ShownInv, Sent
<1>3. DOMAIN rows = 1..Len(rows) /\ Len(rows) \in Nat
  BY DEF CallsInv, CallTypes
<1>4. e \in E /\ e.chan = call[s].chan /\ e.from = Me /\ e.seq = call[s].seq
  BY <1>1, <1>2, <1>3, ChannelsAssumption DEF Echo
<1> HIDE DEF e
<1>5. view \in Seq(E)
  BY DEF ShownInv
<1> HIDE DEF E
<1>6. /\ view' \in Seq(E) /\ Len(view) \in Nat /\ DOMAIN view = 1..Len(view)
      /\ DOMAIN view' = 1..(Len(view) + 1) /\ view'[Len(view) + 1] = e
      /\ \A i \in DOMAIN view : view'[i] = view[i]
  BY <1>1, <1>4, <1>5
<1>7. \A i \in DOMAIN view' : i \in DOMAIN view \/ i = Len(view) + 1
  BY <1>6
<1>8. ShownIsSent'
  <2>1. \A i \in DOMAIN view :
           /\ view[i].from = Me /\ view[i].seq \in DOMAIN rows
           /\ rows[view[i].seq] = [chan |-> view[i].chan, from |-> Me]
    BY DEF ShownInv, ShownIsSent
  <2>2. \A i, j \in DOMAIN view : view[i].seq = view[j].seq => i = j
    BY DEF ShownInv, ShownIsSent
  <2>3. rows' = rows
    BY <1>1
  <2>4. \A i \in DOMAIN view' :
           /\ view'[i].from = Me /\ view'[i].seq \in DOMAIN rows
           /\ rows[view'[i].seq] = [chan |-> view'[i].chan, from |-> Me]
    BY <1>2, <1>4, <1>6, <1>7, <2>1
  <2>5. \A i, j \in DOMAIN view' : view'[i].seq = view'[j].seq => i = j
    BY <1>2, <1>4, <1>6, <1>7, <2>2
  <2>6. QED
    BY <2>3, <2>4, <2>5 DEF ShownIsSent
<1>9. Apart'
  BY <1>1 DEF ShownInv, Apart
<1>10. ASSUME NEW t \in Slots PROVE ShowsLate(t)' /\ Sent(t)'
  <2>1. CASE t = s
    BY <1>1, <2>1 DEF ShowsLate, Sent
  <2>2. CASE t # s
    <3>1. /\ ShowsLate(t) /\ Sent(t) /\ pc'[t] = pc[t] /\ call'[t] = call[t]
          /\ rows' = rows /\ version' = version
      BY <1>1, <2>2 DEF ShownInv
    <3>2. pc[t] = "send_echo" => call[t].seq # call[s].seq
      BY <1>1, <2>2 DEF ShownInv, Apart
    <3>3. \A i \in DOMAIN view' : view'[i].seq = view[i].seq \/ view'[i].seq = call[s].seq
      BY <1>4, <1>6, <1>7
    <3>4. pc[t] = "send_echo" => \A i \in DOMAIN view' : view'[i].seq # call[t].seq
      BY <1>4, <1>6, <1>7, <3>1, <3>2 DEF Sent
    <3>5. QED
      BY <3>1, <3>4 DEF ShowsLate, Sent
  <2>3. QED
    BY <2>1, <2>2
<1>11. QED
  BY <1>6, <1>8, <1>9, <1>10 DEF ShownInv, E

LEMMA ShownInvNext == ASSUME CallsInv, ShownInv, [Next]_vars PROVE ShownInv'
<1>1. CASE Around
  BY <1>1, ShownStays DEF Around
<1>2. ASSUME NEW s \in Slots, Passes(s) PROVE ShownInv'
  BY <1>2, ShownStays DEF Passes, Only
<1>3. ASSUME NEW s \in Slots, Displays(s) PROVE ShownInv'
  <2>1. version = 3 /\ view' = view
    BY <1>3 DEF Displays, ShownInv, ShowsLate
  <2>2. QED
    BY <1>3, <2>1, ShownStays DEF Displays, Only
<1>4. QED
  BY <1>1, <1>2, <1>3, ShownInserts, ShownEchoes, ViewCases

LEMMA ShownInvHolds == Spec => []ShownInv
<1>1. Init => ShownInv
  <2> SUFFICES ASSUME Init PROVE ShownInv
    OBVIOUS
  <2>1. view = << >> /\ \A s \in Slots : pc[s] = "idle"
    BY DEF Init, PageInit, ChannelsInit
  <2>2. DOMAIN << >> = {} /\ << >> \in Seq([chan : Chans, from : Senders, seq : Nat])
    BY EmptySeq
  <2>3. QED
    BY <2>1, <2>2 DEF ShownInv, ShownIsSent, Apart, ShowsLate, Sent
<1>2. CallsInv /\ ShownInv /\ [Next]_vars => ShownInv'
  BY ShownInvNext
<1>3. QED
  BY <1>1, <1>2, CallsInvHolds, PTL DEF Spec

\* However sends, polls, refusals and deletions overlap, the page shows of its
\* channels only messages of its own account that the server has taken in, once.
THEOREM ShownMessagesAreSent == Spec => []ShownIsSent
<1>1. ShownInv => ShownIsSent
  BY DEF ShownInv
<1>2. QED
  BY <1>1, ShownInvHolds, PTL

\* The two stores open different versions of the database: once it has the
\* higher one, no contact is stored and no poll is shown.
THEOREM ContactsFreeze == Spec => UpgradeFreezes
<1> DEFINE Echoed == {view, << >>} \cup {Append(view, Echo(c, n)) : c \in Chans, n \in DOMAIN rows}
           Same == UNCHANGED local /\ view' \in Echoed
<1>1. ASSUME CallsInv, ShownInv, [Next]_vars, version = 3 PROVE Same
  <2>0. CallTypes /\ ~CanOpen /\ \A s \in Slots : pc[s] \notin Connected
    BY <1>1 DEF CallsInv, Frozen, CanOpen, DB_VERSION
  <2>1. view' \in Echoed
    <3>1. ASSUME NEW s \in Slots, Echoes(s) PROVE view' \in Echoed
      <4>1. call[s].chan \in Chans /\ view' = Append(view, Echo(call[s].chan, call[s].seq))
        BY <3>1 DEF Echoes
      <4>2. call[s].seq \in DOMAIN rows
        BY <1>1, <3>1 DEF Echoes, ShownInv, Sent
      <4>3. QED
        BY <4>1, <4>2
    <3>2. ASSUME NEW s \in Slots, Passes(s) \/ Displays(s) \/ Inserts(s) PROVE view' = view
      BY <1>1, <3>2 DEF Passes, Displays, Inserts
    <3>3. Around => view' \in {view, << >>}
      BY DEF Around
    <3>4. QED
      BY <1>1, <3>1, <3>2, <3>3, ViewCases
  <2>2. UNCHANGED local
    <3>1. CASE UNCHANGED vars
      BY <3>1 DEF vars, contacts, channels, local
    <3>2. CASE Outside
      BY <2>0, <3>2 DEF Outside, AskFor, Upgrade, Register, Mount, contacts, local
    <3>3. ASSUME NEW s \in Slots, ContactsStep(s) /\ UNCHANGED channels PROVE UNCHANGED local
      <4>1. ~AddPut(s) /\ ~RemovePut(s)
        BY <2>0 DEF AddPut, RemovePut, Connected
      <4>2. QED
        BY <2>0, <3>3, <4>1 DEF ContactsStep, AddSearch, Open, Read, AddCopy, AddPost, LoadFetch, LoadShow,
                                contacts, local
    <3>4. ASSUME NEW s \in Slots,
                 \/ ChannelsStep(s) /\ UNCHANGED contacts
                 \/ StartContacts(s) /\ UNCHANGED channels
                 \/ (StartPoll(s) \/ StartSend(s)) /\ UNCHANGED contacts
                 \/ CutOff(s) /\ UNCHANGED <<contacts, channels>>
          PROVE  UNCHANGED local
      BY <3>4 DEF StartContacts, contacts, local
    <3>5. QED
      BY <1>1, <3>1, <3>2, <3>3, <3>4, NextCases
  <2>3. QED
    BY <2>1, <2>2
<1>2. CallsInv /\ ShownInv /\ [Next]_vars => [version = 3 => Same]_vars
  BY <1>1
<1>3. QED
  BY <1>2, CallsInvHolds, ShownInvHolds, PTL DEF Spec, UpgradeFreezes

\* The types of the contacts and of the channels, and what is kept of a call
\* exactly while it is in progress.
THEOREM ClientTypes == Spec => []TypeOK
<1>1. CallsInv /\ ActsInv /\ ShownInv => TypeOK
  <2> SUFFICES ASSUME CallsInv, ActsInv, ShownInv PROVE TypeOK
    OBVIOUS
  <2>1. MaxActs \in Nat /\ acts \in 0..MaxActs /\ Len(rows) \in Nat /\ DOMAIN rows = 1..Len(rows)
    BY PageAssumption DEF ActsInv, CallsInv, CallTypes
  <2>2. Len(rows) <= MaxActs
    <3>1. Sendings \in SUBSET Slots
      BY DEF Sendings
    <3>2. IsFiniteSet(Sendings)
      BY <3>1, PageAssumption, FS_Subset
    <3>3. Cardinality(Sendings) \in Nat
      BY <3>2, FS_CardinalityType
    <3>4. QED
      BY <2>1, <3>3 DEF ActsInv
  <2>3. ASSUME NEW i \in 1..Len(view) PROVE view[i] \in Entry
    <3>1. view[i].seq \in 1..Len(rows) /\ view[i] \in [chan : Chans, from : Senders, seq : Nat]
      <4> DEFINE E == [chan : Chans, from : Senders, seq : Nat]
      <4>1. view \in Seq(E)
        BY DEF ShownInv
      <4> HIDE DEF E
      <4>2. i \in DOMAIN view /\ view[i] \in E
        BY <2>3, <4>1
      <4>3. view[i].seq \in DOMAIN rows
        BY <4>2 DEF ShownInv, ShownIsSent
      <4>4. QED
        BY <2>1, <4>2, <4>3 DEF E
    <3>2. view[i].seq \in 1..MaxActs
      BY <2>1, <2>2, <3>1
    <3>3. QED
      BY <3>1, <3>2 DEF Entry
  <2>4. view \in Seq(Entry)
    <3>1. view = [i \in 1..Len(view) |-> view[i]] /\ Len(view) \in Nat
      BY DEF ShownInv
    <3>2. view \in [1..Len(view) -> Entry]
      BY <2>3, <3>1
    <3>3. QED
      BY <3>1, <3>2
  <2>5. ASSUME NEW s \in Slots PROVE pc[s] = "idle" <=> call[s] = Idle
    <3>1. pc[s] \in Steps /\ CallType(s)
      BY DEF CallsInv, CallTypes
    <3>2. pc[s] # "idle" => call[s].op \in {"add", "remove", "load", "poll", "send"}
      BY <3>1 DEF Steps, ContactsSteps, ChannelsSteps, CallType, Editing, Loading, Polls, Sending
    <3>3. Idle.op = "none"
      BY DEF Idle
    <3>4. pc[s] = "idle" => call[s] = Idle
      BY <3>1 DEF CallType
    <3>5. QED
      BY <3>2, <3>3, <3>4
  <2>6. QED
    BY <2>1, <2>2, <2>4, <2>5 DEF TypeOK, CallsInv, CallTypes
<1>2. QED
  BY <1>1, CallsInvHolds, ActsInvHolds, ShownInvHolds, PTL

=============================================================================
