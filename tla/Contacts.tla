------------------------------ MODULE Contacts ------------------------------
(***************************************************************************)
(* The contacts of one account: the list in IndexedDB, the list its page   *)
(* shows, the rows of the table contacts.  The calls are addContact,       *)
(* removeContact and loadFromServer of stores/contacts.js with what        *)
(* crypto/db.js and routes/contacts.js do for them.  No page calls the     *)
(* last two yet.  The copy in localStorage, which is never read, is left   *)
(* out.                                                                    *)
(***************************************************************************)
EXTENDS PageCalls

CONSTANTS
    People,      \* usernames that may be added
    MaxKeys      \* bound on how often a username is registered

ASSUME ContactsAssumption == MaxKeys \in Nat \ {0}

VARIABLES
    published,   \* number of the keys in users for each username, 0 for none
    stored,      \* IndexedDB: keys each contact was stored with, 0 for none
    shown,       \* the same for the contacts store of the page
    remote       \* and for the rows of contacts that the account owns

local == <<stored, shown>>
contacts == <<published, stored, shown, remote>>
Lists == [People -> 0..MaxKeys]

\* The page has just been mounted; some contacts may be there from before.
ContactsInit ==
    /\ published \in [People -> {0, 1}] /\ stored \in [People -> {0, 1}]
    /\ \A p \in People : stored[p] <= published[p]
    /\ shown = stored /\ remote = stored

\* An account is registered, or deleted and registered again with new keys.
Register(p) ==
    /\ published[p] < MaxKeys /\ published' = [published EXCEPT ![p] = @ + 1]
    /\ Act
    /\ UNCHANGED <<local, remote, pc, call, version, asked, alone, whole>>

\* contacts.init, when the chat or the contacts page is mounted.
Mount ==
    /\ Answered /\ CanOpen
    /\ shown' = stored
    /\ UNCHANGED <<published, stored, remote, shared>>

StartContacts(s) ==
    /\ Act
    /\ \/ \E p \in People, op \in {"add", "remove"} :
             Start(s, IF op = "add" THEN "add_search" ELSE "remove_open",
                   [op |-> op, who |-> p, keys |-> 0, array |-> << >>])
       \/ Start(s, "load_fetch", [op |-> "load", rows |-> << >>])
    /\ UNCHANGED contacts

\* Each step below keeps these.
Steady == UNCHANGED <<version, asked, acts, alone>>

\* The call cannot open the database and throws.
Refused(s) ==
    /\ Answered /\ ~CanOpen
    /\ End(s) /\ whole' = FALSE

\* GET /search: the keys of the username, or not found.
AddSearch(s) ==
    /\ pc[s] = "add_search"
    /\ LET p == call[s].who
       IN  IF published[p] = 0 THEN End(s)
           ELSE Keep(s, "add_open", [call[s] EXCEPT !.keys = published[p]])
    /\ UNCHANGED <<contacts, whole>>

\* storeContact and deleteContact open a connection, getContacts another.
Open(s, from, to) ==
    /\ pc[s] = from
    /\ \/ Answered /\ CanOpen /\ Goto(s, to) /\ UNCHANGED whole
       \/ Refused(s)
    /\ UNCHANGED contacts
Read(s, from, to) ==
    /\ pc[s] = from
    /\ \/ Answered /\ CanOpen /\ UNCHANGED whole
          /\ Keep(s, to, [call[s] EXCEPT !.array = stored])
       \/ Refused(s)
    /\ UNCHANGED contacts

AddPutLast(s) ==                                      \* mutant
    /\ pc[s] = "add_put"
    /\ LET p == call[s].who
           k == call[s].keys
       IN  /\ stored' = [call[s].array EXCEPT ![p] = k]
           /\ shown' = [shown EXCEPT ![p] = k]
    /\ End(s)
    /\ UNCHANGED <<published, remote, whole>>
\* The array that was read is put back with the contact in it, or without;
\* then the page's list is updated.
AddPut(s) ==
    /\ pc[s] = "add_put"
    /\ LET p == call[s].who
           k == call[s].keys
       IN  /\ stored' = [call[s].array EXCEPT ![p] = k]
           /\ shown' = [shown EXCEPT ![p] = k]
    /\ Goto(s, "add_copy")
    /\ UNCHANGED <<published, remote, whole>>
RemovePut(s) ==
    /\ pc[s] = "remove_put"
    /\ stored' = [call[s].array EXCEPT ![call[s].who] = 0]
    /\ shown' = [shown EXCEPT ![call[s].who] = 0]
    /\ End(s)
    /\ UNCHANGED <<published, remote, whole>>

\* getContacts once more, for the copy in localStorage.
AddCopy(s) ==
    /\ pc[s] = "add_copy"
    /\ \/ Answered /\ CanOpen /\ Goto(s, "add_post") /\ UNCHANGED whole
       \/ Refused(s)
    /\ UNCHANGED contacts

AddPostOnce(s) ==                                     \* mutant
    /\ pc[s] = "add_post"
    /\ remote' = [remote EXCEPT ![call[s].who] = IF @ = 0 THEN call[s].keys ELSE @]
    /\ End(s)
    /\ UNCHANGED <<published, local, whole>>
\* POST /add: INSERT ... ON CONFLICT DO UPDATE.
AddPost(s) ==
    /\ pc[s] = "add_post"
    /\ remote' = [remote EXCEPT ![call[s].who] = call[s].keys]
    /\ End(s)
    /\ UNCHANGED <<published, local, whole>>

\* loadFromServer: GET /list, then the keys of what is stored are replaced in
\* the list the page shows.
LoadFetch(s) ==
    /\ pc[s] = "load_fetch"
    /\ Keep(s, "load_show", [call[s] EXCEPT !.rows = remote])
    /\ UNCHANGED <<contacts, whole>>
LoadShowAll(s) ==                                     \* mutant
    /\ pc[s] = "load_show"
    /\ \/ /\ Answered /\ CanOpen
          /\ shown' = call[s].rows
          /\ End(s) /\ UNCHANGED whole
       \/ Refused(s) /\ UNCHANGED shown
    /\ UNCHANGED <<published, stored, remote>>
LoadShow(s) ==
    /\ pc[s] = "load_show"
    /\ \/ /\ Answered /\ CanOpen
          /\ shown' = [p \in People |->
                 IF stored[p] # 0 /\ call[s].rows[p] # 0 THEN call[s].rows[p] ELSE stored[p]]
          /\ End(s) /\ UNCHANGED whole
       \/ Refused(s) /\ UNCHANGED shown
    /\ UNCHANGED <<published, stored, remote>>

ContactsStep(s) ==
    /\ \/ AddSearch(s)
       \/ Open(s, "add_open", "add_read") \/ Read(s, "add_read", "add_put")
       \/ AddPut(s) \/ AddCopy(s) \/ AddPost(s)
       \/ Open(s, "remove_open", "remove_read") \/ Read(s, "remove_read", "remove_put")
       \/ RemovePut(s)
       \/ LoadFetch(s) \/ LoadShow(s)
    /\ Steady

-----------------------------------------------------------------------------
(* Properties.                                                             *)

\* When calls have run one at a time and none was cut off, the page shows the
\* contacts that are stored, with the keys they are stored with: the list that
\* update() edits in memory and the array that storeContact, deleteContact and
\* loadFromServer read stay the same list.
ListIsStored ==
    "contacts" \in alone /\ whole /\ Quiet => shown = stored

\* However calls overlap, a stored contact has its row on the server when no call
\* has been cut off: addContact stores first and posts last, and no removal of
\* another call brings back a contact whose row is still to come.  (addContact
\* never looks at the status of its POST: one the server refuses is a call cut
\* off, and tells the page nothing.)
RemoteCovers ==
    whole /\ Quiet => \A p \in People : stored[p] # 0 => remote[p] # 0

\* In the first case nobody goes back to keys that a newer search has replaced,
\* in IndexedDB, on the page or on the server.
KeysForward ==
    []["contacts" \in alone' /\ whole' =>
          \A p \in People :
             /\ stored'[p] # 0 => stored'[p] >= stored[p]
             /\ shown'[p] # 0 => shown'[p] >= shown[p]
             /\ remote'[p] >= remote[p]]_contacts
=============================================================================
