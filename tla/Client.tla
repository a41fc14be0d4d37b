------------------------------- MODULE Client -------------------------------
(* The contacts and the channel messages of one page together: they share    *)
(* its calls in progress and the version of its database.                    *)
EXTENDS Contacts, ChannelView

vars == <<shared, contacts, channels>>

TypeOK ==
    /\ published \in Lists /\ stored \in Lists /\ shown \in Lists /\ remote \in Lists
    /\ Len(rows) <= MaxActs /\ gone \subseteq Senders \cup Chans
    /\ open \subseteq Chans /\ current \in Chans \cup {NoChan}
    /\ view \in Seq(Entry)
    /\ version \in {2, 3} /\ (asked => version = 2) /\ acts \in 0..MaxActs
    /\ \A s \in Slots : pc[s] = "idle" <=> call[s] = Idle

Init == PageInit /\ ContactsInit /\ ChannelsInit

\* A slot waits for the database: stores/servers.js opens version 3.
AskFor(s) == pc[s] \in {"poll_key", "send_key"} /\ Ask /\ UNCHANGED <<contacts, channels>>

Step(s) ==
    \/ ContactsStep(s) /\ UNCHANGED channels
    \/ ChannelsStep(s) /\ UNCHANGED contacts
    \/ AskFor(s)
\* What others do, and the account from elsewhere.
Others == Arrive \/ Access \/ DeleteAccount \/ DropServer

Next ==
    \/ \E s \in Slots :
          \/ Step(s)
          \/ StartContacts(s) /\ UNCHANGED channels
          \/ (StartPoll(s) \/ StartSend(s)) /\ UNCHANGED contacts
          \/ CutOff(s) /\ UNCHANGED <<contacts, channels>>
    \/ Upgrade /\ UNCHANGED <<contacts, channels>>
    \/ (Mount \/ \E p \in People : Register(p)) /\ UNCHANGED channels
    \/ (Others \/ SelectChannel \/ StopPolling) /\ UNCHANGED contacts

\* Requests are answered.  Nothing makes a browser collect connections, so an
\* upgrade need not happen.
Spec ==
    /\ Init /\ [][Next]_vars
    /\ \A s \in Slots : WF_vars(Step(s))

-----------------------------------------------------------------------------
\* Once a channel key has been looked up in a browser, neither its contacts nor
\* what its polls show change any more, whatever call was under way: what a call
\* read before the upgrade is not written after it.  (A POST /add that was left
\* to do may still be sent.)
UpgradeFreezes ==
    [][version = 3 =>
          /\ UNCHANGED local
          /\ view' \in {view, << >>} \cup {Append(view, Echo(c, n)) :
                                         c \in Chans, n \in DOMAIN rows}]_vars

\* A call that waits for the database, for its upgrade or behind it, gets on once
\* the upgrade has happened: every call of the page then ends.  (Until then
\* storeContact, which opens the database again while it holds a connection,
\* and the upgrade may wait for each other for ever.)
UpgradeReleases ==
    \A s \in Slots : version = 3 /\ pc[s] # "idle" ~> pc[s] = "idle"
=============================================================================
