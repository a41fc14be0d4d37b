-------------------------------- MODULE Login -------------------------------
(***************************************************************************)
(* One username: its row of users, its rows of challenges and sessions, and *)
(* the handlers of routes/auth.js that register it, sign it in, set up its *)
(* second factor, revoke its sessions and delete it.  A page is a browser  *)
(* tab; it awaits each of its calls, so it has one request in progress.    *)
(* Every SQL statement of a handler is one step.                           *)
(***************************************************************************)
EXTENDS Rows, FiniteSets, Functions

CONSTANTS
    None, Totp,     \* no value; the code the authenticator app shows
    Pages,
    Accounts,       \* ids users rows get, one for each registration
    Passwords,
    Challenges,     \* the random values of login/challenge
    Sessions,       \* ids sessions rows get
    Batches,        \* arrays of recovery codes the set-up page generates
    HasCreatedAt,   \* challenges has the column created_at verify sorts by
    Ops,            \* the calls of this instance
    FaultPoints     \* the statements that may fail, which ends the handler

Codes == UNION Batches
VerifySteps == {"find", "consume", "sweep", "user", "spend", "session"}
ChallengeSteps == {"lookup", "issue"}
AccountSteps == {"register", "auth", "setup", "revoke", "delete"}
Steps == VerifySteps \cup ChallengeSteps \cup AccountSteps

ASSUME LoginAssumption ==
    /\ None \notin Accounts \cup Passwords \cup Challenges \cup Sessions \cup Codes
    /\ Totp # None /\ Totp \notin Codes
    /\ HasCreatedAt \in BOOLEAN
    /\ \A b, c \in Batches : b # c => b \cap c = {}
    /\ Ops \subseteq {"register", "challenge", "verify", "setup", "revoke", "delete",
                    "logout"}
    /\ FaultPoints \subseteq Steps

VARIABLES
    account, password,   \* users: id, password_verifier
    twoFactor, codes,    \* users: totp_secret is set, recovery_codes_hash
    challenges,          \* challenges rows, oldest first
    stale,               \* challenges whose expires_at has passed
    sessions,            \* the user of each sessions row, None without a row
    held,                \* challengeData of each page
    token,               \* the session of each page's token
    pc, req,             \* next step of each page's request, its locals
    born, issued, opened, printed,   \* ids, challenges, sessions, batches used
    via,                 \* history: the challenge that opened each session
    spent                \* recovery codes that let a login through

user == <<account, password, twoFactor, codes>>
fresh == <<born, issued, opened, printed, via>>
vars == <<user, challenges, stale, sessions, held, token, pc, req, fresh, spent>>

NoRequest == [password |-> None, factor |-> None, row |-> None, user |-> None,
              left |-> {}, next |-> "idle", target |-> None]

Request == [password : Passwords \cup {None}, factor : Codes \cup {Totp, None},
            row : issued \cup {None}, user : born \cup {None}, left : SUBSET Codes,
            next : {"idle", "setup", "revoke", "delete"}, target : Sessions \cup {None}]

TypeOK ==
    /\ account \in born \cup {None} /\ password \in Passwords \cup {None}
    /\ account = None <=> password = None
    /\ twoFactor \in BOOLEAN /\ codes \subseteq Codes
    /\ challenges \in Seq(issued) /\ stale \subseteq issued /\ issued \subseteq Challenges
    /\ sessions \in [Sessions -> born \cup {None}] /\ born \subseteq Accounts
    /\ held \in [Pages -> issued \cup {None}]
    /\ token \in [Pages -> opened \cup {None}] /\ opened \subseteq Sessions
    /\ pc \in [Pages -> Steps \cup {"idle"}]
    /\ req \in [Pages -> Request]
    /\ via \in [Sessions -> issued \cup {None}]
    /\ printed \subseteq Batches /\ spent \subseteq UNION printed

Init ==
    /\ account = None /\ password = None /\ twoFactor = FALSE /\ codes = {}
    /\ challenges = <<>> /\ stale = {}
    /\ sessions = [s \in Sessions |-> None]
    /\ held = [p \in Pages |-> None] /\ token = [p \in Pages |-> None]
    /\ pc = [p \in Pages |-> "idle"] /\ req = [p \in Pages |-> NoRequest]
    /\ born = {} /\ issued = {} /\ opened = {} /\ printed = {} /\ spent = {}
    /\ via = [s \in Sessions |-> None]

\* Page p goes on with step s and the locals r; a handler that replies is done.
Go(p, s, r) == pc' = [pc EXCEPT ![p] = s] /\ req' = [req EXCEPT ![p] = r]
Reply(p) == Go(p, "idle", NoRequest)
Tables == <<user, challenges, stale, sessions, fresh, spent>>

In(S) == Cardinality({p \in Pages : pc[p] \in S})

-----------------------------------------------------------------------------
(* The pages start a call.  Ids and random values are fresh: a call starts *)
(* only while there are enough of them left.                               *)

Begin(p, op, s, r) ==
    /\ op \in Ops /\ pc[p] = "idle"
    /\ Go(p, s, r)
    /\ UNCHANGED <<Tables, held, token>>

SessionLeft ==
    Cardinality(opened) + In(VerifySteps \cup {"register"}) < Cardinality(Sessions)

StartRegisterEmpty(p) ==                              \* mutant
    /\ born # Accounts /\ SessionLeft
    /\ \E w \in Passwords \cup {None} :
          Begin(p, "register", "register", [NoRequest EXCEPT !.password = w])
StartRegister(p) ==
    /\ born # Accounts /\ SessionLeft
    /\ \E w \in Passwords :
          Begin(p, "register", "register", [NoRequest EXCEPT !.password = w])

StartChallenge(p) ==
    /\ Cardinality(issued) + In(ChallengeSteps) < Cardinality(Challenges)
    /\ Begin(p, "challenge", "lookup", NoRequest)

\* The response is computed from the password typed and the challenge held.
StartVerify(p) ==
    /\ held[p] # None /\ SessionLeft
    /\ \E w \in Passwords, f \in (UNION printed) \cup {Totp, None} :
          Begin(p, "verify", "find", [NoRequest EXCEPT !.password = w, !.factor = f])

StartAuthenticated(p) ==
    /\ token[p] # None
    /\ \E op \in {"setup", "revoke", "delete"}, t \in opened :
          /\ op = "revoke" \/ t = token[p]
          /\ Begin(p, op, "auth", [NoRequest EXCEPT !.next = op, !.target = t])

-----------------------------------------------------------------------------
(* POST /register                                                          *)

RegisterUser(p) ==
    /\ pc[p] = "register"
    /\ \/ /\ account = None
          /\ \E a \in Accounts \ born :
                /\ account' = a /\ born' = born \cup {a}
                /\ Go(p, "session", [req[p] EXCEPT !.user = a])
          /\ password' = req[p].password /\ twoFactor' = FALSE /\ codes' = {}
          /\ UNCHANGED <<issued, opened, printed, via>>
       \/ /\ account # None \/ born = Accounts
          /\ Reply(p) /\ UNCHANGED <<user, fresh>>
    /\ UNCHANGED <<challenges, stale, sessions, held, token, spent>>

\* INSERT INTO sessions, for register and verify: the account must still be
\* there.  The page keeps the token of the reply.
OrphanSession(p) ==                                   \* mutant
    /\ pc[p] = "session"
    /\ \E s \in Sessions \ opened :
          /\ sessions' = [sessions EXCEPT ![s] = req[p].user]
          /\ opened' = opened \cup {s} /\ token' = [token EXCEPT ![p] = s]
          /\ via' = [via EXCEPT ![s] = req[p].row]
    /\ Reply(p)
    /\ UNCHANGED <<user, challenges, stale, held, born, issued, printed, spent>>
OpenSession(p) ==
    /\ pc[p] = "session"
    /\ \/ /\ req[p].user = account
          /\ \E s \in Sessions \ opened :
                /\ sessions' = [sessions EXCEPT ![s] = account]
                /\ opened' = opened \cup {s}
                /\ via' = [via EXCEPT ![s] = req[p].row]
                /\ token' = [token EXCEPT ![p] = s]
       \/ req[p].user # account /\ UNCHANGED <<sessions, opened, via, token>>
    /\ Reply(p)
    /\ UNCHANGED <<user, challenges, stale, held, born, issued, printed, spent>>

-----------------------------------------------------------------------------
(* POST /login/challenge                                                   *)

LookupUser(p) ==
    /\ pc[p] = "lookup"
    /\ \/ account # None /\ Go(p, "issue", NoRequest)
       \/ account = None /\ Reply(p)
    /\ UNCHANGED <<Tables, held, token>>

IssueChallenge(p) ==
    /\ pc[p] = "issue"
    /\ \E c \in Challenges \ issued :
          /\ challenges' = Append(challenges, c)
          /\ issued' = issued \cup {c}
          /\ held' = [held EXCEPT ![p] = c]
    /\ Reply(p)
    /\ UNCHANGED <<user, stale, sessions, token, born, opened, printed, via, spent>>

\* expires_at passes; challenges get it in the order of their INSERT.
GrowStale ==
    /\ \E i \in DOMAIN challenges :
          /\ challenges[i] \notin stale
          /\ \A j \in 1..(i - 1) : challenges[j] \in stale
          /\ stale' = stale \cup {challenges[i]}
    /\ UNCHANGED <<user, challenges, sessions, held, token, pc, req, fresh, spent>>

-----------------------------------------------------------------------------
(* POST /login/verify                                                      *)

Live == Without(challenges, stale)

FindOldest(p) ==                                      \* mutant
    /\ pc[p] = "find"
    /\ \/ /\ HasCreatedAt /\ Live # <<>>
          /\ Go(p, "consume", [req[p] EXCEPT !.row = Head(Live)])
       \/ ~(HasCreatedAt /\ Live # <<>>) /\ Reply(p)
    /\ UNCHANGED <<Tables, held, token>>
\* The newest challenge of the username, whichever page it was issued to.
\* Without the column the statement throws.
FindChallenge(p) ==
    /\ pc[p] = "find"
    /\ \/ /\ HasCreatedAt /\ Live # <<>>
          /\ Go(p, "consume", [req[p] EXCEPT !.row = Live[Len(Live)]])
       \/ ~(HasCreatedAt /\ Live # <<>>) /\ Reply(p)
    /\ UNCHANGED <<Tables, held, token>>

ConsumeLater(p) ==                                    \* mutant
    /\ pc[p] = "consume"
    /\ Go(p, "sweep", req[p])
    /\ UNCHANGED <<user, challenges, stale, sessions, held, token, fresh, spent>>
\* DELETE ... WHERE id: the number of rows deleted is not looked at.
ConsumeChallenge(p) ==
    /\ pc[p] = "consume"
    /\ challenges' = Without(challenges, {req[p].row})
    /\ Go(p, "sweep", req[p])
    /\ UNCHANGED <<user, stale, sessions, held, token, fresh, spent>>

SweepChallenges(p) ==
    /\ pc[p] = "sweep"
    /\ challenges' = Live
    /\ Go(p, "user", req[p])
    /\ UNCHANGED <<user, stale, sessions, held, token, fresh, spent>>

\* The HMAC over the row, with the verifier of the account that is there now.
Answers(p) ==
    account # None /\ req[p].password = password /\ held[p] = req[p].row

\* SELECT of the user, then the checks of the response and the second factor;
\* the recovery codes read here are written back by the next statement.
NoFactorCheck(p) ==                                   \* mutant
    /\ pc[p] = "user"
    /\ LET r == [req[p] EXCEPT !.user = account, !.left = codes \ {req[p].factor}] IN
       \/ Answers(p) /\ Go(p, "session", r)
       \/ ~Answers(p) /\ Reply(p)
    /\ UNCHANGED <<Tables, held, token>>
CheckAnswer(p) ==
    /\ pc[p] = "user"
    /\ LET r == [req[p] EXCEPT !.user = account, !.left = codes \ {req[p].factor}] IN
       \/ ~Answers(p) /\ Reply(p)
       \/ Answers(p) /\ (~twoFactor \/ r.factor = Totp) /\ Go(p, "session", r)
       \/ Answers(p) /\ twoFactor /\ r.factor \in codes /\ Go(p, "spend", r)
       \/ Answers(p) /\ twoFactor /\ r.factor \notin codes \cup {Totp} /\ Reply(p)
    /\ UNCHANGED <<Tables, held, token>>

KeepCode(p) ==                                        \* mutant
    /\ pc[p] = "spend"
    /\ spent' = spent \cup {req[p].factor}
    /\ Go(p, "session", req[p])
    /\ UNCHANGED <<user, challenges, stale, sessions, held, token, fresh>>
SpendCode(p) ==
    /\ pc[p] = "spend"
    /\ codes' = IF req[p].user = account THEN req[p].left ELSE codes
    /\ spent' = spent \cup {req[p].factor}
    /\ Go(p, "session", req[p])
    /\ UNCHANGED <<account, password, twoFactor, challenges, stale, sessions,
                   held, token, fresh>>

-----------------------------------------------------------------------------
(* The calls that carry a token: authenticate, then one statement.         *)

Authenticate(p) ==
    /\ pc[p] = "auth"
    /\ \/ /\ sessions[token[p]] # None
          /\ Go(p, req[p].next, [req[p] EXCEPT !.user = sessions[token[p]]])
       \/ sessions[token[p]] = None /\ Reply(p)
    /\ UNCHANGED <<Tables, held, token>>

SetUpTotp(p) ==
    /\ pc[p] = "setup"
    /\ \/ /\ req[p].user = account
          /\ \E b \in Batches \ printed :
                codes' = b /\ printed' = printed \cup {b}
          /\ twoFactor' = TRUE
          /\ UNCHANGED <<account, password, born, issued, opened, via>>
       \/ /\ req[p].user # account \/ printed = Batches
          /\ UNCHANGED <<user, fresh>>
    /\ Reply(p)
    /\ UNCHANGED <<challenges, stale, sessions, held, token, spent>>

RevokeSession(p) ==
    /\ pc[p] = "revoke"
    /\ sessions' = [sessions EXCEPT ![req[p].target] =
                        IF @ = req[p].user THEN None ELSE @]
    /\ Reply(p)
    /\ UNCHANGED <<user, challenges, stale, held, token, fresh, spent>>

\* ON DELETE CASCADE takes the sessions; challenges have no foreign key.
DeleteAccount(p) ==
    /\ pc[p] = "delete"
    /\ \/ /\ req[p].user = account
          /\ account' = None /\ password' = None /\ twoFactor' = FALSE /\ codes' = {}
          /\ sessions' = [s \in Sessions |-> None]
       \/ req[p].user # account /\ UNCHANGED <<user, sessions>>
    /\ Reply(p)
    /\ UNCHANGED <<challenges, stale, held, token, fresh, spent>>

\* logout of settings/keys forgets the token; its session row stays.
Logout(p) ==
    /\ "logout" \in Ops /\ pc[p] = "idle" /\ token[p] # None
    /\ token' = [token EXCEPT ![p] = None]
    /\ UNCHANGED <<Tables, held, pc, req>>

\* pool.query throws: 500, and the statements after it never run.
Fault(p) == pc[p] \in FaultPoints /\ Reply(p) /\ UNCHANGED <<Tables, held, token>>

-----------------------------------------------------------------------------
Start(p) ==
    \/ StartRegister(p) \/ StartChallenge(p) \/ StartVerify(p)
    \/ StartAuthenticated(p)

Step(p) ==
    \/ RegisterUser(p) \/ OpenSession(p) \/ LookupUser(p) \/ IssueChallenge(p)
    \/ FindChallenge(p) \/ ConsumeChallenge(p) \/ SweepChallenges(p)
    \/ CheckAnswer(p) \/ SpendCode(p) \/ Authenticate(p)
    \/ SetUpTotp(p) \/ RevokeSession(p) \/ DeleteAccount(p)

Next == GrowStale \/ \E p \in Pages : Start(p) \/ Step(p) \/ Logout(p) \/ Fault(p)

Spec == Init /\ [][Next]_vars

\* An awaited statement returns.
FairSpec == Spec /\ \A p \in Pages : WF_vars(Step(p))

-----------------------------------------------------------------------------
(* Properties.                                                             *)

\* No session outlives its account, even when the account is deleted, and the
\* username registered again, while a login is between its statements.
SessionsOfAccount == \A s \in Sessions : sessions[s] \in {account, None}

\* README.md:162, "Challenges are single-use": no two sessions are opened with
\* one challenge, although a page keeps its challenge and may answer it again
\* while another attempt is between finding a row and deleting it.
SingleUse ==
    \A s, t \in opened : via[s] = via[t] /\ via[s] # None => s = t

\* A recovery code lets one login through: what was accepted is no longer
\* stored (one page at a time: verify writes back the array it read before).
CodesAreSpent ==
    (\A p \in Pages : pc[p] = "idle") => spent \cap codes = {}

\* While the second factor is on, verify opens a session only for a login
\* that showed it (one page at a time: verify reads the user row once).
SecondFactorShown ==
    [][\A p \in Pages :
          pc[p] = "session" /\ twoFactor /\ opened' # opened =>
              req[p].factor = Totp \/ req[p].factor \in spent]_vars

\* README.md:42, "On success, server returns the encrypted key backup blob": the
\* right answer to a stored challenge gets the page a new token, unless the
\* challenge expires first (one page at a time: verify takes the newest
\* challenge of the username, which may be that of another page).
Right(p) ==
    /\ pc[p] = "find" /\ held[p] \in Range(challenges) /\ held[p] \notin stale
    /\ req[p].password = password
    /\ twoFactor => req[p].factor \in codes \cup {Totp}
RightAnswerGetsIn ==
    \A p \in Pages, t \in Sessions \cup {None} :
        Right(p) /\ token[p] = t ~> token[p] # t \/ held[p] \in stale
=============================================================================
