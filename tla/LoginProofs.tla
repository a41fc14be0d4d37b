----------------------------- MODULE LoginProofs ----------------------------
(* What holds of Login for all values of its constants.                     *)
EXTENDS Login, RowsProofs

(* SessionsOfAccount is inductive once sessions is known to be a function:  *)
(* a username without an account has no sessions, so the next registration *)
(* starts from none, and the foreign key keeps a login that read an earlier *)
(* account from adding one.                                                 *)
SessionInv ==
    /\ sessions \in [Sessions -> Accounts \cup {None}]
    /\ account \in Accounts \cup {None}
    /\ SessionsOfAccount

\* SessionInv holds at first.
LEMMA SessionInvInit == Init => SessionInv
  BY DEF Init, SessionInv, SessionsOfAccount

\* A step that leaves the sessions and the account alone keeps SessionInv.
LEMMA SessionInvKept ==
    SessionInv /\ UNCHANGED <<sessions, account>> => SessionInv'
  BY DEF SessionInv, SessionsOfAccount

\* Every step keeps SessionInv.
LEMMA SessionInvNext == SessionInv /\ [Next]_vars => SessionInv'
<1> SUFFICES ASSUME SessionInv, [Next]_vars PROVE SessionInv'
  OBVIOUS
<1> USE SessionInvKept
<1>1. CASE GrowStale
  BY <1>1 DEF GrowStale, user
<1>2. ASSUME NEW p \in Pages, Start(p) PROVE SessionInv'
  BY <1>2 DEF Start, StartRegister, StartChallenge, StartVerify,
              StartAuthenticated, Begin, Tables, user
<1>3. ASSUME NEW p \in Pages, Step(p) PROVE SessionInv'
  <2>1. CASE RegisterUser(p)
    <3>1. CASE UNCHANGED account
      BY <2>1, <3>1 DEF RegisterUser
    <3>2. CASE ~UNCHANGED account
      <4>1. account = None /\ UNCHANGED sessions /\ account' \in Accounts
        BY <2>1, <3>2 DEF RegisterUser, user
      <4>2. QED
        BY <4>1 DEF SessionInv, SessionsOfAccount
    <3>3. QED
      BY <3>1, <3>2
  <2>2. CASE OpenSession(p)
    <3>1. /\ UNCHANGED account
          /\ \/ UNCHANGED sessions
             \/ \E s \in Sessions : sessions' = [sessions EXCEPT ![s] = account]
      BY <2>2 DEF OpenSession, user
    <3>2. QED
      BY <3>1 DEF SessionInv, SessionsOfAccount
  <2>3. CASE RevokeSession(p)
    <3>1. \A s \in Sessions : sessions'[s] \in {sessions[s], None}
      BY <2>3 DEF RevokeSession, SessionInv
    <3>2. sessions' \in [Sessions -> Accounts \cup {None}] /\ UNCHANGED account
      BY <2>3 DEF RevokeSession, SessionInv, user
    <3>3. QED
      BY <3>1, <3>2 DEF SessionInv, SessionsOfAccount
  <2>4. CASE DeleteAccount(p)
    BY <2>4 DEF DeleteAccount, user, SessionInv, SessionsOfAccount
  <2>5. CASE LookupUser(p) \/ FindChallenge(p) \/ CheckAnswer(p) \/ Authenticate(p)
    BY <2>5 DEF LookupUser, FindChallenge, CheckAnswer, Authenticate, Tables, user
  <2>6. CASE IssueChallenge(p) \/ ConsumeChallenge(p) \/ SweepChallenges(p)
    BY <2>6 DEF IssueChallenge, ConsumeChallenge, SweepChallenges, user
  <2>7. CASE SpendCode(p) \/ SetUpTotp(p)
    BY <2>7 DEF SpendCode, SetUpTotp, user
  <2>8. QED
    BY <1>3, <2>1, <2>2, <2>3, <2>4, <2>5, <2>6, <2>7 DEF Step
<1>4. ASSUME NEW p \in Pages, Logout(p) \/ Fault(p) PROVE SessionInv'
  BY <1>4 DEF Logout, Fault, Tables, user
<1>5. CASE UNCHANGED vars
  BY <1>5 DEF vars, user
<1>6. QED
  BY <1>1, <1>2, <1>3, <1>4, <1>5 DEF Next

\* A session never belongs to an account that has been deleted, however the
\* statements of logins, registrations and deletions interleave or fail.
THEOREM SessionsHaveAccounts == Spec => []SessionsOfAccount
<1>1. SessionInv => SessionsOfAccount
  BY DEF SessionInv
<1>2. QED
  BY <1>1, SessionInvInit, SessionInvNext, PTL DEF Spec

-----------------------------------------------------------------------------
(* TypeOK is not inductive by itself: what a statement writes comes from    *)
(* the locals of its page, which the call's earlier statements have set.    *)
Local(p) ==
    /\ pc[p] = "register" => req[p].password # None /\ req[p].row = None
    /\ pc[p] = "auth" => token[p] # None
    /\ pc[p] = "spend" => req[p].factor \in UNION printed /\ req[p].left \subseteq UNION printed

LoginInv ==
    /\ TypeOK
    /\ codes \subseteq UNION printed
    /\ \A p \in Pages : Local(p)

\* A step that puts page p at s with the locals r types pc and req.
LEMMA GoTypes ==
    ASSUME LoginInv, NEW p \in Pages, NEW s \in Steps \cup {"idle"},
           NEW r, r \in Request', Go(p, s, r), issued \subseteq issued', born \subseteq born'
    PROVE  pc' \in [Pages -> Steps \cup {"idle"}] /\ req' \in [Pages -> Request']
<1>1. Request \subseteq Request'
  BY DEF Request
<1>2. pc \in [Pages -> Steps \cup {"idle"}] /\ req \in [Pages -> Request']
  BY <1>1 DEF LoginInv, TypeOK
<1>3. QED
  BY <1>2 DEF Go

\* The other pages stay as they are; printed only grows.
LEMMA GoLocals ==
    ASSUME LoginInv, NEW p \in Pages, NEW s, NEW r, Go(p, s, r),
           printed \subseteq printed', \A q \in Pages \ {p} : token'[q] = token[q],
           Local(p)'
    PROVE  \A q \in Pages : Local(q)'
<1> SUFFICES ASSUME NEW q \in Pages, q # p PROVE Local(q)'
  OBVIOUS
<1>1. pc'[q] = pc[q] /\ req'[q] = req[q] /\ token'[q] = token[q]
  BY DEF LoginInv, TypeOK, Go
<1>2. UNION printed \subseteq UNION printed'
  OBVIOUS
<1>3. Local(q)
  BY DEF LoginInv
<1>4. QED
  BY <1>1, <1>2, <1>3 DEF Local

\* What Go leaves at the page it moves.
LEMMA GoAt ==
    ASSUME LoginInv, NEW p \in Pages, NEW s, NEW r, Go(p, s, r)
    PROVE  pc'[p] = s /\ req'[p] = r
  BY DEF LoginInv, TypeOK, Go

\* The locals of a page that has none, and of one that goes on.
LEMMA RequestTypes ==
    ASSUME LoginInv
    PROVE  NoRequest \in Request /\ \A p \in Pages : req[p] \in Request
  BY DEF LoginInv, TypeOK, Request, NoRequest

\* A step that moves page p and writes no table.
LEMMA GoKeeps ==
    ASSUME LoginInv, NEW p \in Pages, NEW s \in Steps \cup {"idle"}, NEW r, r \in Request,
           Go(p, s, r), UNCHANGED <<Tables, held, token>>, Local(p)'
    PROVE  LoginInv'
<1> USE DEF Tables, user, fresh
<1>1. r \in Request' /\ issued \subseteq issued' /\ born \subseteq born'
  BY DEF Request
<1>2. pc' \in [Pages -> Steps \cup {"idle"}] /\ req' \in [Pages -> Request']
  BY <1>1, GoTypes
<1>3. \A q \in Pages : Local(q)'
  BY GoLocals
<1>4. TypeOK'
  BY <1>2 DEF LoginInv, TypeOK
<1>5. QED
  BY <1>3, <1>4 DEF LoginInv

\* The handler replies, or the call ends.
LEMMA ReplyLocal == ASSUME LoginInv, NEW p \in Pages, Reply(p) PROVE Local(p)'
<1>1. pc'[p] = "idle"
  BY GoAt DEF Reply
<1>2. QED
  BY <1>1 DEF Local

\* The recovery codes printed so far are codes.
LEMMA PrintedCodes == ASSUME LoginInv PROVE UNION printed \subseteq Codes
<1>1. printed \subseteq Batches
  BY DEF LoginInv, TypeOK
<1>2. QED
  BY <1>1 DEF Codes

\* The calls start with locals of their type.
LEMMA StartTypes == ASSUME LoginInv, NEW p \in Pages, Start(p) PROVE LoginInv'
<1> USE RequestTypes DEF Begin
<1>1. CASE StartRegister(p)
  <2>1. PICK w \in Passwords : Go(p, "register", [NoRequest EXCEPT !.password = w])
    BY <1>1 DEF StartRegister
  <2> DEFINE r == [NoRequest EXCEPT !.password = w]
  <2>2. r \in Request /\ r.password # None /\ r.row = None
    BY LoginAssumption DEF Request, NoRequest
  <2>3. pc'[p] = "register" /\ req'[p] = r
    BY <2>1, GoAt
  <2>4. Local(p)'
    BY <2>2, <2>3 DEF Local
  <2>5. QED
    BY <1>1, <2>1, <2>2, <2>4, GoKeeps DEF StartRegister, Steps, AccountSteps
<1>2. CASE StartChallenge(p)
  <2>1. Go(p, "lookup", NoRequest) /\ UNCHANGED <<Tables, held, token>>
    BY <1>2 DEF StartChallenge
  <2>2. Local(p)'
    BY <2>1, GoAt DEF Local
  <2>3. QED
    BY <2>1, <2>2, GoKeeps DEF Steps, ChallengeSteps
<1>3. CASE StartVerify(p)
  <2>1. PICK w \in Passwords, f \in (UNION printed) \cup {Totp, None} :
           Go(p, "find", [NoRequest EXCEPT !.password = w, !.factor = f])
    BY <1>3 DEF StartVerify
  <2>2. [NoRequest EXCEPT !.password = w, !.factor = f] \in Request
    <3>1. UNION printed \subseteq Codes
      BY PrintedCodes
    <3>2. f \in Codes \cup {Totp, None}
      BY <3>1
    <3>3. QED
      BY <3>2 DEF Request, NoRequest
  <2>3. Local(p)'
    BY <2>1, GoAt DEF Local
  <2>4. QED
    BY <1>3, <2>1, <2>2, <2>3, GoKeeps DEF StartVerify, Steps, VerifySteps
<1>4. CASE StartAuthenticated(p)
  <2>1. PICK op \in {"setup", "revoke", "delete"}, t \in opened :
           Go(p, "auth", [NoRequest EXCEPT !.next = op, !.target = t])
    BY <1>4 DEF StartAuthenticated
  <2>2. [NoRequest EXCEPT !.next = op, !.target = t] \in Request
    BY DEF Request, NoRequest, LoginInv, TypeOK
  <2>3. Local(p)'
    BY <1>4, <2>1, GoAt DEF Local, StartAuthenticated
  <2>4. QED
    BY <1>4, <2>1, <2>2, <2>3, GoKeeps DEF StartAuthenticated, Steps, AccountSteps
<1>5. QED
  BY <1>1, <1>2, <1>3, <1>4 DEF Start

\* The steps of handlers that only read, then go on or reply.
LEMMA ReadTypes ==
    ASSUME LoginInv, NEW p \in Pages,
           LookupUser(p) \/ FindChallenge(p) \/ CheckAnswer(p) \/ Authenticate(p) \/ Fault(p)
    PROVE  LoginInv'
<1>1. UNCHANGED <<Tables, held, token>>
  BY DEF LookupUser, FindChallenge, CheckAnswer, Authenticate, Fault
<1>2. CASE Reply(p)
  BY <1>1, <1>2, ReplyLocal, RequestTypes, GoKeeps DEF Reply
<1>3. CASE LookupUser(p) /\ ~Reply(p)
  <2>1. Go(p, "issue", NoRequest)
    BY <1>3 DEF LookupUser
  <2>2. pc'[p] = "issue"
    BY <2>1, GoAt
  <2>3. Local(p)'
    BY <2>2 DEF Local
  <2>4. QED
    BY <1>1, <2>1, <2>3, RequestTypes, GoKeeps DEF Steps, ChallengeSteps
<1>4. CASE FindChallenge(p) /\ ~Reply(p)
  <2> DEFINE r == [req[p] EXCEPT !.row = Live[Len(Live)]]
  <2>1. Live # << >> /\ Go(p, "consume", r)
    BY <1>4 DEF FindChallenge
  <2>2. Live \in Seq(issued)
    BY WithoutPicks DEF Live, LoginInv, TypeOK
  <2>3. Live[Len(Live)] \in issued
    BY <2>1, <2>2
  <2>4. r \in Request
    BY <2>3, RequestTypes DEF Request
  <2>5. pc'[p] = "consume"
    BY <2>1, GoAt
  <2>6. Local(p)'
    BY <2>5 DEF Local
  <2>7. QED
    BY <1>1, <2>1, <2>4, <2>6, GoKeeps DEF Steps, VerifySteps
<1>5. CASE CheckAnswer(p) /\ ~Reply(p)
  <2> DEFINE r == [req[p] EXCEPT !.user = account, !.left = codes \ {req[p].factor}]
  <2>1. \/ Go(p, "session", r)
        \/ r.factor \in codes /\ Go(p, "spend", r)
    BY <1>5 DEF CheckAnswer
  <2>2. r \in Request /\ r.factor = req[p].factor /\ r.left = codes \ {r.factor}
    BY RequestTypes DEF Request, LoginInv, TypeOK
  <2>3. CASE Go(p, "session", r)
    <3>1. pc'[p] = "session"
      BY <2>3, GoAt
    <3>2. Local(p)'
      BY <3>1 DEF Local
    <3>3. QED
      BY <1>1, <2>2, <2>3, <3>2, GoKeeps DEF Steps, VerifySteps
  <2>4. CASE r.factor \in codes /\ Go(p, "spend", r)
    <3>1. pc'[p] = "spend" /\ req'[p] = r
      BY <2>4, GoAt
    <3>2. r.factor \in UNION printed' /\ r.left \subseteq UNION printed'
      BY <1>1, <2>2, <2>4 DEF LoginInv, Tables, fresh
    <3>3. Local(p)'
      BY <3>1, <3>2 DEF Local
    <3>4. QED
      BY <1>1, <2>2, <2>4, <3>3, GoKeeps DEF Steps, VerifySteps
  <2>5. QED
    BY <2>1, <2>3, <2>4
<1>6. CASE Authenticate(p) /\ ~Reply(p)
  <2> DEFINE r == [req[p] EXCEPT !.user = sessions[token[p]]]
  <2>1. pc[p] = "auth" /\ Go(p, req[p].next, r)
    BY <1>6 DEF Authenticate
  <2>2. token[p] \in Sessions
    BY <2>1 DEF LoginInv, TypeOK, Local
  <2>3. r \in Request /\ req[p].next \in {"idle", "setup", "revoke", "delete"}
    BY <2>2, RequestTypes DEF Request, LoginInv, TypeOK
  <2>4. Local(p)'
    BY <2>1, <2>3, GoAt DEF Local
  <2>5. QED
    BY <1>1, <2>1, <2>3, <2>4, GoKeeps DEF Steps, AccountSteps
<1>7. QED
  BY <1>2, <1>3, <1>4, <1>5, <1>6 DEF Fault

\* The handlers that write the users row.
LEMMA UserTypes ==
    ASSUME LoginInv, NEW p \in Pages,
           RegisterUser(p) \/ SpendCode(p) \/ SetUpTotp(p) \/ DeleteAccount(p)
    PROVE  LoginInv'<1>1. CASE RegisterUser(p)
  <2>1. pc[p] = "register" /\ UNCHANGED <<challenges, stale, sessions, held, token, spent>>
    BY <1>1 DEF RegisterUser
  <2>2. CASE Reply(p) /\ UNCHANGED <<user, fresh>>
    BY <2>1, <2>2, ReplyLocal, RequestTypes, GoKeeps DEF Reply, Tables
  <2>3. ASSUME NEW a \in Accounts \ born,
               account' = a, born' = born \cup {a},
               Go(p, "session", [req[p] EXCEPT !.user = a]),
               password' = req[p].password, twoFactor' = FALSE, codes' = {},
               UNCHANGED <<issued, opened, printed, via>>
        PROVE  LoginInv'
    <3> DEFINE r == [req[p] EXCEPT !.user = a]
    <3>1. r \in Request'
      BY <2>3, RequestTypes DEF Request
    <3>2. pc' \in [Pages -> Steps \cup {"idle"}] /\ req' \in [Pages -> Request']
      BY <2>3, <3>1, GoTypes DEF Steps, VerifySteps
    <3>3. pc'[p] = "session"
      BY <2>3, GoAt
    <3>4. Local(p)'
      BY <3>3 DEF Local
    <3>5. \A q \in Pages : Local(q)'
      BY <2>1, <2>3, <3>4, GoLocals
    <3>6. password' \in Passwords
      BY <2>1, <2>3, RequestTypes DEF LoginInv, Local, Request
    <3>7. account' # None /\ password' # None
      BY <2>3, <3>6, LoginAssumption
    <3>8. TypeOK'
      BY <2>1, <2>3, <3>2, <3>6, <3>7 DEF LoginInv, TypeOK
    <3>9. QED
      BY <2>3, <3>5, <3>8 DEF LoginInv
  <2>4. QED
    BY <1>1, <2>2, <2>3 DEF RegisterUser
<1>2. CASE SpendCode(p)
  <2>1. /\ pc[p] = "spend" /\ codes' \in {req[p].left, codes}
        /\ spent' = spent \cup {req[p].factor} /\ Go(p, "session", req[p])
        /\ UNCHANGED <<account, password, twoFactor, challenges, stale, sessions,
                       held, token, fresh>>
    BY <1>2 DEF SpendCode
  <2>2. req[p].factor \in UNION printed /\ req[p].left \subseteq UNION printed
    BY <2>1 DEF LoginInv, Local
  <2>3. codes' \subseteq UNION printed' /\ spent' \subseteq UNION printed'
    BY <2>1, <2>2 DEF LoginInv, TypeOK, fresh
  <2>4. codes' \subseteq Codes
    BY <2>1, <2>3, PrintedCodes DEF fresh
  <2>5. req[p] \in Request'
    BY <2>1, RequestTypes DEF Request, fresh
  <2>6. pc' \in [Pages -> Steps \cup {"idle"}] /\ req' \in [Pages -> Request']
    BY <2>1, <2>5, GoTypes DEF Steps, VerifySteps, fresh
  <2>7. pc'[p] = "session"
    BY <2>1, GoAt
  <2>8. \A q \in Pages : Local(q)'
    <3>1. Local(p)'
      BY <2>7 DEF Local
    <3>2. QED
      BY <2>1, <3>1, GoLocals DEF fresh
  <2>9. TypeOK'
    BY <2>1, <2>3, <2>4, <2>6 DEF LoginInv, TypeOK, fresh
  <2>10. QED
    BY <2>3, <2>8, <2>9 DEF LoginInv
<1>3. CASE SetUpTotp(p)
  <2>1. Reply(p) /\ UNCHANGED <<challenges, stale, sessions, held, token, spent>>
    BY <1>3 DEF SetUpTotp
  <2>2. CASE UNCHANGED <<user, fresh>>
    BY <2>1, <2>2, ReplyLocal, RequestTypes, GoKeeps DEF Reply, Tables
  <2>3. ASSUME NEW b \in Batches, codes' = b, printed' = printed \cup {b}, twoFactor' = TRUE,
               UNCHANGED <<account, password, born, issued, opened, via>>
        PROVE  LoginInv'
    <3>1. NoRequest \in Request'
      BY <2>3, RequestTypes DEF Request
    <3>2. pc' \in [Pages -> Steps \cup {"idle"}] /\ req' \in [Pages -> Request']
      BY <2>1, <2>3, <3>1, GoTypes DEF Reply
    <3>3. \A q \in Pages : Local(q)'
      BY <2>1, <2>3, ReplyLocal, GoLocals DEF Reply
    <3>4. codes' \subseteq UNION printed' /\ UNION printed \subseteq UNION printed'
      BY <2>3
    <3>5. codes' \subseteq Codes /\ printed' \subseteq Batches
      BY <2>3 DEF LoginInv, TypeOK, Codes
    <3>6. spent' \subseteq UNION printed'
      BY <2>1, <3>4 DEF LoginInv, TypeOK
    <3>7. TypeOK'
      BY <2>1, <2>3, <3>2, <3>5, <3>6 DEF LoginInv, TypeOK
    <3>8. QED
      BY <3>3, <3>4, <3>7 DEF LoginInv
  <2>4. QED
    BY <1>3, <2>2, <2>3 DEF SetUpTotp
<1>4. CASE DeleteAccount(p)
  <2>1. Reply(p) /\ UNCHANGED <<challenges, stale, held, token, fresh, spent>>
    BY <1>4 DEF DeleteAccount
  <2>2. NoRequest \in Request'
    BY <2>1, RequestTypes DEF Request, fresh
  <2>3. pc' \in [Pages -> Steps \cup {"idle"}] /\ req' \in [Pages -> Request']
    BY <2>1, <2>2, GoTypes DEF Reply, fresh
  <2>4. \A q \in Pages : Local(q)'
    BY <2>1, ReplyLocal, GoLocals DEF Reply, fresh
  <2>5. \/ UNCHANGED <<user, sessions>>
        \/ /\ account' = None /\ password' = None /\ twoFactor' = FALSE /\ codes' = {}
           /\ sessions' = [s \in Sessions |-> None]
    BY <1>4 DEF DeleteAccount
  <2>6. TypeOK' /\ codes' \subseteq UNION printed'
    BY <2>1, <2>3, <2>5 DEF LoginInv, TypeOK, user, fresh
  <2>7. QED
    BY <2>4, <2>6 DEF LoginInv
<1>5. QED
  BY <1>1, <1>2, <1>3, <1>4

\* The handlers that write challenges and sessions, and the rest of Next.
LEMMA RowTypes ==
    ASSUME LoginInv, NEW p \in Pages,
           \/ IssueChallenge(p) \/ ConsumeChallenge(p) \/ SweepChallenges(p)
           \/ OpenSession(p) \/ RevokeSession(p)
    PROVE  LoginInv'
<1>1. CASE IssueChallenge(p)
  <2>1. PICK c \in Challenges \ issued : /\ challenges' = Append(challenges, c)
                                       /\ issued' = issued \cup {c}
                                       /\ held' = [held EXCEPT ![p] = c]
    BY <1>1 DEF IssueChallenge
  <2>2. /\ Reply(p)
        /\ UNCHANGED <<user, stale, sessions, token, born, opened, printed, via,
                       spent>>
    BY <1>1 DEF IssueChallenge
  <2>3. NoRequest \in Request'
    BY <2>1, <2>2, RequestTypes DEF Request
  <2>4. pc' \in [Pages -> Steps \cup {"idle"}] /\ req' \in [Pages -> Request']
    BY <2>1, <2>2, <2>3, GoTypes DEF Reply
  <2>5. \A q \in Pages : Local(q)'
    BY <2>2, ReplyLocal, GoLocals DEF Reply
  <2>6. challenges' \in Seq(issued')
    <3>1. challenges \in Seq(issued')
      BY <2>1, SeqOverMore DEF LoginInv, TypeOK
    <3>2. QED
      BY <2>1, <3>1
  <2>7. TypeOK' /\ codes' \subseteq UNION printed'
    BY <2>1, <2>2, <2>4, <2>6 DEF LoginInv, TypeOK, user
  <2>8. QED
    BY <2>5, <2>7 DEF LoginInv
<1>2. CASE ConsumeChallenge(p) \/ SweepChallenges(p)
  <2>1. PICK D \in {{req[p].row}, stale}, s \in {"sweep", "user"} :
           challenges' = Without(challenges, D) /\ Go(p, s, req[p])
    <3>1. CASE ConsumeChallenge(p)
      BY <3>1 DEF ConsumeChallenge
    <3>2. CASE SweepChallenges(p)
      BY <3>2 DEF SweepChallenges, Live
    <3>3. QED
      BY <1>2, <3>1, <3>2
  <2>2. UNCHANGED <<user, stale, sessions, held, token, fresh, spent>>
    BY <1>2 DEF ConsumeChallenge, SweepChallenges
  <2>3. challenges' \in Seq(issued')
    BY <2>1, <2>2, WithoutPicks DEF LoginInv, TypeOK, fresh
  <2>4. req[p] \in Request'
    BY <2>2, RequestTypes DEF Request, fresh
  <2>5. pc' \in [Pages -> Steps \cup {"idle"}] /\ req' \in [Pages -> Request']
    BY <2>1, <2>2, <2>4, GoTypes DEF Steps, VerifySteps, fresh
  <2>6. Local(p)'
    <3>1. pc'[p] = s
      BY <2>1, GoAt
    <3>2. QED
      BY <3>1 DEF Local
  <2>7. \A q \in Pages : Local(q)'
    BY <2>1, <2>2, <2>6, GoLocals DEF fresh
  <2>8. TypeOK' /\ codes' \subseteq UNION printed'
    BY <2>2, <2>3, <2>5 DEF LoginInv, TypeOK, user, fresh
  <2>9. QED
    BY <2>7, <2>8 DEF LoginInv
<1>3. CASE OpenSession(p) \/ RevokeSession(p)
  <2>1. Reply(p) /\ UNCHANGED <<user, challenges, stale, held, born, issued, printed, spent>>
    BY <1>3 DEF OpenSession, RevokeSession, fresh
  <2>2. NoRequest \in Request'
    BY <2>1, RequestTypes DEF Request
  <2>3. pc' \in [Pages -> Steps \cup {"idle"}] /\ req' \in [Pages -> Request']
    BY <2>1, <2>2, GoTypes DEF Reply
  <2>4. \A q \in Pages \ {p} : token'[q] = token[q]
    BY <1>3 DEF OpenSession, RevokeSession, LoginInv, TypeOK
  <2>5. \A q \in Pages : Local(q)'
    BY <2>1, <2>4, ReplyLocal, GoLocals DEF Reply
  <2>6. /\ sessions' \in [Sessions -> born' \cup {None}]
        /\ token' \in [Pages -> opened' \cup {None}] /\ opened' \subseteq Sessions
        /\ via' \in [Sessions -> issued' \cup {None}]
    <3>1. CASE OpenSession(p)
      <4>1. req[p].row \in issued \cup {None}
        BY RequestTypes DEF Request
      <4>2. QED
        BY <2>1, <3>1, <4>1 DEF OpenSession, LoginInv, TypeOK
    <3>2. CASE RevokeSession(p)
      BY <2>1, <3>2 DEF RevokeSession, LoginInv, TypeOK, fresh
    <3>3. QED
      BY <1>3, <3>1, <3>2
  <2>7. TypeOK' /\ codes' \subseteq UNION printed'
    BY <2>1, <2>3, <2>6 DEF LoginInv, TypeOK, user
  <2>8. QED
    BY <2>5, <2>7 DEF LoginInv
<1>4. QED
  BY <1>1, <1>2, <1>3
\* LoginInv is inductive.
LEMMA LoginInvInit == Init => LoginInv
<1> SUFFICES ASSUME Init PROVE LoginInv
  OBVIOUS
<1>1. NoRequest \in Request /\ << >> \in Seq(issued)
  BY DEF Request, NoRequest
<1>2. TypeOK
  BY <1>1 DEF Init, TypeOK
<1>3. QED
  BY <1>2 DEF Init, LoginInv, Local

LEMMA LoginInvNext == LoginInv /\ [Next]_vars => LoginInv'
<1> SUFFICES ASSUME LoginInv, [Next]_vars PROVE LoginInv'
  OBVIOUS
<1>1. CASE GrowStale
  <2>1. PICK i \in DOMAIN challenges : stale' = stale \cup {challenges[i]}
    BY <1>1 DEF GrowStale
  <2>2. challenges[i] \in issued
    BY <2>1 DEF LoginInv, TypeOK
  <2>3. TypeOK'
    BY <1>1, <2>1, <2>2 DEF GrowStale, LoginInv, TypeOK, Request, user, fresh
  <2>4. QED
    BY <1>1, <2>3 DEF GrowStale, LoginInv, Local, user, fresh
<1>2. ASSUME NEW p \in Pages, Step(p) PROVE LoginInv'
  BY <1>2, ReadTypes, UserTypes, RowTypes DEF Step
<1>3. ASSUME NEW p \in Pages, Logout(p) PROVE LoginInv'
  <2>1. /\ pc[p] = "idle" /\ token' = [token EXCEPT ![p] = None]
        /\ UNCHANGED <<Tables, held, pc, req>>
    BY <1>3 DEF Logout
  <2>2. token' \in [Pages -> opened' \cup {None}] /\ Request' = Request
    BY <2>1 DEF LoginInv, TypeOK, Tables, fresh, Request
  <2>3. TypeOK'
    BY <2>1, <2>2 DEF LoginInv, TypeOK, Tables, user, fresh
  <2>4. ASSUME NEW q \in Pages PROVE Local(q)'
    <3>1. pc[q] = "auth" => token'[q] = token[q]
      BY <2>1 DEF LoginInv, TypeOK
    <3>2. QED
      BY <2>1, <3>1 DEF LoginInv, Local, Tables, fresh
  <2>5. QED
    BY <2>1, <2>3, <2>4 DEF LoginInv, Tables, user, fresh
<1>4. CASE UNCHANGED vars
  BY <1>4 DEF vars, user, fresh, LoginInv, TypeOK, Request, Local
<1>5. QED
  BY <1>1, <1>2, <1>3, <1>4, StartTypes, ReadTypes DEF Next

\* Every table, token and local of a request keeps its type, for any pages,
\* ids and batches, and whichever statements fail.
THEOREM LoginTypes == Spec => []TypeOK
<1>1. LoginInv => TypeOK
  BY DEF LoginInv
<1>2. QED
  BY <1>1, LoginInvInit, LoginInvNext, PTL DEF Spec
-----------------------------------------------------------------------------
(* SingleUse.  A row that some attempt has deleted is there for no later     *)
(* attempt: the rows only shrink, except for a challenge nobody has held.    *)

Consumed == VerifySteps \ {"find", "consume"}
ConsumedIsGone ==
    \A p \in Pages : pc[p] \in Consumed => req[p].row \notin Range(challenges)

\* A step of page p leaves the requests of the other pages alone.
LEMMA OthersStay ==
    ASSUME LoginInv, NEW p \in Pages, Start(p) \/ Step(p) \/ Fault(p)
    PROVE  \A q \in Pages \ {p} : pc'[q] = pc[q] /\ req'[q] = req[q]
<1>1. ASSUME NEW s, NEW r, Go(p, s, r)
      PROVE  \A q \in Pages \ {p} : pc'[q] = pc[q] /\ req'[q] = req[q]
  BY <1>1 DEF Go, LoginInv, TypeOK
<1>2. CASE Start(p)
  BY <1>1, <1>2 DEF Start, StartRegister, StartChallenge, StartVerify,
                    StartAuthenticated, Begin
<1>3. CASE RegisterUser(p) \/ OpenSession(p) \/ LookupUser(p) \/ IssueChallenge(p)
  BY <1>1, <1>3 DEF RegisterUser, OpenSession, LookupUser, IssueChallenge, Reply
<1>4. CASE FindChallenge(p) \/ ConsumeChallenge(p) \/ SweepChallenges(p)
  BY <1>1, <1>4 DEF FindChallenge, ConsumeChallenge, SweepChallenges, Reply
<1>5. CASE CheckAnswer(p) \/ SpendCode(p) \/ Authenticate(p)
  BY <1>1, <1>5 DEF CheckAnswer, SpendCode, Authenticate, Reply
<1>6. CASE SetUpTotp(p) \/ RevokeSession(p) \/ DeleteAccount(p) \/ Fault(p)
  BY <1>1, <1>6 DEF SetUpTotp, RevokeSession, DeleteAccount, Fault, Reply
<1>7. QED
  BY <1>2, <1>3, <1>4, <1>5, <1>6 DEF Step

\* Every step keeps ConsumedIsGone.
LEMMA GoneNext ==
    ASSUME LoginInv, ConsumedIsGone, [Next]_vars PROVE ConsumedIsGone'
<1>1. \A p \in Pages : req[p].row \in issued \cup {None}
  BY DEF LoginInv, TypeOK, Request
<1>2. Range(challenges) \subseteq issued /\ issued \subseteq Challenges /\ None \notin Challenges
  BY LoginAssumption DEF LoginInv, TypeOK, Range
<1>3. ASSUME UNCHANGED <<pc, req, challenges>> PROVE ConsumedIsGone'
  BY <1>3 DEF ConsumedIsGone
<1>4. ASSUME NEW p \in Pages, Start(p) \/ Step(p) \/ Fault(p),
             Range(challenges') \subseteq Range(challenges),
             pc'[p] \in Consumed => req'[p].row \notin Range(challenges')
      PROVE  ConsumedIsGone'
  <2> SUFFICES ASSUME NEW q \in Pages, q # p, pc'[q] \in Consumed
               PROVE  req'[q].row \notin Range(challenges')
    BY <1>4 DEF ConsumedIsGone
  <2>1. pc'[q] = pc[q] /\ req'[q] = req[q]
    BY <1>4, OthersStay
  <2>2. QED
    BY <1>4, <2>1 DEF ConsumedIsGone, Consumed
<1>5. CASE GrowStale
  BY <1>3, <1>5 DEF GrowStale
<1>6. ASSUME NEW p \in Pages, Start(p) PROVE ConsumedIsGone'
  <2>1. UNCHANGED challenges
    BY <1>6 DEF Start, StartRegister, StartChallenge, StartVerify, StartAuthenticated,
                Begin, Tables
  <2>2. pc'[p] \in {"register", "lookup", "find", "auth"}
    BY <1>6 DEF Start, StartRegister, StartChallenge, StartVerify, StartAuthenticated,
                Begin, Go, LoginInv, TypeOK
  <2>3. QED
    BY <1>4, <1>6, <2>1, <2>2 DEF Consumed, VerifySteps
<1>7. ASSUME NEW p \in Pages, Reply(p), Step(p) \/ Fault(p),
             Range(challenges') \subseteq Range(challenges)
      PROVE  ConsumedIsGone'
  <2>1. pc'[p] = "idle"
    BY <1>7, GoAt DEF Reply
  <2>2. QED
    BY <1>4, <1>7, <2>1 DEF Consumed, VerifySteps
<1>8. ASSUME NEW p \in Pages, Step(p), ~Reply(p) PROVE ConsumedIsGone'
  <2>1. CASE RegisterUser(p)
    <3>1. UNCHANGED challenges /\ req'[p].row = None
      <4>1. PICK a \in Accounts : Go(p, "session", [req[p] EXCEPT !.user = a])
        BY <1>8, <2>1 DEF RegisterUser
      <4>2. pc[p] = "register" /\ UNCHANGED challenges
        BY <2>1 DEF RegisterUser
      <4>3. req[p].row = None /\ req[p] \in Request
        BY <4>2, RequestTypes DEF LoginInv, Local
      <4>4. req'[p] = [req[p] EXCEPT !.user = a]
        BY <4>1, GoAt
      <4>5. QED
        BY <4>2, <4>3, <4>4 DEF Request
    <3>2. QED
      BY <1>2, <1>4, <1>8, <3>1
  <2>2. CASE LookupUser(p) \/ FindChallenge(p) \/ Authenticate(p)
    <3>1. pc'[p] \in {"issue", "consume", "idle", "setup", "revoke", "delete"}
      BY <1>8, <2>2 DEF LookupUser, FindChallenge, Authenticate, Go, LoginInv, TypeOK,
                        Request
    <3>2. UNCHANGED challenges
      BY <2>2 DEF LookupUser, FindChallenge, Authenticate, Tables
    <3>3. QED
      BY <1>4, <1>8, <3>1, <3>2 DEF Consumed, VerifySteps
  <2>3. CASE ConsumeChallenge(p) \/ SweepChallenges(p)
    <3>1. PICK D \in {{req[p].row}, stale} : challenges' = Without(challenges, D)
      BY <2>3 DEF ConsumeChallenge, SweepChallenges, Live
    <3>2. Range(challenges') = Range(challenges) \ D
      BY <3>1, WithoutRange DEF LoginInv, TypeOK
    <3>3. req'[p] = req[p]
      BY <2>3 DEF ConsumeChallenge, SweepChallenges, Go, LoginInv, TypeOK
    <3>4. req[p].row \notin Range(challenges')
      <4>1. CASE ConsumeChallenge(p)
        <5>1. challenges' = Without(challenges, {req[p].row})
          BY <4>1 DEF ConsumeChallenge
        <5>2. QED
          BY <5>1, WithoutRange DEF LoginInv, TypeOK
      <4>2. CASE SweepChallenges(p)
        BY <3>2, <4>2 DEF SweepChallenges, ConsumedIsGone, Consumed, VerifySteps
      <4>3. QED
        BY <2>3, <4>1, <4>2
    <3>5. QED
      BY <1>4, <1>8, <3>2, <3>3, <3>4
  <2>4. CASE CheckAnswer(p) \/ SpendCode(p)
    <3>1. req'[p].row = req[p].row
      <4>1. req'[p] \in {req[p], [req[p] EXCEPT !.user = account,
                                              !.left = codes \ {req[p].factor}]}
        BY <1>8, <2>4 DEF CheckAnswer, SpendCode, Go, LoginInv, TypeOK
      <4>2. QED
        BY <4>1, RequestTypes DEF Request
    <3>2. pc[p] \in {"user", "spend"} /\ UNCHANGED challenges
      BY <2>4 DEF CheckAnswer, SpendCode, Tables
    <3>3. QED
      BY <1>4, <1>8, <3>1, <3>2 DEF ConsumedIsGone, Consumed, VerifySteps
  <2>5. QED
    BY <1>8, <2>1, <2>2, <2>3, <2>4 DEF Step, IssueChallenge, OpenSession, SetUpTotp,
                                         RevokeSession, DeleteAccount
<1>9. ASSUME NEW p \in Pages, Step(p), Reply(p) PROVE ConsumedIsGone'
  <2>1. CASE IssueChallenge(p)
    <3>1. PICK c \in Challenges \ issued : challenges' = Append(challenges, c)
      BY <2>1 DEF IssueChallenge
    <3>2. Range(challenges') \subseteq Range(challenges) \cup {c}
      BY <3>1 DEF LoginInv, TypeOK, Range
    <3>3. ASSUME NEW q \in Pages, pc'[q] \in Consumed
          PROVE  req'[q].row \notin Range(challenges')
      <4>1. q # p
        BY <1>9, <3>3, GoAt DEF Reply, Consumed, VerifySteps
      <4>2. pc'[q] = pc[q] /\ req'[q] = req[q]
        BY <1>9, <4>1, OthersStay
      <4>3. req[q].row \notin Range(challenges) \cup {c}
        BY <1>1, <1>2, <3>3, <4>2 DEF ConsumedIsGone, Consumed
      <4>4. QED
        BY <3>2, <4>2, <4>3
    <3>4. QED
      BY <3>3 DEF ConsumedIsGone, Consumed
  <2>2. CASE ~IssueChallenge(p)
    <3>1. Range(challenges') \subseteq Range(challenges)
      <4>1. CASE ConsumeChallenge(p) \/ SweepChallenges(p)
        <5>1. PICK D \in {{req[p].row}, stale} : challenges' = Without(challenges, D)
          BY <4>1 DEF ConsumeChallenge, SweepChallenges, Live
        <5>2. QED
          BY <5>1, WithoutRange DEF LoginInv, TypeOK
      <4>2. CASE ~(ConsumeChallenge(p) \/ SweepChallenges(p))
        BY <1>9, <2>2, <4>2 DEF Step, RegisterUser, OpenSession, LookupUser,
              FindChallenge, CheckAnswer, SpendCode, Authenticate, SetUpTotp,
              RevokeSession, DeleteAccount, Tables
      <4>3. QED
        BY <4>1, <4>2
    <3>2. QED
      BY <1>7, <1>9, <3>1
  <2>3. QED
    BY <2>1, <2>2
<1>10. ASSUME NEW p \in Pages, Fault(p) PROVE ConsumedIsGone'
  BY <1>7, <1>10 DEF Fault, Tables
<1>11. ASSUME NEW p \in Pages, Logout(p) PROVE ConsumedIsGone'
  BY <1>3, <1>11 DEF Logout, Tables
<1>12. CASE UNCHANGED vars
  BY <1>3, <1>12 DEF vars
<1>13. QED
  BY <1>5, <1>6, <1>8, <1>9, <1>10, <1>11, <1>12 DEF Next

\* Between the find and the end of an attempt that can succeed, the page holds
\* the row it found, no other page does, and no session was opened with it.
UseInv ==
    /\ \A p, q \in Pages : held[p] = held[q] /\ held[p] # None => p = q
    /\ \A s \in opened : via[s] \notin Range(challenges)
    /\ \A p \in Pages : pc[p] \in {"spend", "session"} => req[p].row \in {None, held[p]}
    /\ \A p \in Pages, s \in opened :
          /\ pc[p] \in VerifySteps \ {"find"}
          /\ held[p] = req[p].row /\ held[p] # None
          => via[s] # held[p]
    /\ SingleUse

\* A step of page p that opens no session and issues no challenge keeps UseInv,
\* if what it leaves at p fits.
LEMMA UseKept ==
    ASSUME LoginInv, UseInv, NEW p \in Pages, Start(p) \/ Step(p) \/ Fault(p),
           UNCHANGED <<held, opened, via>>, Range(challenges') \subseteq Range(challenges),
           pc'[p] \in {"spend", "session"} => req'[p].row \in {None, held[p]},
           pc'[p] \in VerifySteps \ {"find"} /\ held[p] = req'[p].row /\ held[p] # None =>
               \A s \in opened : via[s] # held[p]
    PROVE  UseInv'
<1>1. \A q \in Pages \ {p} : pc'[q] = pc[q] /\ req'[q] = req[q]
  BY OthersStay
<1>2. ASSUME NEW q \in Pages, pc'[q] \in {"spend", "session"}
      PROVE  req'[q].row \in {None, held'[q]}
  BY <1>1, <1>2 DEF UseInv
<1>3. ASSUME NEW q \in Pages, NEW s \in opened', pc'[q] \in VerifySteps \ {"find"},
             held'[q] = req'[q].row, held'[q] # None
      PROVE  via'[s] # held'[q]
  BY <1>1, <1>3 DEF UseInv
<1>4. /\ \A q, r \in Pages : held'[q] = held'[r] /\ held'[q] # None => q = r
      /\ \A s \in opened' : via'[s] \notin Range(challenges')
      /\ SingleUse'
  BY DEF UseInv, SingleUse
<1>5. QED
  BY <1>2, <1>3, <1>4 DEF UseInv

\* The same where the request of p ends.
LEMMA UseReply ==
    ASSUME LoginInv, UseInv, NEW p \in Pages, Step(p) \/ Fault(p), Reply(p),
           UNCHANGED <<held, opened, via>>, Range(challenges') \subseteq Range(challenges)
    PROVE  UseInv'
<1>1. pc'[p] = "idle"
  BY GoAt DEF Reply
<1>2. QED
  BY <1>1, UseKept DEF VerifySteps

\* The steps of verify up to the session.
LEMMA UseVerify ==
    ASSUME LoginInv, UseInv, NEW p \in Pages, ~Reply(p),
           \/ FindChallenge(p) \/ ConsumeChallenge(p) \/ SweepChallenges(p)
           \/ CheckAnswer(p) \/ SpendCode(p)
    PROVE  UseInv'
<1>1. Step(p) /\ UNCHANGED <<held, opened, via>>
  BY DEF Step, FindChallenge, ConsumeChallenge, SweepChallenges, CheckAnswer, SpendCode,
         Tables, fresh
<1>2. req[p] \in Request
  BY RequestTypes
<1>3. CASE FindChallenge(p)
  <2>1. /\ UNCHANGED challenges /\ Live # << >>
        /\ Go(p, "consume", [req[p] EXCEPT !.row = Live[Len(Live)]])
    BY <1>3 DEF FindChallenge, Tables
  <2>2. pc'[p] = "consume" /\ req'[p].row = Live[Len(Live)]
    <3>1. pc'[p] = "consume" /\ req'[p] = [req[p] EXCEPT !.row = Live[Len(Live)]]
      BY <2>1, GoAt
    <3>2. QED
      BY <1>2, <3>1 DEF Request
  <2>3. Live[Len(Live)] \in Range(challenges)
    <3>1. Live \in Seq(issued) /\ Range(Live) \subseteq Range(challenges)
      BY WithoutPicks, WithoutRange DEF Live, LoginInv, TypeOK
    <3>2. Live[Len(Live)] \in Range(Live)
      BY <2>1, <3>1 DEF Range
    <3>3. QED
      BY <3>1, <3>2
  <2>4. \A s \in opened : via[s] # req'[p].row
    BY <2>2, <2>3 DEF UseInv
  <2>5. QED
    BY <1>1, <2>1, <2>2, <2>4, UseKept
<1>4. CASE ConsumeChallenge(p) \/ SweepChallenges(p)
  <2>1. PICK D \in {{req[p].row}, stale} : challenges' = Without(challenges, D)
    BY <1>4 DEF ConsumeChallenge, SweepChallenges, Live
  <2>2. Range(challenges') \subseteq Range(challenges)
    BY <2>1, WithoutRange DEF LoginInv, TypeOK
  <2>3. pc[p] \in {"consume", "sweep"} /\ pc'[p] \in {"sweep", "user"} /\ req'[p] = req[p]
    BY <1>4 DEF ConsumeChallenge, SweepChallenges, Go, LoginInv, TypeOK
  <2>4. held[p] = req[p].row /\ held[p] # None => \A s \in opened : via[s] # held[p]
    BY <2>3 DEF UseInv, VerifySteps
  <2>5. QED
    BY <1>1, <2>2, <2>3, <2>4, UseKept
<1>5. CASE CheckAnswer(p) \/ SpendCode(p)
  <2>1. req'[p].row = req[p].row
    <3>1. req'[p] \in {req[p], [req[p] EXCEPT !.user = account,
                                            !.left = codes \ {req[p].factor}]}
      BY <1>5 DEF CheckAnswer, SpendCode, Go, LoginInv, TypeOK
    <3>2. QED
      BY <1>2, <3>1 DEF Request
  <2>2. UNCHANGED challenges /\ pc[p] \in {"user", "spend"}
    BY <1>5 DEF CheckAnswer, SpendCode, Tables
  <2>3. req[p].row \in {None, held[p]}
    <3>1. CASE CheckAnswer(p)
      BY <3>1 DEF CheckAnswer, Answers
    <3>2. CASE SpendCode(p)
      BY <3>2 DEF SpendCode, UseInv
    <3>3. QED
      BY <1>5, <3>1, <3>2
  <2>4. held[p] = req[p].row /\ held[p] # None => \A s \in opened : via[s] # held[p]
    BY <2>2 DEF UseInv, VerifySteps
  <2>5. QED
    BY <1>1, <2>1, <2>2, <2>3, <2>4, UseKept
<1>6. QED
  BY <1>3, <1>4, <1>5

\* A challenge that is issued is one that no page holds and no session has.
LEMMA UseIssue ==
    ASSUME LoginInv, UseInv, NEW p \in Pages, IssueChallenge(p) PROVE UseInv'
<1>1. PICK c \in Challenges \ issued : /\ challenges' = Append(challenges, c)
                                     /\ held' = [held EXCEPT ![p] = c]
  BY DEF IssueChallenge
<1>2. UNCHANGED <<opened, via>> /\ Reply(p)
  BY DEF IssueChallenge
<1>3. pc'[p] = "idle" /\ held'[p] = c
  BY <1>1, <1>2, GoAt DEF Reply, LoginInv, TypeOK
<1>4. \A q \in Pages \ {p} : pc'[q] = pc[q] /\ req'[q] = req[q] /\ held'[q] = held[q]
  BY <1>1, OthersStay DEF Step, LoginInv, TypeOK
<1>5. /\ \A q \in Pages : held[q] # c
      /\ \A s \in opened : via[s] # c
  BY LoginAssumption DEF LoginInv, TypeOK
<1>6. Range(challenges') \subseteq Range(challenges) \cup {c}
  BY <1>1 DEF LoginInv, TypeOK, Range
<1>7. \A q, r \in Pages : held'[q] = held'[r] /\ held'[q] # None => q = r
  BY <1>3, <1>4, <1>5 DEF UseInv
<1>8. \A s \in opened' : via'[s] \notin Range(challenges')
  BY <1>2, <1>5, <1>6 DEF UseInv
<1>9. ASSUME NEW q \in Pages, pc'[q] \in VerifySteps
      PROVE  pc'[q] = pc[q] /\ req'[q] = req[q] /\ held'[q] = held[q]
  BY <1>3, <1>4, <1>9 DEF VerifySteps
<1>10. \A q \in Pages : pc'[q] \in {"spend", "session"} => req'[q].row \in {None, held'[q]}
  BY <1>9 DEF UseInv, VerifySteps
<1>11. \A q \in Pages, s \in opened' :
          /\ pc'[q] \in VerifySteps \ {"find"}
          /\ held'[q] = req'[q].row /\ held'[q] # None
          => via'[s] # held'[q]
  BY <1>2, <1>9 DEF UseInv
<1>12. SingleUse'
  BY <1>2 DEF UseInv, SingleUse
<1>13. QED
  BY <1>7, <1>8, <1>10, <1>11, <1>12 DEF UseInv

\* The session of a login has the challenge its page holds, which it found and
\* deleted and which opened none before.
LEMMA UseOpen ==
    ASSUME LoginInv, ConsumedIsGone, UseInv, NEW p \in Pages, OpenSession(p) PROVE UseInv'
<1>1. pc[p] = "session" /\ Reply(p) /\ UNCHANGED <<challenges, held>>
  BY DEF OpenSession
<1>2. CASE UNCHANGED <<opened, via>>
  BY <1>1, <1>2, UseReply DEF Step
<1>3. ASSUME NEW t \in Sessions \ opened, opened' = opened \cup {t},
             via' = [via EXCEPT ![t] = req[p].row]
      PROVE  UseInv'
  <2> DEFINE c == req[p].row
  <2>1. c \in {None, held[p]} /\ c \notin Range(challenges)
    <3>1. c \in {None, held[p]}
      BY <1>1 DEF UseInv
    <3>2. c \notin Range(challenges)
      BY <1>1 DEF ConsumedIsGone, Consumed, VerifySteps
    <3>3. QED
      BY <3>1, <3>2
  <2>2. c # None => \A s \in opened : via[s] # c
    BY <1>1, <2>1 DEF UseInv, VerifySteps
  <2>3. via'[t] = c /\ \A s \in opened : s # t /\ via'[s] = via[s]
    BY <1>3 DEF LoginInv, TypeOK
  <2>4. pc'[p] = "idle" /\ \A q \in Pages \ {p} : pc'[q] = pc[q] /\ req'[q] = req[q]
    BY <1>1, OthersStay, GoAt DEF Step, Reply
  <2>5. SingleUse'
    BY <1>3, <2>2, <2>3 DEF UseInv, SingleUse
  <2>6. \A s \in opened' : via'[s] \notin Range(challenges')
    BY <1>1, <1>3, <2>1, <2>3 DEF UseInv
  <2>7. \A q \in Pages : pc'[q] \in {"spend", "session"} => req'[q].row \in {None, held'[q]}
    BY <1>1, <2>4 DEF UseInv
  <2>8. ASSUME NEW q \in Pages, NEW s \in opened', pc'[q] \in VerifySteps \ {"find"},
               held'[q] = req'[q].row, held'[q] # None
        PROVE  via'[s] # held'[q]
    <3>1. q # p /\ pc[q] = pc'[q] /\ req[q] = req'[q] /\ held[q] = held'[q]
      BY <1>1, <2>4, <2>8 DEF VerifySteps
    <3>2. held[q] # c
      BY <2>1, <2>8, <3>1 DEF UseInv
    <3>3. s \in opened => via[s] # held[q]
      BY <2>8, <3>1 DEF UseInv
    <3>4. QED
      BY <1>3, <2>3, <3>1, <3>2, <3>3
  <2>9. \A q, r \in Pages : held'[q] = held'[r] /\ held'[q] # None => q = r
    BY <1>1 DEF UseInv
  <2>10. QED
    BY <2>5, <2>6, <2>7, <2>8, <2>9 DEF UseInv
<1>4. QED
  BY <1>2, <1>3 DEF OpenSession

\* Every step keeps UseInv.
LEMMA UseNext == ASSUME LoginInv, ConsumedIsGone, UseInv, [Next]_vars PROVE UseInv'
<1>1. ASSUME UNCHANGED <<pc, req, held, challenges, opened, via>> PROVE UseInv'
  BY <1>1 DEF UseInv, SingleUse
<1>2. CASE GrowStale
  BY <1>1, <1>2 DEF GrowStale, fresh
<1>3. ASSUME NEW p \in Pages, Start(p) PROVE UseInv'
  <2>1. UNCHANGED <<challenges, held, opened, via>>
    BY <1>3 DEF Start, StartRegister, StartChallenge, StartVerify, StartAuthenticated,
                Begin, Tables, fresh
  <2>2. pc'[p] \in {"register", "lookup", "find", "auth"}
    BY <1>3 DEF Start, StartRegister, StartChallenge, StartVerify, StartAuthenticated,
                Begin, Go, LoginInv, TypeOK
  <2>3. QED
    BY <1>3, <2>1, <2>2, UseKept DEF VerifySteps
<1>4. ASSUME NEW p \in Pages, Step(p) PROVE UseInv'
  <2>1. CASE IssueChallenge(p) \/ OpenSession(p)
    BY <2>1, UseIssue, UseOpen
  <2>2. CASE RegisterUser(p)
    <3>1. UNCHANGED <<challenges, held, opened, via>>
      BY <2>2 DEF RegisterUser, fresh
    <3>2. CASE Reply(p)
      BY <1>4, <3>1, <3>2, UseReply
    <3>3. CASE ~Reply(p)
      <4>1. PICK a \in Accounts : Go(p, "session", [req[p] EXCEPT !.user = a])
        BY <2>2, <3>3 DEF RegisterUser
      <4>2. req[p].row = None /\ req[p] \in Request
        BY <2>2, RequestTypes DEF RegisterUser, LoginInv, Local
      <4>3. req'[p] = [req[p] EXCEPT !.user = a]
        BY <4>1, GoAt
      <4>4. req'[p].row = None
        BY <4>2, <4>3 DEF Request
      <4>5. QED
        BY <1>4, <3>1, <4>4, UseKept
    <3>4. QED
      BY <3>2, <3>3
  <2>3. CASE LookupUser(p) \/ Authenticate(p)
    <3>1. UNCHANGED <<challenges, held, opened, via>>
      BY <2>3 DEF LookupUser, Authenticate, Tables, fresh
    <3>2. pc'[p] \in {"issue", "idle", "setup", "revoke", "delete"}
      BY <2>3 DEF LookupUser, Authenticate, Reply, Go, LoginInv, TypeOK, Request
    <3>3. QED
      BY <1>4, <3>1, <3>2, UseKept DEF VerifySteps
  <2>4. CASE \/ FindChallenge(p) \/ ConsumeChallenge(p) \/ SweepChallenges(p)
             \/ CheckAnswer(p) \/ SpendCode(p)
    <3>1. CASE Reply(p)
      <4>1. UNCHANGED <<held, opened, via>>
        BY <2>4 DEF FindChallenge, ConsumeChallenge, SweepChallenges, CheckAnswer,
                    SpendCode, Tables, fresh
      <4>2. Range(challenges') \subseteq Range(challenges)
        <5>1. CASE ConsumeChallenge(p) \/ SweepChallenges(p)
          <6>1. PICK D \in {{req[p].row}, stale} : challenges' = Without(challenges, D)
            BY <5>1 DEF ConsumeChallenge, SweepChallenges, Live
          <6>2. QED
            BY <6>1, WithoutRange DEF LoginInv, TypeOK
        <5>2. CASE FindChallenge(p) \/ CheckAnswer(p) \/ SpendCode(p)
          BY <5>2 DEF FindChallenge, CheckAnswer, SpendCode, Tables
        <5>3. QED
          BY <2>4, <5>1, <5>2
      <4>3. QED
        BY <1>4, <3>1, <4>1, <4>2, UseReply
    <3>2. CASE ~Reply(p)
      BY <2>4, <3>2, UseVerify
    <3>3. QED
      BY <3>1, <3>2
  <2>5. CASE SetUpTotp(p) \/ RevokeSession(p) \/ DeleteAccount(p)
    <3>1. Reply(p) /\ UNCHANGED <<challenges, held, opened, via>>
      BY <2>5 DEF SetUpTotp, RevokeSession, DeleteAccount, fresh
    <3>2. QED
      BY <1>4, <3>1, UseReply
  <2>6. QED
    BY <1>4, <2>1, <2>2, <2>3, <2>4, <2>5 DEF Step
<1>5. ASSUME NEW p \in Pages, Fault(p) PROVE UseInv'
  <2>1. Reply(p) /\ UNCHANGED <<challenges, held, opened, via>>
    BY <1>5 DEF Fault, Tables, fresh
  <2>2. QED
    BY <1>5, <2>1, UseReply
<1>6. CASE (\E p \in Pages : Logout(p)) \/ UNCHANGED vars
  BY <1>1, <1>6 DEF Logout, Tables, fresh, vars
<1>7. QED
  BY <1>2, <1>3, <1>4, <1>5, <1>6 DEF Next

\* No challenge opens two sessions, for any number of pages, whatever accounts
\* come and go, and wherever the attempts that use it are cut off.
THEOREM ChallengesOpenOneSession == Spec => []SingleUse
<1>1. Init => ConsumedIsGone /\ UseInv
  BY DEF Init, ConsumedIsGone, Consumed, VerifySteps, UseInv, SingleUse
<1>2. LoginInv /\ ConsumedIsGone /\ UseInv /\ [Next]_vars => (ConsumedIsGone /\ UseInv)'
  BY GoneNext, UseNext
<1>3. UseInv => SingleUse
  BY DEF UseInv
<1>4. QED
  BY <1>1, <1>2, <1>3, LoginInvInit, LoginInvNext, PTL DEF Spec

-----------------------------------------------------------------------------
(* Recovery codes, for one page.  Between the statement that reads the       *)
(* codes and the one that writes back what is left of them nothing else may  *)
(* write them: with two pages CodesAreSpent does not hold of the code.       *)
CodeInv ==
    /\ spent \cap codes = {}
    /\ \A p \in Pages :
          /\ pc[p] = "spend" =>
                req[p].user = account /\ req[p].left = codes \ {req[p].factor}
          /\ pc[p] = "session" /\ twoFactor => req[p].factor \in {Totp} \cup spent

LEMMA CodeInvNext ==
    ASSUME LoginInv, CodeInv, \A p, q \in Pages : p = q, [Next]_vars
    PROVE  CodeInv'
<1>1. ASSUME UNCHANGED <<user, spent, pc, req>> PROVE CodeInv'
  BY <1>1 DEF CodeInv, user
<1>2. ASSUME NEW p \in Pages, pc'[p] \notin {"spend", "session"}, (spent \cap codes = {})'
      PROVE  CodeInv'
  BY <1>2 DEF CodeInv
<1>3. ASSUME NEW p \in Pages, Reply(p), (spent \cap codes = {})' PROVE CodeInv'
  BY <1>2, <1>3, GoAt DEF Reply
<1>4. ASSUME NEW p \in Pages, Start(p) PROVE CodeInv'
  <2>1. UNCHANGED <<codes, spent>>
    BY <1>4 DEF Start, StartRegister, StartChallenge, StartVerify, StartAuthenticated,
                Begin, Tables, user
  <2>2. pc'[p] \in {"register", "lookup", "find", "auth"}
    BY <1>4 DEF Start, StartRegister, StartChallenge, StartVerify, StartAuthenticated,
                Begin, Go, LoginInv, TypeOK
  <2>3. QED
    BY <1>2, <2>1, <2>2 DEF CodeInv
<1>5. ASSUME NEW p \in Pages, Step(p) \/ Fault(p) PROVE CodeInv'
  <2>1. CASE RegisterUser(p)
    <3>1. CASE Reply(p) /\ UNCHANGED user
      BY <1>3, <2>1, <3>1 DEF RegisterUser, user, CodeInv
    <3>2. CASE ~(Reply(p) /\ UNCHANGED user)
      <4>1. /\ UNCHANGED spent /\ twoFactor' = FALSE /\ codes' = {}
            /\ \E a \in Accounts : Go(p, "session", [req[p] EXCEPT !.user = a])
        BY <2>1, <3>2 DEF RegisterUser
      <4>2. pc'[p] = "session"
        BY <4>1, GoAt
      <4>3. QED
        BY <4>1, <4>2 DEF CodeInv
    <3>3. QED
      BY <3>1, <3>2
  <2>2. CASE CheckAnswer(p)
    <3> DEFINE r == [req[p] EXCEPT !.user = account, !.left = codes \ {req[p].factor}]
    <3>1. UNCHANGED <<account, twoFactor, codes, spent>>
      BY <2>2 DEF CheckAnswer, Tables, user
    <3>2. r.user = account /\ r.factor = req[p].factor /\ r.left = codes \ {r.factor}
      BY RequestTypes DEF Request
    <3>3. CASE Reply(p)
      BY <1>3, <3>1, <3>3 DEF CodeInv
    <3>4. CASE (~twoFactor \/ r.factor = Totp) /\ Go(p, "session", r)
      <4>1. pc'[p] = "session" /\ req'[p] = r
        BY <3>4, GoAt
      <4>2. QED
        BY <3>1, <3>4, <4>1 DEF CodeInv
    <3>5. CASE Go(p, "spend", r)
      <4>1. pc'[p] = "spend" /\ req'[p] = r
        BY <3>5, GoAt
      <4>2. QED
        BY <3>1, <3>2, <4>1 DEF CodeInv
    <3>6. QED
      BY <2>2, <3>3, <3>4, <3>5 DEF CheckAnswer
  <2>3. CASE SpendCode(p)
    <3>1. /\ pc[p] = "spend" /\ spent' = spent \cup {req[p].factor}
          /\ codes' = IF req[p].user = account THEN req[p].left ELSE codes
          /\ Go(p, "session", req[p])
      BY <2>3 DEF SpendCode
    <3>2. codes' = codes \ {req[p].factor}
      BY <3>1 DEF CodeInv
    <3>3. pc'[p] = "session" /\ req'[p] = req[p]
      BY <3>1, GoAt
    <3>4. QED
      BY <3>1, <3>2, <3>3 DEF CodeInv
  <2>4. CASE SetUpTotp(p)
    <3>1. Reply(p) /\ UNCHANGED spent
      BY <2>4 DEF SetUpTotp
    <3>2. CASE UNCHANGED codes
      BY <1>3, <3>1, <3>2 DEF CodeInv
    <3>3. CASE ~UNCHANGED codes
      <4>1. PICK b \in Batches \ printed : codes' = b
        BY <2>4, <3>3 DEF SetUpTotp, user
      <4>2. b \cap UNION printed = {}
        <5>1. \A c \in printed : b \cap c = {}
          BY LoginAssumption DEF LoginInv, TypeOK
        <5>2. QED
          BY <5>1
      <4>3. spent' \cap codes' = {}
        BY <3>1, <4>1, <4>2 DEF LoginInv, TypeOK
      <4>4. QED
        BY <1>3, <3>1, <4>3
    <3>4. QED
      BY <3>2, <3>3
  <2>5. CASE DeleteAccount(p)
    <3>1. Reply(p) /\ UNCHANGED spent /\ codes' \in {codes, {}}
      BY <2>5 DEF DeleteAccount, user
    <3>2. QED
      BY <1>3, <3>1 DEF CodeInv
  <2>6. CASE LookupUser(p) \/ FindChallenge(p) \/ Authenticate(p) \/ Fault(p)
    <3>1. UNCHANGED <<codes, spent>>
      BY <2>6 DEF LookupUser, FindChallenge, Authenticate, Fault, Tables, user
    <3>2. pc'[p] \in {"idle", "issue", "consume", "setup", "revoke", "delete"}
      BY <2>6 DEF LookupUser, FindChallenge, Authenticate, Fault, Reply, Go, LoginInv,
                  TypeOK, Request
    <3>3. QED
      BY <1>2, <3>1, <3>2 DEF CodeInv
  <2>7. CASE IssueChallenge(p) \/ ConsumeChallenge(p) \/ SweepChallenges(p)
    <3>1. UNCHANGED <<codes, spent>>
      BY <2>7 DEF IssueChallenge, ConsumeChallenge, SweepChallenges, user
    <3>2. pc'[p] \in {"idle", "sweep", "user"}
      BY <2>7 DEF IssueChallenge, ConsumeChallenge, SweepChallenges, Reply, Go,
                  LoginInv, TypeOK
    <3>3. QED
      BY <1>2, <3>1, <3>2 DEF CodeInv
  <2>8. CASE OpenSession(p) \/ RevokeSession(p)
    BY <1>3, <2>8 DEF OpenSession, RevokeSession, user, CodeInv
  <2>9. QED
    BY <1>5, <2>1, <2>2, <2>3, <2>4, <2>5, <2>6, <2>7, <2>8 DEF Step
<1>6. CASE GrowStale \/ \E p \in Pages : Logout(p)
  BY <1>1, <1>6 DEF GrowStale, Logout, Tables
<1>7. CASE UNCHANGED vars
  BY <1>1, <1>7 DEF vars
<1>8. QED
  BY <1>4, <1>5, <1>6, <1>7 DEF Next

LEMMA CodeInvHolds == ASSUME \A p, q \in Pages : p = q PROVE Spec => [](LoginInv /\ CodeInv)
<1>1. Init => CodeInv
  BY DEF Init, CodeInv
<1>2. LoginInv /\ CodeInv /\ [Next]_vars => CodeInv'
  BY CodeInvNext
<1>3. QED
  BY <1>1, <1>2, LoginInvInit, LoginInvNext, PTL DEF Spec

\* With one page, a recovery code that let a login through is stored no more.
THEOREM CodesSpentOnce ==
    ASSUME \A p, q \in Pages : p = q PROVE Spec => []CodesAreSpent
<1>1. CodeInv => CodesAreSpent
  BY DEF CodeInv, CodesAreSpent
<1>2. QED
  BY <1>1, CodeInvHolds, PTL

\* With one page, a session that is opened while the second factor is on is that
\* of a login that has shown it.
THEOREM SecondFactorNeeded ==
    ASSUME \A p, q \in Pages : p = q PROVE Spec => SecondFactorShown
<1>1. LoginInv /\ CodeInv /\ [Next]_vars =>
         [\A p \in Pages : pc[p] = "session" /\ twoFactor /\ opened' # opened =>
              req[p].factor = Totp \/ req[p].factor \in spent]_vars
  BY DEF CodeInv
<1>2. QED
  BY <1>1, CodeInvHolds, PTL DEF Spec, SecondFactorShown
=============================================================================
