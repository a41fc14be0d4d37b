CONSTANTS
    None = None
    Totp = Totp
    Pages = {p}
    Accounts = {a}
    Passwords = {x, y}
    Challenges = {h1, h2}
    Sessions = {s1, s2, s3}
    c1 = c1
    c2 = c2
    c3 = c3
    Batches <- RecoveryBatches
    HasCreatedAt = TRUE
    Ops = {"register", "challenge", "verify", "setup", "delete"}
    FaultPoints = {}
SPECIFICATION FairSpec
INVARIANT TypeOK
INVARIANT CodesAreSpent
PROPERTY SecondFactorShown
PROPERTY RightAnswerGetsIn
CHECK_DEADLOCK FALSE
