CONSTANTS
    None = None
    Totp = Totp
    Pages = {p}
    Accounts = {a}
    Passwords = {x, y}
    Challenges = {h1}
    Sessions = {s1, s2}
    c1 = c1
    c2 = c2
    c3 = c3
    Batches <- RecoveryBatches
    HasCreatedAt = FALSE
    Ops = {"register", "challenge", "verify"}
    FaultPoints = {}
SPECIFICATION FairSpec
PROPERTY RightAnswerGetsIn
CHECK_DEADLOCK FALSE
