CONSTANTS
    None = None
    Totp = Totp
    Pages = {p, q}
    Accounts = {a, b}
    Passwords = {x}
    Challenges = {h1, h2}
    Sessions = {s1, s2, s3}
    c1 = c1
    c2 = c2
    c3 = c3
    Batches <- RecoveryBatches
    HasCreatedAt = TRUE
    Ops = {"register", "challenge", "verify", "revoke", "delete", "logout"}
    FaultPoints = {"session", "sweep", "user"}
SPECIFICATION Spec
SYMMETRY Symmetry
INVARIANT SessionsOfAccount
 
CHECK_DEADLOCK FALSE
