CONSTANTS
    Users = {a, b, c}
    NoUser = NoUser
    Workers = {w1, w2}
    MaxMembers = 2
    Ops = {"create", "invite", "join", "leave", "delete"}
    FaultPoints = {}
SPECIFICATION FairSpec
INVARIANT Ledger
INVARIANT CapOvershoot
INVARIANT Succession
PROPERTY LastOneOut
