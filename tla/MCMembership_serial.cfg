CONSTANTS
    Users = {a, b, c, d}
    NoUser = NoUser
    Workers = {w1}
    MaxMembers = 3
    Ops = {"create", "invite", "join", "leave", "kick", "role", "delete", "account"}
    FaultPoints = {}
SPECIFICATION Spec
SYMMETRY Symmetry
INVARIANT TypeOK
INVARIANT CapRespected
INVARIANT SettledCount
INVARIANT SettledOwner
PROPERTY AdminsStepDownThemselves
CHECK_DEADLOCK FALSE
