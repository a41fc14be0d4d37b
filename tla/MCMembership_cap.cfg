CONSTANTS
    Users = {a, b, c}
    NoUser = NoUser
    Workers = {w1, w2}
    MaxMembers = 2
    Ops = {"create", "invite", "join"}
    FaultPoints = {}
SPECIFICATION Spec
SYMMETRY Symmetry
INVARIANT CapRespected
