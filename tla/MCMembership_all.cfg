CONSTANTS
    Users = {a, b}
    NoUser = NoUser
    Workers = {w1, w2}
    MaxMembers = 2
    Ops = {"create", "invite", "join", "leave", "kick", "role", "delete", "account"}
    FaultPoints = {"create_member", "join_count", "leave_count", "leave_oldest", "leave_owner", "leave_promote", "leave_drop", "kick_count"}
SPECIFICATION Spec
SYMMETRY Symmetry
INVARIANT ReferentialIntegrity
CHECK_DEADLOCK FALSE
PROPERTY ImplementsMemberTable
