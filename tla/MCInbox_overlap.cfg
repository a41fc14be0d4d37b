CONSTANTS
    Msgs = {m1, m2, x}
    Expiring = {x}
    Sends = {}
    Devices = {d1}
    Tasks = {t1, t2}
    Limit = 2
    Ops = {"erase"}
    FaultPoints = {"expire", "select", "mark", "answer", "read", "put"}
SPECIFICATION Spec
SYMMETRY Symmetry
INVARIANT TypeOK
INVARIANT ServerKeeps
INVARIANT DeliveredFirst
