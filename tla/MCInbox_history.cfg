CONSTANTS
    Msgs = {m1}
    Expiring = {}
    Sends = {s1}
    Devices = {d1}
    Tasks = {t1, t2}
    Limit = 2
    Ops = {"send"}
    FaultPoints = {}
SPECIFICATION Spec
SYMMETRY Symmetry
INVARIANT HistoryComplete
