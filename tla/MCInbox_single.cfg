CONSTANTS
    Msgs = {m1, m2, m3, x}
    Expiring = {x}
    Sends = {s1, s2}
    Devices = {d1}
    Tasks = {t1}
    Limit = 2
    Ops = {"send"}
    FaultPoints = {}
SPECIFICATION FairSpec
INVARIANT HistoryComplete
INVARIANT SettledView
PROPERTY ImplementsMailbox
PROPERTY EventuallyStored
