CONSTANTS
    Slots = {s1, s2}
    MaxActs = 3
    People = {x, y}
    MaxKeys = 2
    Chans = {c, d}
    Keyed = {c}
    Senders = {x, me}
    Me = me
    Known = {x}
    Limit = 2
    NoChan = NoChan
SPECIFICATION Spec
INVARIANT TypeOK
INVARIANT ListIsStored
INVARIANT RemoteCovers
INVARIANT ShownIsSent
PROPERTY KeysForward
PROPERTY UpgradeReleases
PROPERTY UpgradeFreezes
CHECK_DEADLOCK FALSE
