CONSTANTS
    Users = {a, b}
    Creator = a
    MaxChannels = 1
    MaxKeys = 3
    MaxChanges = 1
    Opens = {"admin"}
    Workers = {w1, w2}
    Ops = {"general", "create", "rotate", "leave"}
    FaultPoints = {"no_list", "rotate_insert"}
SPECIFICATION FairSpec
INVARIANT TypeOK
INVARIANT RotationWhole
INVARIANT OneKeyEach
INVARIANT KeptKeysUploaded
PROPERTY VersionsGrow
PROPERTY CallsEnd
CHECK_DEADLOCK FALSE
