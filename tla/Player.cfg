SPECIFICATION Spec
CONSTANTS
    Nodes = {n1, n2}
    Uids = {u1, u2}
    Uid = u1
    CompactCount = 2
    UpdateTick = 1
    Reported <- SomeReports
    MaxNow = 3
    MaxSets = 1
    MaxFaults = 2
INVARIANTS
    ListShape
    SavedIsLoaded
    TimeAccounted
PROPERTIES
    StartEnds
CHECK_DEADLOCK FALSE
