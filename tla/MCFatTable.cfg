SPECIFICATION FairSpec
CONSTANTS
    h1 = h1
    Handles <- MCHandles
    LastCluster = 5
    PerSector = 2
    Slots = 2
    MaxHops = 2
    Parents = {"root", "elsewhere", "beyond"}
    MaxFaults = 1
INVARIANTS
    NoCycle
    NoCrossLink
    ReferredIsAllocated
    NothingLost
    MirrorLag
CONSTRAINT
    FewEvents
PROPERTIES
    OpsFinish
CHECK_DEADLOCK FALSE
