SPECIFICATION FairSpec
CONSTANTS
    ModeLists <- MCModeLists
    MaxCount = 4
    MaxChanges = 4
INVARIANTS
    MapInForce
    BestMode
PROPERTIES
    Starts
CHECK_DEADLOCK FALSE
