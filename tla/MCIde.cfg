SPECIFICATION FairSpec
CONSTANTS
    v = v
    w = w
    Values <- MCValues
    Buffers <- MCBuffers
    LastLba = 1
    MaxSectors = 2
    Timeout = 1
INVARIANTS
    GoodReadsAreRight
    GoodWritesLand
    OnlyAskedWritten
PROPERTIES
    CallsReturn
