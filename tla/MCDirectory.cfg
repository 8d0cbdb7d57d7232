SPECIFICATION Spec
CONSTANTS
    Stem = 1
    Extension = 1
    Paths <- MCPaths
    PerSector = 2
    PerCluster = 1
    RootClusters = 2
    Files = {1, 2}
    SectorSize = 2
    Stamps = {1}
    MaxSize = 1
    Formatted <- MCFormatted
PROPERTIES
    IsNameMap
    ListedOnce
    KeptWhole
CONSTRAINTS
    WhileSound
    OneHandle
    FewAttributes
