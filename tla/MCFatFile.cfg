SPECIFICATION Spec
CONSTANTS
    LastCluster = 5
    SectorSize = 2
    PerClusters = {1, 2}
    a = a
    b = b
    Stamps <- MCStamps
    MaxSize = 5
PROPERTIES
    IsByteFile
    OwnSectorsOnly
CONSTRAINT
    UntilBroken
SYMMETRY Sym
