CONSTANTS
    Levels = 3
    Entries = 2
    Frames = {1, 2, 3, 4, 5, 6}
    Targets = {9}
    CallPages = {0, 5}
    FlagSets <- const_FlagSets
    Identity = 1
    FbPage = 2
    FbPages = 1
    TlbSize = 1
SPECIFICATION PagingSpec
CONSTRAINTS UntilWild FewOthers
INVARIANTS TablesApart TlbFresh
PROPERTY IsFlatMap
CHECK_DEADLOCK FALSE
