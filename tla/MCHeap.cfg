SPECIFICATION HeapSpec
CONSTANTS
    x = x
    y = y
    Stamps <- MCStamps
    HeapSize = 56
    Word32 = 256
    Sizes = {1, 8, 9, 17, 100}
INVARIANTS
    BlocksApart
    ContentsKept
    HeadersKept
