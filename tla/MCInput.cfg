SPECIFICATION FairSpec
CONSTANTS
    letter = letter
    caps = caps
    left = left
    right = right
    Letter = letter
    CapsLock = caps
    LeftShift = left
    RightShift = right
    Keys <- MCKeys
    MaxQueue = 1
INVARIANTS
    ServiceEnds
    PacketsInStep
    ShiftReleased
PROPERTIES
    NoForeignEoi
    BytesAreTaken
CONSTRAINT
    FewEvents
