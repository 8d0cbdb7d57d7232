CONSTANTS
    Printable = {" ", "[", "A", "B"}
    Blank = " "
    Bracket = "["
    KeyUp = "A"
    KeyDown = "B"
    ESC = "ESC"
    NL = "NL"
    BS = "BS"
    Other = "Other"
    MAX_CMD_LEN = 3
    MAX_ARGS = 3
    MAX_HISTORY = 3
    HISTORY <- const_HISTORY
    ECHO <- const_ECHO
    PROMPT <- const_PROMPT
    Terminals <- const_Terminals
    Bits = 8
    Letters = {97, 98}
    Longest = 3
SPECIFICATION Spec
CONSTRAINT ShortLines
INVARIANT LineShown
PROPERTY IsLineHistory
