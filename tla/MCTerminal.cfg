SPECIFICATION Spec
CONSTANTS
    Columns = 6
    LastRow = 2
    Greeting <- MCGreeting
    Replies <- MCReplies
    Prompt <- MCPrompt
    MaxLength = 8
    Spots <- MCSpots
    UINT32_MAX = 31
    FONT_W = 1
    FONT_H = 2
    CHINESE_FONT_W = 2
    CHINESE_FONT_H = 2
    FrameBuffers <- MCFrameBuffers
    Alphabet = {65, 233, 20320}
    LongestText = 5
INVARIANTS
    TextFits
    BlankAhead
PROPERTIES
    PromptKept
    PointerLeavesNoTrace
VIEW
    View
