CONSTANTS
    Areas = {upper, lower}
    Colors = {c1, c2, c3}
    Black = Black
    Animated = FALSE
    W = 4
    H = 3
    Old = Old
    Tasks = {app, lvgl}
    Limits = {0, 9, 25}
    TickRate = 100
    MaxDepth = 2
    Digits = 2
    BufLen = 7
    Commands <- MCCommands
    Font <- MCFont
    Blank = " "
    Outside = "x"
    Behind = {43690}
    Strings <- MCStrings
    PokeAddrs = {3, 127}
    PokeData <- MCPokeData
    MaxCalls = 3

SPECIFICATION PartsSpec

INVARIANTS
    TypeOK
    WritesHidden
    BuffersAgree
    InBuffers
    CopiedTurned
    TouchMatchesPicture
    HolderOnly
    KeepsLimit
    TextShown
    OneDigitChanged
    InitComplete

PROPERTIES
    ImplementsDisplay
    ImplementsRam
    LimitedCallsReturn
