CONSTANTS
    Digits = 10
    BufLen = 32
    Commands <- MCCommands
    Font <- MCFont
    Blank = " "
    Outside = "x"
    Behind = {43690}
    Strings <- MCStrings
    PokeAddrs = {3, 127}
    PokeData <- MCPokeData
    MaxCalls = 2

SPECIFICATION TmSpec

INVARIANT ClearsAll

CHECK_DEADLOCK FALSE
