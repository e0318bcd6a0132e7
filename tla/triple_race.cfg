CONSTANTS
    Areas = {upper, lower}
    Screens = {s1, s2}
    Nothing = Nothing
    Torn = Torn
    Builds = {"three"}

SPECIFICATION Spec

INVARIANT BufferFreeAtRest
