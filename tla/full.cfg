CONSTANTS
    Areas = {upper, lower}
    Screens = {s1, s2}
    Nothing = Nothing
    Torn = Torn
    Builds = {"two", "turned", "three"}

SPECIFICATION Spec

INVARIANTS
    TypeOK
    WritesHidden
    FreeUnlessMet

PROPERTIES
    StepsKeepPromise
    CatchesUp
    LastIsSeen
