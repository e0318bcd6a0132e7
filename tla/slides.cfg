CONSTANTS
    MAX_IMAGES = 3
    middle = middle
    border = border
    Areas <- MCAreas
    Cover <- MCCover
    Blank <- MCBlank
    Label <- MCLabel
    Background <- MCBackground
    Noise <- MCNoise
    Timely = TRUE

SPECIFICATION Spec

INVARIANTS
    TypeOK
    Exclusive
    VisibleFrameWhole

PROPERTIES
    AppFinishes
    SlideshowSpec
    EveryPictureComesRound
