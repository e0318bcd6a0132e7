CONSTANTS
    MAX_IMAGES = 2
    TOTAL_PRELOAD_LIMIT = 5
    Word = 16
    FileSizes <- MCFileSizes
    MaxEntries = 3

SPECIFICATION Spec

INVARIANTS
    TypeOK
    WithinLimit
    NothingLeaks
    NoneForgotten
