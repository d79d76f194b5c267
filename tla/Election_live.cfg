SPECIFICATION FairSpec
CONSTANTS
    N = 4
    Id <- SortedId
    MaxCrash = 0
    MaxRepeat = 2
INVARIANT TypeOK
PROPERTY ElectionEnds
CHECK_DEADLOCK FALSE
