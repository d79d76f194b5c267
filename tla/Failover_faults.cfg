SPECIFICATION Spec
CONSTANTS
    Server <- ServerIds
    OldLeader = 2
    Mortal = {1, 2, 3, 4}
    MaxCrash = 2
    MaxRepeat = 0
    MaxLoss = 1
    MaxBeats = 1
INVARIANTS StrandedByLoss SuccessorWatched
CHECK_DEADLOCK FALSE
