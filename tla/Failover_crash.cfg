SPECIFICATION FairSpec
CONSTANTS
    Server <- ServerIds
    OldLeader = 2
    Mortal = {1, 2, 3, 4}
    MaxCrash = 1
    MaxRepeat = 1
    MaxLoss = 0
    MaxBeats = 0
INVARIANTS TypeOK RingFollowsList OneFaultOneDeath
PROPERTIES Reunite ElectionSpec
CHECK_DEADLOCK FALSE
