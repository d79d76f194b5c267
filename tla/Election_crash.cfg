SPECIFICATION FairSpec
CONSTANTS
    N = 4
    Id <- MixedId
    MaxCrash = 2
    MaxRepeat = 0
INVARIANTS TwoLeadersNeedCrash VotesClimb AskedHasLeader NullDerefNeedsCrash
PROPERTIES WinnerIsMax SomeoneLeads
CHECK_DEADLOCK FALSE
