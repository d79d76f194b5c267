SPECIFICATION FairSpec
CONSTANTS
    c1 = c1
    c2 = c2
    s1 = s1
    s2 = s2
    Client = {c1, c2}
    Server = {s1, s2}
    MaxLoss = 1
    MaxCrash = 2
    MaxUsurp = 1
    MaxForward = 1
INVARIANTS TypeOK IndexTellsApart WaitsForReason
PROPERTIES AnswerServes TwinsPart
CHECK_DEADLOCK FALSE
