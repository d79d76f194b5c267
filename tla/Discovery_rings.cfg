SPECIFICATION Spec
CONSTANTS
    Server = {s1, s2, s3, s4}
    Nobody = Nobody
    Id <- DrawnIds
    MaxRush = 0
    MaxLate = 0
    MaxPassed = 1
    MaxLoss = 0
    MaxSame = 1
    MaxBeats = 1
SYMMETRY Symmetry
INVARIANT RingsFollowLists
CHECK_DEADLOCK FALSE
