SPECIFICATION FairSpec
CONSTANTS
    Server = {s1, s2, s3}
    Nobody = Nobody
    Id <- DrawnIds
    MaxRush = 1
    MaxLate = 1
    MaxPassed = 1
    MaxLoss = 1
    MaxSame = 1
    MaxBeats = 1
INVARIANTS TypeOK LeadersAccounted DeathNeedsNamesake FollowersListed
PROPERTY Settles
CHECK_DEADLOCK FALSE
