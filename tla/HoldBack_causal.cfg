SPECIFICATION FairSpec
CONSTANTS
    a = a
    b = b
    c = c
    Client <- ThreeClients
    MaxSend = 1
    MaxBlank = 0
    MaxReorder = 1
    MaxLoss = 0
    MaxDup = 0
INVARIANTS TypeOK
PROPERTIES CausalSpec EverythingArrives
CHECK_DEADLOCK FALSE
