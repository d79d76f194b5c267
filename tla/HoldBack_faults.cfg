SPECIFICATION Spec
CONSTANTS
    a = a
    b = b
    c = c
    Client <- TwoClients
    MaxSend = 2
    MaxBlank = 1
    MaxReorder = 1
    MaxLoss = 1
    MaxDup = 1
INVARIANTS CountsRight NoGap
PROPERTY HeldBackForGood
SYMMETRY Symmetry
CHECK_DEADLOCK FALSE
