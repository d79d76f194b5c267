SPECIFICATION Spec
CONSTANTS
    c1 = c1
    c2 = c2
    Client = {c1, c2}
    ClientId <- Ids2
    Peer = {1, 2}
    MaxFd = 5
    MAX_CONNECTION = 4
    MaxEnds = 2
    MaxNeighbour = 1
INVARIANT ConnectedListed
CHECK_DEADLOCK FALSE
