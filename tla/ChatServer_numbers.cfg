SPECIFICATION Spec
CONSTANTS
    c1 = c1
    c2 = c2
    Client = {c1, c2}
    ClientId <- Ids2
    Peer = {1, 2, 3}
    MaxFd = 4
    MAX_CONNECTION = 3
    MaxEnds = 2
    MaxNeighbour = 1
INVARIANTS TypeOK SlotsAccounted Routed DeathNeedsFaults SelectSound PeersListed
CHECK_DEADLOCK FALSE
