SPECIFICATION Spec
CONSTANTS
    Head0 = 3
    Peer <- Ids5
INVARIANTS TypeOK RingMended
