SPECIFICATION FairSpec
CONSTANTS
    Faults = TRUE
    MinBackoff = 1
    MaxBackoff = 3
    MaxPublished = 2
    MaxConns = 3
INVARIANTS
    SocketInv
    FramesInOrder
PROPERTIES
    Recovers
    SessionsEnd
CHECK_DEADLOCK FALSE
