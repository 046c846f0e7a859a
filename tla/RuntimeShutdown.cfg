SPECIFICATION FairSpec
CONSTANTS
    Workers <- MCWorkers
    Fragile <- MCFragile
    Callers <- MCCallers
    MaxRetries = 5
INVARIANTS
    RuntimeInv
PROPERTIES
    DeathIsNoticed
    ShutdownEnds
CHECK_DEADLOCK FALSE
