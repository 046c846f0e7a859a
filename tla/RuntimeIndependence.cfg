SPECIFICATION Spec
CONSTANTS
    Workers <- MCWorkers
    Fragile <- MCFragile
    Callers <- MCCallers
    MaxRetries = 5
INVARIANTS
    WorkersAreIndependent
CHECK_DEADLOCK FALSE
