SPECIFICATION FairSpec
CONSTANTS
    Timeframes <- MCTimeframes
    PollOrder <- MCOrder
    Span <- MCSpan
    FetchCount = 2
    Clients = {c1}
    Limits = {2}
    Faults = TRUE
    MaxBars = 3
INVARIANTS
    FeedInv
    StoredAreClosed
PROPERTIES
    ImplementsLog
    NewestIsStored
