SPECIFICATION PipelineSpec
CONSTANTS
    Timeframes <- MCTimeframes
    PollOrder <- MCOrder
    Span <- MCSpan
    FetchCount = 3
    Clients = {c1}
    Limits = {1, 2}
    Faults = TRUE
    MaxBars = 2
    Trigger = "15m"
    LoadOrder <- MCLoadOrder
    Required <- MCTimeframes
    MinHistory = 1
    History = 2
INVARIANTS
    PipelineInv
    Covered
    CoveredBySignal
    PushedArePersisted
    PushedInOrder
