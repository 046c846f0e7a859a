SPECIFICATION FairPipelineSpec
CONSTANTS
    Timeframes <- MCTimeframes
    PollOrder <- MCOrder
    Span <- MCSpan
    FetchCount = 3
    Clients = {}
    Limits = {2}
    Faults = FALSE
    MaxBars = 3
    Trigger = "15m"
    LoadOrder <- MCLoadOrder
    Required <- MCTimeframes
    MinHistory = 1
    History = 2
PROPERTIES
    CloseIsAnalysed
