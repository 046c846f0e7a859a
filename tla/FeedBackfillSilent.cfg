SPECIFICATION FairSpec
CONSTANTS
    Timeframes <- MCOneTimeframes
    PollOrder <- MCOneOrder
    Span <- MCOneSpan
    FetchCount = 3
    Clients = {c1}
    Limits = {2}
    Faults = FALSE
    MaxBars = 2
PROPERTIES
    StoredIsAnnounced
