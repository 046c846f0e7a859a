SPECIFICATION FairSpec
CONSTANTS
    Slots <- MCSlots
    Watchdog = 1
    Stable = 2
    InitialBackoff = 1
    MaxBackoff = 4
    MaxTicks = 3
INVARIANTS
    StreamInv
    CacheKeepsUp
PROPERTIES
    QuoteIsPublished
    SilenceEnds
    PricesInOrder
CHECK_DEADLOCK FALSE
