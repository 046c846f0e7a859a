SPECIFICATION RequestSpec
CONSTANTS
    Length = 5
    Prices <- MCPrices
    Risks = {0, 2}
    InitialEquity = 4
    RiskPct = 25
    Adverse = 1
    SlippageSL = 1
    AllowPyramiding = FALSE
    RequiredTfs <- MCRequired
    Primary = "15m"
    Faults = TRUE
INVARIANTS
    BacktestInv
    AccountsBalance
    DrawdownIsExact
    TradesInOrder
    ExitsPay
    StatsAreRight
    RequestInv
PROPERTIES
    BustIsFinal
    EveryTradeIsReported
CHECK_DEADLOCK FALSE
