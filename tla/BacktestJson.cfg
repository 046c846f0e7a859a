SPECIFICATION RequestSpec
CONSTANTS
    Length = 3
    Prices <- MCPrices
    Risks = {0, 2}
    InitialEquity = 4
    RiskPct = 25
    Adverse = 1
    SlippageSL = 1
    AllowPyramiding = FALSE
    RequiredTfs <- MCRequired
    Primary = "15m"
    Faults = FALSE
INVARIANTS
    ReportIsJson
CHECK_DEADLOCK FALSE
