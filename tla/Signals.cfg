SPECIFICATION Spec
CONSTANTS
    RsiLength = 2
    AtrLength = 2
    MacdFast = 1
    MacdSlow = 3
    MacdSignal = 2
    EmaFast = 2
    EmaMiddle = 3
    EmaSlow = 5
    TrendHistory = 5
    MomentumHistory = 5
    StructureHistory = 4
    LevelsHistory = 4
    VolatilityHistory = 3
    FractalHalf = 1
    LookbackSwings = 2
    VolatilityBounds <- MCVolatilityBounds
    Candles <- MCCandles
    Starts <- MCStarts
    Others <- MCOthers
    MaxCandles = 7
    Pivot <- MCPivot
INVARIANTS
    SignalInv
    LevelsInOrder
    MirrorImage
    ZonesAreComponents
PROPERTIES
    NoRepaint
    FlipNeedsSplit
CHECK_DEADLOCK FALSE
