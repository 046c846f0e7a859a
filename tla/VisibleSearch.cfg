SPECIFICATION FairSpec
CONSTANTS
    Durations <- MCDurations
    Times <- MCTimes
    MaxCandles = 5
INVARIANTS
    VisibleInv
    ExactlyTheClosed
PROPERTIES
    SearchEnds
CHECK_DEADLOCK FALSE
