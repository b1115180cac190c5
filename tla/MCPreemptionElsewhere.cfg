SPECIFICATION Spec
CONSTANTS
    low = low
    middle = middle
    high = high
    Pods <- ThreePods
    Cores = {0, 1}
    OtherCores = {}
    MaxMillis = 12
    NoEntry = NoEntry
    Crit <- MCCrit
    SpecCores <- SameCore
    LowMillis <- MCLowMillis
    HiMillis <- MCHiMillis
    Threshold = 18
    ApiMayFail = FALSE
    MaxEvents = 1
    NoPod = NoPod
PROPERTIES
    PreemptionMovesElsewhere
CHECK_DEADLOCK FALSE
