SPECIFICATION Spec
CONSTANTS
    low = low
    middle = middle
    high = high
    Pods <- OuterPods
    Cores = {0, 1}
    OtherCores = {}
    MaxMillis = 12
    NoEntry = NoEntry
    Crit <- MCCrit
    SpecCores <- SameCore
    LowMillis <- MCLowMillis
    HiMillis <- MCHiMillis
    Threshold = 18
    ApiMayFail = FALSE
    MaxEvents = 2
    NoPod = NoPod
PROPERTIES
    PreemptsOnlyBeyondThreshold
CHECK_DEADLOCK FALSE
