SPECIFICATION Spec
CONSTANTS
    low = low
    middle = middle
    high = high
    Pods <- TwoPods
    Cores = {0, 1}
    OtherCores = {2}
    MaxMillis = 12
    NoEntry = NoEntry
    Crit <- MCCrit
    SpecCores <- BothCores
    LowMillis <- MCLowMillis
    HiMillis <- MCHiMillis
    Threshold = 18
    ApiMayFail = FALSE
    MaxEvents = 2
    NoPod = NoPod
INVARIANTS
    UsageIsExact
CHECK_DEADLOCK FALSE
