SPECIFICATION FairSpec
CONSTANTS
    low = low
    middle = middle
    high = high
    Pods <- TwoPods
    Cores = {0, 1}
    OtherCores = {}
    MaxMillis = 12
    NoEntry = NoEntry
    Crit <- MCCrit
    SpecCores <- SameCore
    LowMillis <- MCLowMillis
    HiMillis <- MCHiMillis
    Threshold = 18
    ApiMayFail = TRUE
    MaxEvents = 3
    NoPod = NoPod
INVARIANTS
    LivePodsAreBooked
PROPERTIES
    EventuallyQuiet
CHECK_DEADLOCK FALSE
