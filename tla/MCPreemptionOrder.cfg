SPECIFICATION Spec
CONSTANTS
    low = low
    middle = middle
    high = high
    Pods <- ThreePods
    Cores = {0, 1}
    OtherCores = {2}
    MaxMillis = 12
    NoEntry = NoEntry
    Crit <- MCCrit
    SpecCores <- MixedCores
    LowMillis <- MCLowMillis
    HiMillis <- MCHiMillis
    Threshold = 18
    ApiMayFail = FALSE
    MaxEvents = 1
    NoPod = NoPod
INVARIANTS
    TypeOK
    NeverUndercounts
PROPERTIES
    ImplementsPool
    LeakIsForGood
    LeaksOnlyByMigration
    PreemptionOrder
    MigrationWithinThreshold
CHECK_DEADLOCK FALSE
