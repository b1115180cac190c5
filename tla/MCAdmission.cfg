SPECIFICATION FairSpec
CONSTANTS
    Settings <- MCSettings
    NoSettings = NoSettings
    Tasks = {t1, t2}
    NoTask = NoTask
    NoRequest = NoRequest
    NoPod = NoPod
    MaxEvents = 4
INVARIANTS
    TypeOK
    AdmittedAmounts
    CoresAsWritten
    OwnGoroutineAttends
PROPERTIES
    TasksEnd
CHECK_DEADLOCK FALSE
