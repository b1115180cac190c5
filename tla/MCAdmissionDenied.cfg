SPECIFICATION Spec
CONSTANTS
    Settings <- MCSettings
    NoSettings = NoSettings
    Tasks = {t1, t2}
    NoTask = NoTask
    NoRequest = NoRequest
    NoPod = NoPod
    MaxEvents = 5
INVARIANTS
    DeniedIsNotSent
CHECK_DEADLOCK FALSE
