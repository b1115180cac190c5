SPECIFICATION Spec
CONSTANTS
    h1 = h1
    h2 = h2
    Handlers <- TwoHandlers
    LastContainer = 2
    Allowed = {"busy", "restart", "crChange", "preempted", "podChange", "apiFails", "contextEnds"}
    MaxEvents = 4
INVARIANTS
    TypeOK
    OnlyARefusalParts
PROPERTIES
    LowIsNotReportedOfHi
SYMMETRY Slots
CHECK_DEADLOCK FALSE
