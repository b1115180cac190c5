SPECIFICATION Spec
CONSTANTS
    h1 = h1
    h2 = h2
    Handlers <- TwoHandlers
    LastContainer = 2
    Allowed = {"contextEnds"}
    MaxEvents = 1
INVARIANTS
    SettledRuntimeIsApplied
SYMMETRY Slots
CHECK_DEADLOCK FALSE
