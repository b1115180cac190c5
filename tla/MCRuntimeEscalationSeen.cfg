SPECIFICATION Spec
CONSTANTS
    h1 = h1
    h2 = h2
    Handlers <- TwoHandlers
    LastContainer = 2
    Allowed = {"busy"}
    MaxEvents = 3
INVARIANTS
    RecoveryReverts
SYMMETRY Slots
CHECK_DEADLOCK FALSE
