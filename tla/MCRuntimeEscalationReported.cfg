SPECIFICATION Spec
CONSTANTS
    h1 = h1
    h2 = h2
    Handlers <- TwoHandlers
    LastContainer = 2
    Allowed = {"crChange"}
    MaxEvents = 2
INVARIANTS
    EscalationIsReported
SYMMETRY Slots
CHECK_DEADLOCK FALSE
