SPECIFICATION Spec
CONSTANTS
    h1 = h1
    h2 = h2
    Handlers <- TwoHandlers
    LastContainer = 2
    Allowed = {"podChange"}
    MaxEvents = 4
INVARIANTS
    FreshPodIsNotHi
SYMMETRY Slots
CHECK_DEADLOCK FALSE
