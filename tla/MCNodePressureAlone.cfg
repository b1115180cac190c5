SPECIFICATION SpellSpec
CONSTANTS
    a = a
    b = b
    m = m
    h = h
    g1 = g1
    g2 = g2
    Pods = {a, b, m, h}
    Tier <- MCTier
    StartMilli <- EmptySidecar
    MinMilli = 10
    Goroutines = {g1, g2}
    OverSecs = {1, 8, 10}
    Allowed = {"apiFails"}
    MaxEvents = 3
INVARIANTS
    TypeOK
    OneHandlerPerNode
    OneEvictionPerTier
PROPERTIES
    DegradationNeverRaises
    LowestFirst
    ImplementsLadder
CHECK_DEADLOCK FALSE
