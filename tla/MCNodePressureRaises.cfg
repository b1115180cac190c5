SPECIFICATION Spec
CONSTANTS
    a = a
    b = b
    m = m
    h = h
    g1 = g1
    g2 = g2
    Pods = {a, b, m}
    Tier <- MCTier
    StartMilli <- SmallSidecar
    MinMilli = 10
    Goroutines = {g1, g2}
    OverSecs = {1, 8, 10}
    Allowed = {}
    MaxEvents = 1
PROPERTIES
    DegradationNeverRaises
CHECK_DEADLOCK FALSE
