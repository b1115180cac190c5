SPECIFICATION SpellSpec
CONSTANTS
    a = a
    b = b
    m = m
    h = h
    g1 = g1
    g2 = g2
    Pods = {a, b}
    Tier <- MCTier
    StartMilli <- EmptySidecar
    MinMilli = 10
    Goroutines = {g1, g2}
    OverSecs = {10}
    Allowed = {"busyChange"}
    MaxEvents = 1
INVARIANTS
    OneEvictionPerTier
CHECK_DEADLOCK FALSE
