SPECIFICATION FairSpec
CONSTANTS
    h1 = h1
    h2 = h2
    Handlers <- OneHandler
    LastContainer = 2
    Allowed = {"restart", "busy", "crChange", "preempted", "podChange", "daemonFails", "apiFails", "contextEnds"}
    MaxEvents = 3
INVARIANTS
    OnlyARefusalParts
PROPERTIES
    EventuallyQuiet
CHECK_DEADLOCK FALSE
