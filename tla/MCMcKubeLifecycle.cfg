SPECIFICATION FairSpec
CONSTANTS
    theirPod = theirPod
    CRs = {c1}
    Pods = {theirPod}
    Nodes = {n1, n2}
    PodOf <- MCPodOf
    NoNode = NoNode
    NoOne = NoOne
    MaxEvents = 4
INVARIANTS
    TypeOK
    EntriesHaveCR
    SettledAtRest
PROPERTIES
    ImplementsFinalizer
    DeletionEnds
    LiveIsBooked
CHECK_DEADLOCK FALSE
