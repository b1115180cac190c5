SPECIFICATION FairSpec
CONSTANTS
    theirPod = theirPod
    CRs = {c1, c2}
    Pods = {theirPod}
    Nodes = {n1}
    PodOf <- MCPodOf
    NoNode = NoNode
    NoOne = NoOne
    MaxEvents = 1
PROPERTIES
    LiveIsBooked
CHECK_DEADLOCK FALSE
