CONSTANTS
    d = d
    p1 = p1
    p2 = p2
    Streams <- OneTrojan
    Addresses <- Three
    Direct = d
    ProxyIPs <- List
    MaxReads = 3
    MaxDown = 1
SPECIFICATION Spec
INVARIANT PartialHeaderIsWaitedFor
CHECK_DEADLOCK FALSE
