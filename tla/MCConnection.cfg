CONSTANTS
    d = d
    p1 = p1
    p2 = p2
    Streams <- AllStreams
    Addresses <- Three
    Direct = d
    ProxyIPs <- List
    MaxReads = 3
    MaxDown = 1
SPECIFICATION FairSpec
INVARIANTS WaitsForHeaderOnly ReadsWhatIsThere PayloadOnce DialsWell
PROPERTY EndsCounted
CHECK_DEADLOCK FALSE
