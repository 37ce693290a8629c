SPECIFICATION FairSpec
CONSTANTS
    p = p
    q = q
    r = r
    Nodes <- ThreeNodes
    Calls <- OneHost
    MaxConns = 1
    MaxLost = 1
PROPERTIES
    SharingIsLive
CHECK_DEADLOCK FALSE
