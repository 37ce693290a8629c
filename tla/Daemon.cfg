SPECIFICATION FairSpec
CONSTANTS
    c1 = c1
    c2 = c2
    Conns <- TwoClients
    MaxRequests = 2
    MaxCrashes = 1
    MaxFaults = 1
INVARIANTS
    TypeOK
    SupervisorHeld
    DiskFollows
    
    
    NoTwoChildren
PROPERTIES
    SupervisorEnds
    ChildComesBack
CHECK_DEADLOCK FALSE
