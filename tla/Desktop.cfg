SPECIFICATION FairSpec
CONSTANTS
    p = p
    q = q
    r = r
    Nodes <- TwoNodes
    Calls <- OneCaller
    MaxConns = 2
    MaxLost = 1
INVARIANTS
    TypeOK
    AnsweredOnce
    
PROPERTIES
    
    CallsEnd
    
CHECK_DEADLOCK FALSE
