SPECIFICATION FairSpec
CONSTANTS
    a = a
    b = b
    x = x
    Hole = Hole
    Blocks <- ABlocks
    N = 2
    Contents <- TwoFiles
    MaxPath = 2
    DiskFails = TRUE
    AutoAccept = FALSE
    Overlap = FALSE
    MaxEdits = 1
    MaxLost = 1
    MaxMoves = 2
    Moves = {"pause", "cancelSend", "remove", "reject", "cancelRecv", "removeRecv"}
INVARIANTS
    TypeOK
    FreshReceiveMatches
PROPERTIES
    Delivers
    
CHECK_DEADLOCK FALSE
