SPECIFICATION FairSpec
CONSTANTS
    a = a
    b = b
    x = x
    Hole = Hole
    Blocks <- ABlocks
    N = 2
    Contents <- Edited
    MaxPath = 2
    DiskFails = TRUE
    UserPaths <- NoChoice
    AutoAccept = TRUE
    Overlap = FALSE
    SlowLink = TRUE
    MaxEdits = 1
    MaxLost = 0
    Moves = {"cancelRecv", "removeRecv"}
INVARIANTS
    InStep
PROPERTIES
    Delivers
    AttemptsEnd
CHECK_DEADLOCK FALSE
