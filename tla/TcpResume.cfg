SPECIFICATION Spec
CONSTANTS
    a = a
    b = b
    x = x
    Hole = Hole
    Blocks <- ABlocks
    N = 2
    Contents <- OneFile
    MaxPath = 3
    DiskFails = FALSE
    AutoAccept = TRUE
    Overlap = FALSE
    MaxEdits = 0
    MaxLost = 0
    MaxMoves = 2
    Moves = {"pause"}
INVARIANTS
    ResumeMatches
CHECK_DEADLOCK FALSE
