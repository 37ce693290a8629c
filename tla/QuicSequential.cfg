SPECIFICATION Spec
CONSTANTS
    a = a
    b = b
    x = x
    Hole = Hole
    Blocks <- ABlocks
    N = 2
    Contents <- TwoFiles
    MaxPath = 3
    DiskFails = FALSE
    UserPaths <- AnyPath
    AutoAccept = FALSE
    Overlap = FALSE
    SlowLink = FALSE
    MaxEdits = 0
    MaxLost = 1
    Moves = {"pause", "cancelSend", "reject", "cancelRecv", "remove"}
INVARIANTS
    TypeOK
    SentMeansDelivered
    PauseLeavesNoFailure
PROPERTIES
    PartialSurvives
CHECK_DEADLOCK FALSE
