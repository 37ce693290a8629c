SPECIFICATION FairSpec
CONSTANTS
    Configs = {1}
    MaxLaunches = 2
    MaxDaemons = 2
    MaxCommands = 2
    MaxCrashes = 1
INVARIANTS
    TypeOK
    ActiveIsStored
PROPERTIES
    StatusSettles
CHECK_DEADLOCK FALSE
