SPECIFICATION Spec
CONSTANTS
    Tasks = {t1, t2}
    NoTask = NoTask
    MaxPushes = 3
    MaxStarts = 3
    MaxFaults = 2
SYMMETRY TaskSymmetry
INVARIANTS
    Durable
PROPERTIES
    OnlyChosen
CHECK_DEADLOCK FALSE
