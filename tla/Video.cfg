SPECIFICATION BusySpec
CONSTANTS
    Sizes <- ThreeSizes
    Limit <- Small
    Gop = 2
    Room = 1
    Lag = 0
    MaxCaptures = 2
    MaxResizes = 1
    MaxDecoders = 2
INVARIANTS
    TypeOK
PROPERTIES
    FedInOrder
    
    
