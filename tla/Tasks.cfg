SPECIFICATION FairSpec
CONSTANTS
    o1 = o1
    o2 = o2
    Offers <- OneOffer
    Sends = 2
    Permits = 1
    MaxClicks = 1
INVARIANTS
    TypeOK
    PauseNotRecorded
    PendingHasWaiter
PROPERTIES
    SendsEnd
    OffersEnd
    
CHECK_DEADLOCK FALSE
