SPECIFICATION Spec
CONSTANTS
    o1 = o1
    o2 = o2
    Offers <- TwoOffers
    Sends = 0
    Permits = 1
    MaxClicks = 0
PROPERTIES
    AnswerReaches
CHECK_DEADLOCK FALSE
