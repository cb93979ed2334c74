SPECIFICATION FairSpec
CONSTANTS
    MaxRequests = 3
CHECK_DEADLOCK FALSE
INVARIANTS
    ToldInv
    OverlayFollows
PROPERTIES
    CallbackOrder
    TimedRequestsEnd
