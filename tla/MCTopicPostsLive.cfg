CONSTANTS
    r1 = r1
    r2 = r2
    r3 = r3
    Requests <- TwoRequests
    Ops <- Everything
    MaxNumber = 5
    InitialPosts <- MCInitialPosts
    Validity = 1
    MaxClock = 6
SPECIFICATION LiveSpec
CHECK_DEADLOCK FALSE
PROPERTIES
    EveryRequestEnds
