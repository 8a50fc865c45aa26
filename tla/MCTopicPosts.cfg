CONSTANTS
    r1 = r1
    r2 = r2
    r3 = r3
    Requests <- ThreeRequests
    Ops <- Unclosed
    MaxNumber = 6
    InitialPosts <- MCInitialPosts
    Validity = 1
    MaxClock = 2
SPECIFICATION Spec
CHECK_DEADLOCK FALSE
SYMMETRY Symmetry
INVARIANTS
    TypeOK
    CreationsSucceed
    DeadlocksNeedQuoteOrDeletion
    CreationsCount
PROPERTIES
    NextNumber
