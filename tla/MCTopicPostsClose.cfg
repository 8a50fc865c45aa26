CONSTANTS
    r1 = r1
    r2 = r2
    r3 = r3
    Requests <- TwoRequests
    Ops <- ReplyAndClose
    MaxNumber = 5
    InitialPosts <- MCInitialPosts
    Validity = 1
    MaxClock = 1
SPECIFICATION Spec
CHECK_DEADLOCK FALSE
INVARIANTS
    NoRollback
