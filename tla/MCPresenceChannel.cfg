SPECIFICATION Spec
CONSTANTS
    p1 = p1
    p2 = p2
    u1 = u1
    u2 = u2
    c1 = c1
    c2 = c2
    c3 = c3
    Procs = {p1, p2}
    Sessions <- MCSessions
    Timeout = 1
    MaxTime = 3
    MaxChanges = 2
SYMMETRY Symmetry
CHECK_DEADLOCK FALSE
INVARIANTS
    TypeOK
    HashCountsSessions
    ChannelDueInTime
    PublishedInSequence
    ViewerIsRight
