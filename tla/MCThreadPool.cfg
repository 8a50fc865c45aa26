SPECIFICATION FairSpec
CONSTANTS
    t1 = t1
    t2 = t2
    t3 = t3
    k1 = k1
    k2 = k2
    k3 = k3
    Threads <- MCThreads
    Tasks <- MCTasks
    MinThreads = {0, 1}
    MaxThreads = 2
CHECK_DEADLOCK FALSE
INVARIANTS
    TypeOK
    WithinLimits
PROPERTIES
    AcceptedTaskRuns
    CleanShutdownEnds
