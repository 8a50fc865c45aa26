CONSTANTS
    Procs = {p1, p2}
    GlobalRedis = {p1}
    Validities = {1, 2}
    CheckReadonlyAttempts = 1
    MaxTime = 20
    MaxCalls = 3
SPECIFICATION LiveSpec
INVARIANTS
    TypeOK
    MutualExclusion
    HolderOwnsKey
    ExpireTimesDiffer
PROPERTIES
    OnlyHolderReleases
    ImplementsLease
    GetLockEnds
