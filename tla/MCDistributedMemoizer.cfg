CONSTANTS
    p1 = p1
    p2 = p2
    p3 = p3
    Procs <- MCProcs
    GlobalRedis = {}
    Validities = {1}
    CheckReadonlyAttempts = 1
    MaxTime = 3
    MaxWait = 1
SYMMETRY Symmetry
SPECIFICATION MemoSpec
INVARIANTS
    MemoTypeOK
PROPERTIES
    ReplacedOnlyAfterOverrun
