SPECIFICATION Spec
CONSTANTS
    Chunk = 2
    First = 2
    MaxPost = 4
    MaxDeletions = 1
CHECK_DEADLOCK FALSE
INVARIANTS
    TypeOK
    NoTwins
    StagedIsResolved
    LoadedIsWindow
    NothingMissed
    NoGhosts
    NeverStuck
