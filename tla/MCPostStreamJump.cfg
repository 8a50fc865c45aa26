SPECIFICATION Spec
CONSTANTS
    Chunk = 1
    First = 3
    MaxPost = 3
    MaxDeletions = 0
CHECK_DEADLOCK FALSE
PROPERTY AppendsNextWindow
