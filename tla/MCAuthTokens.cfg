SPECIFICATION Spec
CONSTANTS
    r1 = r1
    r2 = r2
    r3 = r3
    Requests = {r1, r2, r3}
    Safeguard = 1
    Urgent = 2
    Rotate = 3
    MaxToken = 3
    MaxCrashes = 1
SYMMETRY Symmetry
CHECK_DEADLOCK FALSE
INVARIANTS
    TypeOK
    SeenWasPresented
    NeverAhead
    BrowserStaysLoggedIn
