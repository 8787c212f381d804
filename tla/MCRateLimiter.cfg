SPECIFICATION Spec
CONSTANTS
    r1 = r1
    r2 = r2
    r3 = r3
    r4 = r4
    None = None
    Requests = {r1, r2, r3, r4}
    MaxRequests = 2
    Window = 2
    Delay = 1
    MaxTime = 3
SYMMETRY Interchangeable
INVARIANTS
    RefusalIsEarned
    OverrunsAreRaces
CHECK_DEADLOCK FALSE
