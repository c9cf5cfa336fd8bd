\* Three requests of one caller, windows that end and are cleaned up meanwhile.
SPECIFICATION Spec
CONSTANTS
    r1 = r1
    r2 = r2
    r3 = r3
    Requests = {r1, r2, r3}
    num_requests = 1
    max_failures = 1
    Window = 1
    EXPIRED_ROW_GRACE = 1
    MAX_HIT_ATTEMPTS = 2
    MaxTime = 3
SYMMETRY Symmetry
INVARIANTS
    TypeOK
    AllowedPerWindow
    NeverFewer
    RoundsArePaidFor
    LockoutOvershoot
PROPERTIES
    LiveWindowKept
\* Every request is answered and the clock stops at its bound.
CHECK_DEADLOCK FALSE
