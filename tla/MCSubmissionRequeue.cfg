\* An unlimited account (no lock), one document, attempts that look stuck.
SPECIFICATION Spec
CONSTANTS
    a1 = a1
    d1 = d1
    d2 = d2
    n1 = n1
    q1 = q1
    q2 = q2
    q3 = q3
    Accounts = {a1}
    Docs = {d1}
    Names = {n1}
    Requests = {q1, q2, q3}
    Limit <- NoLimit
    Window = 2
    StuckQueued = 1
    StuckRunning = 2
    Outcomes = {"error"}
    MaxVersion = 1
    MaxTime = 4
    MaxCrashes = 0
SYMMETRY Symmetry
INVARIANTS
    OneUnfinished
    ClaimsAreSpaced
    NoJobLost
CHECK_DEADLOCK FALSE
