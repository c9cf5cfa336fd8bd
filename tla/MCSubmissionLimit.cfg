\* A limited account, one attempt allowed per period, no re-queueing in reach.
SPECIFICATION Spec
CONSTANTS
    a1 = a1
    d1 = d1
    d2 = d2
    n1 = n1
    q1 = q1
    q2 = q2
    q3 = q3
    Accounts = {a1}
    Docs = {d1, d2}
    Names = {n1}
    Requests = {q1, q2, q3}
    Limit <- OneLimited
    Window = 2
    StuckQueued = 9
    StuckRunning = 9
    Outcomes = {"compliant", "error"}
    MaxVersion = 1
    MaxTime = 3
    MaxCrashes = 1
SYMMETRY Symmetry
INVARIANTS
    TypeOK
    LimitRespected
    DecisionIsCurrent
    SourceStored
    LimitedNeverErrors
CHECK_DEADLOCK FALSE
