\* Two requests of a limited account, two pipeline versions, one crash.
SPECIFICATION LiveSpec
CONSTANTS
    a1 = a1
    d1 = d1
    d2 = d2
    n1 = n1
    q1 = q1
    q2 = q2
    q3 = q3
    Accounts = {a1}
    Docs = {d1}
    Names = {n1}
    Requests = {q1, q2}
    Limit <- OneLimited
    Window = 2
    StuckQueued = 1
    StuckRunning = 1
    Outcomes = {"noncompliant"}
    MaxVersion = 2
    MaxTime = 2
    MaxCrashes = 1
PROPERTIES
    EveryRequestAnswered
    JobFinishes
CHECK_DEADLOCK FALSE
