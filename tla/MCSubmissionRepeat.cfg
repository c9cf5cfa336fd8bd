\* Two identical uploads at once, room for one attempt.
SPECIFICATION Spec
CONSTANTS
    a1 = a1
    d1 = d1
    d2 = d2
    n1 = n1
    q1 = q1
    q2 = q2
    q3 = q3
    Accounts = {a1}
    Docs = {d1}
    Names = {n1}
    Requests = {q1, q2}
    Limit <- OneLimited
    Window = 2
    StuckQueued = 9
    StuckRunning = 9
    Outcomes = {"compliant"}
    MaxVersion = 1
    MaxTime = 1
    MaxCrashes = 0
PROPERTIES
    RepeatNeverTurnedAway
CHECK_DEADLOCK FALSE
