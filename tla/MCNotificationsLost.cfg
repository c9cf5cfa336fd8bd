\* A subscriber registers while the run ends.
SPECIFICATION LiveSpec
CONSTANTS
    u1 = u1
    Urls = {u1}
    Requests = {1}
    Runs = {1}
    MaxAttempts = 2
    MaxCrashes = 0
PROPERTIES
    EveryCallerNotified
\* Every task ends and nobody submits any more.
CHECK_DEADLOCK FALSE
