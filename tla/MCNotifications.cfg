\* Two requests of one subscriber, two deliveries, one process killed or save failed.
SPECIFICATION LiveSpec
CONSTANTS
    u1 = u1
    Urls = {u1}
    Requests = {1, 2}
    Runs = {1, 2}
    MaxAttempts = 2
    MaxCrashes = 1
INVARIANTS
    NoticesBounded
    ReportsFinished
PROPERTIES
    InTimeIsNotified
\* Every task ends and nobody submits any more.
CHECK_DEADLOCK FALSE
