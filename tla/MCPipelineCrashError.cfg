\* One worker killed, nothing else goes wrong.
SPECIFICATION Spec
CONSTANTS
    Runs = {1, 2}
    Transforms <- TwoTransforms
    Settings <- Always
    Overlap = FALSE
    MaxCrashes = 1
    MaxFaults = 0
    MaxFailures = 2
INVARIANTS
    CrashNeverFailsJob
\* Every delivery ends.
CHECK_DEADLOCK FALSE
