\* A second delivery while the first still runs.
SPECIFICATION Spec
CONSTANTS
    Runs = {1, 2}
    Transforms <- TwoTransforms
    Settings <- Always
    Overlap = TRUE
    MaxCrashes = 0
    MaxFaults = 0
    MaxFailures = 2
PROPERTIES
    FinishedIsFinal
\* Every delivery ends.
CHECK_DEADLOCK FALSE
