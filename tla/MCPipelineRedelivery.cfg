\* Deliveries one after another, one worker killed and one database fault.
SPECIFICATION LiveSpec
CONSTANTS
    Runs = {1, 2, 3}
    Transforms <- TwoTransforms
    Settings <- Either
    Overlap = FALSE
    MaxCrashes = 1
    MaxFaults = 1
    MaxFailures = 2
INVARIANTS
    RowsConsistent
    StatusHasEvidence
    ServedFileIsSound
    OneRoundOfWebhooks
    WorkIsAccountedFor
PROPERTIES
    ImplementsLifecycle
\* Every delivery ends.
CHECK_DEADLOCK FALSE
