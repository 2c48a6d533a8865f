SPECIFICATION Spec
CONSTANTS
    r1 = r1
    r2 = r2
    None = None
    Bodies = {b1}
    Runs = {r1, r2}
    CompletedAt <- MCCompletedAt
    ScanStatus <- MCScanStatus
    ScopesComplete <- MCScopesComplete
    MaxTime = 3
    Stage2 = TRUE
CHECK_DEADLOCK FALSE
INVARIANTS
    TypeOK
    ServedNotFailed
    SuccessHolds
    FailureVisible
PROPERTIES
    EveryScanAccounted
