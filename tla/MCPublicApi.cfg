CONSTANTS
    r1 = r1
    r2 = r2
    r3 = r3
    None = None
    Runs <- MCRuns
    Bodies = {b1, b2}
    Workers = {w1}
    CompletedAt <- MCCompletedAt
    ScanStatus <- MCScanStatus
    ScopesComplete <- MCScopesComplete
    Times <- MCTimes
    Readers = {u1}
    AccessModes = {"public", "invite_only", "unusable"}
    MaxRequests = 2
SPECIFICATION Spec
SYMMETRY MCSymmetry
INVARIANTS TypeOK TornReadsCatchUp ServedOnceShown ShownIsPublished NeverBack
