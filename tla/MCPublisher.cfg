SPECIFICATION Spec
CONSTANTS
    r1 = r1
    r2 = r2
    r3 = r3
    r4 = r4
    None = None
    Workers = {w1, w2}
    Bodies = {b1, b2}
    Runs <- MCRuns
    CompletedAt <- MCCompletedAt
    ScanStatus <- MCScanStatus
    ScopesComplete <- MCScopesComplete
    Times <- MCTimes
SYMMETRY Symmetry
INVARIANTS
    TypeOK
    PointerServable
    StatusNotAhead
    RepliesHonest
PROPERTIES
    StatusNeverRegresses
    ImplementsPublicSite
