SPECIFICATION Spec
CONSTANTS
    r1 = r1
    r2 = r2
    r3 = r3
    None = None
    Invocations = {w1, w2, w3}
    Runs <- MCRuns
    SortKey <- MCSortKey
    Complete <- MCComplete
    MaxHistory = 1
    LockTTL = 1
    Lifetime = 1
\* Sound for LockRecovers too: invocations and the clock only go forward, so that
\* only stuttering repeats a state, and Tick tells no invocation from another.
SYMMETRY Symmetry
CHECK_DEADLOCK FALSE
INVARIANTS
    TypeOK
    MutualExclusion
    IndexLoadable
    ReceiptsTrue
PROPERTIES
    BaselineKept
    ImplementsRunLog
    LockRecovers
