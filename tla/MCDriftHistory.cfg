SPECIFICATION HistorySpec
CONSTANTS
    r1 = r1
    r2 = r2
    r3 = r3
    s1 = s1
    s2 = s2
    f1 = f1
    f2 = f2
    a = a
    b = b
    None = None
    Runs <- MCRuns
    Scopes <- MCScopes
    Fingerprints <- MCFingerprints
    ScopeOf <- MCScopeOf
    Signatures <- MCSignatures
    SortKey <- MCSortKey
SYMMETRY MCSymmetry
CHECK_DEADLOCK FALSE
INVARIANTS
    TypeOK
PROPERTIES
    DriftReplays
    BaselineProtected
