SPECIFICATION Spec
CONSTANTS
    q1 = q1
    q2 = q2
    q3 = q3
    s1 = s1
    s2 = s2
    Global = Global
    Questions <- MCQuestions
    Sessions <- MCSessions
    SessionLimit = 1
    DailyCap = 2
    MaxDay = 1
    MaxLost = 1
SYMMETRY MCSymmetry
CHECK_DEADLOCK FALSE
INVARIANTS
    TypeOK
    SpendCapped
    AllowanceShared
PROPERTIES
    SwitchHolds
