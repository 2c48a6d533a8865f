SPECIFICATION Spec
CONSTANTS
    None = None
    Failed = Failed
    Unread = Unread
    MaxKeyAge = 90
    CriticalKeyAge = 180
    UnusedKeyDays = 45
    a1 = a1
    a2 = a2
    r1 = r1
    r2 = r2
    Accounts <- MCAccounts
    Regions <- MCRegions
    Services <- MCServices
    Threshold = "HIGH"
    Invocations <- MCInvocations
    Estates <- MCEstates
    Options <- MCOptions
    MaxChanges = 1
    MaxFaults = 1
    MaxKills = 1
INVARIANTS CoverageExact ErrorsOnlyObscure
PROPERTIES ResolvedIsReal SkipsOnlyWhileRunning
CHECK_DEADLOCK FALSE
