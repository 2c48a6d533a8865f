SPECIFICATION Spec
CONSTANTS
    a1 = a1
    a2 = a2
    None = None
    Captures = {c1, c2}
    Arns = {a1, a2}
    RoleStates <- MCRoleStates
    MaxTrouble = 2
SYMMETRY MCSymmetry
INVARIANTS
    HalvesAgree
    GateMeansVerified
