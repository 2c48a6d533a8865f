\* Two runs on one source and in one output directory.
SPECIFICATION Spec
CONSTANTS
    None = None

    Runs = {w1, w2}
    Crews <- MCCrews
    Files <- MCFiles
    Format <- MCFormat
    Kind <- MCKind
    PathOrder <- MCPathOrder
    Orders <- MCOrders
    NamedPolicy = {"role.json"}
    Violations <- MCViolations
    Broken = {"{"}
    Undecodable = {}
    Malformed = {}
    MaxToolFaults = 1
    Sensitive = {".env"}
    Secret = {"token"}
    Base <- MCBase
    Edits <- MCEdits
    Plans <- MCPlans
    Targets <- MCTargets
    Commits <- MCCommits
    Pushes <- MCPushes
    Proposal = "more"
    Wordings = {"Preview"}
    MaxReviews = 1
    Shapes = {"report", "malformed", "foreign"}
    Exceptions = {}
    Times = {0}
    Threshold = "HIGH"
SYMMETRY Workers
INVARIANTS TypeOK PassVouches ApprovedCommit
CHECK_DEADLOCK FALSE
