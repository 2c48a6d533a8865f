\* One scan, of a tree as it may have become.
SPECIFICATION Spec
CONSTANTS
    None = None
    w1 = w1

    Runs = {w1}
    Crews <- MCCrews
    Files <- MCFiles
    Format <- MCFormat
    Kind <- MCKind
    PathOrder <- MCPathOrder
    Orders <- MCOrders
    NamedPolicy = {"iam.json"}
    Violations <- MCViolations
    Broken = {"{"}
    Undecodable = {"latin-1"}
    Malformed = {"no kind"}
    MaxToolFaults = 1
    Sensitive = {}
    Secret = {}
    Base <- MCBase
    Edits <- MCEdits
    Plans <- MCPlans
    Targets <- MCTargets
    Commits <- MCCommits
    Pushes <- MCPushes
    Proposal = "fix"
    Wordings = {"Preview"}
    MaxReviews = 0
    Shapes = {"report"}
    Exceptions <- MCExceptions
    Times = {0, 1, 2}
    Threshold = "HIGH"
INVARIANT PassIsThorough
CHECK_DEADLOCK FALSE
