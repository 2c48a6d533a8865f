\* One run on the pull request as the workflow opens it.
SPECIFICATION Spec
CONSTANTS
    None = None

    Runs = {w1}
    Crews <- MCCrews
    Files <- MCFiles
    Format <- MCFormat
    Kind <- MCKind
    PathOrder <- MCPathOrder
    Orders <- MCOrders
    NamedPolicy = {"role.json"}
    Violations <- MCViolations
    Broken = {"{"}
    Undecodable = {}
    Malformed = {}
    MaxToolFaults = 1
    Sensitive = {".env"}
    Secret = {"token"}
    Base <- MCBase
    Edits <- MCEdits
    Plans <- MCPlans
    Targets <- MCTargets
    Commits <- MCCommits
    Pushes <- MCPushes
    Proposal = "more"
    Wordings = {"preview"}
    MaxReviews = 1
    Shapes = {"report", "malformed", "foreign"}
    Exceptions = {}
    Times = {0}
    Threshold = "HIGH"
INVARIANT DigestInBodyAccepted
CHECK_DEADLOCK FALSE
