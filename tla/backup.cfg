SPECIFICATION Spec
CONSTANTS
    db = db
    data = data
    cache = cache
    local = local
    nas = nas
    tape = tape
    Elsewhere = Elsewhere
    Nowhere = Nowhere
    Omitted = Omitted
    Segments = {"srv", "media", "home"}
    NoMount = NoMount
    NoOp = NoOp
    Paths = {db, data, cache}
    Storages = {local, nas, tape}
    HostPaths <- MCHostPaths
    DefaultStorage = local
    TagSelector = FALSE
    FirstConfigs <- FirstOnly
    FirstSizes <- NoDisks
    Documents <- MCDocuments
    DocTexts <- BothTexts
    LimitsInUse <- MCLimits
    Slack = 1
    LastIndex = 2
    HumanOps = {}
    MaxSize = 8
    MaxRuns = 3
    MaxUpsets = 0
INVARIANTS
    Settled
CHECK_DEADLOCK FALSE
