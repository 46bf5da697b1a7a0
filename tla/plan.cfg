SPECIFICATION Spec
CONSTANTS
    db = db
    data = data
    cache = cache
    local = local
    nas = nas
    tape = tape
    Elsewhere = Elsewhere
    Nowhere = Nowhere
    Omitted = Omitted
    Segments = {"srv", "media", "home"}
    NoMount = NoMount
    NoOp = NoOp
    Paths = {db, data, cache}
    Storages = {local, nas, tape}
    HostPaths <- MCHostPaths
    DefaultStorage = local
    TagSelector = TRUE
    FirstConfigs <- MCFirstConfigs
    FirstSizes <- TwoDisks
    Documents <- MCDocuments
    DocTexts <- MCDocTexts
    LimitsInUse <- NasToo
    Slack = 1
    LastIndex = 2
    HumanOps = {"grow", "detach", "attach", "tags"}
    MaxSize = 8
    MaxRuns = 3
    MaxUpsets = 2
INVARIANTS
    PlanTypeOK
    OneMountPerVolume
    Settled
    WithinLimits
PROPERTIES
    KeepsDisks
    BringsThere
CHECK_DEADLOCK FALSE
