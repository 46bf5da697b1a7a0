SPECIFICATION StatusSpec
CONSTANTS
    s1 = s1
    s2 = s2
    data = data
    NoDocument = NoDocument
    Nothing = Nothing
    NoJob = NoJob
    Nobody = Nobody
    NoRow = NoRow
    Levels = {"pct", "docker", "both"}
    Guests = {101}
    Procs = {s1, s2}
    Documents <- MCDocuments
    Volumes = {data}
    Owners = {"0:0"}
    TagSelector = TRUE
    FirstDocuments <- MCFirstDocuments
    FirstConfigs <- MCFirstConfigs
    Edits <- MCEdits
    Starts = {"new", "bare", "applied"}
    Verbs = {"apply", "apply_no_up", "pct_apply", "docker_apply", "docker_upgrade", "compose"}
    Disturbances = {"fault", "crash", "config", "power", "untag", "inguest", "hand_edit"}
    MaxEdits = 2
    MaxUpsets = 1
SYMMETRY Shells
INVARIANTS
    TypeOK
    OneWriter
    MountsFirst
PROPERTIES
    NeverRegresses
    AppliedAtOnce
CHECK_DEADLOCK FALSE
