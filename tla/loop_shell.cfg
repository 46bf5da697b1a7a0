SPECIFICATION NewSpec
CONSTANTS
    d1 = d1
    s1 = s1
    data = data
    NoDocument = NoDocument
    Nothing = Nothing
    NoJob = NoJob
    Nobody = Nobody
    Guests = {101}
    Procs = {d1, s1}
    Loop = d1
    Documents <- PolicyDocuments
    Volumes = {data}
    Owners = {"0:0"}
    TagSelector = TRUE
    FirstDocuments <- MCFirst
    FirstConfigs <- Either
    Edits <- AllEdits
    Starts = {"new", "bare", "applied"}
    Verbs = {"apply", "docker_apply_no_up", "compose"}
    Disturbances = {"fault", "crash", "taken"}
    MaxEdits = 2
    MaxUpsets = 1
    MayBeMade = {101}
    InitialDocument <- DocN
    Leftovers <- MCFirst
INVARIANTS
    MountsFirst
PROPERTIES
    LoopNeverStarts
    PolicyObeyed
    ApplyConverges
    FirstApplyIsNews
    IntentKept
