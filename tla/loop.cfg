SPECIFICATION FairDaemonSpec
CONSTANTS
    d1 = d1
    s1 = s1
    data = data
    NoDocument = NoDocument
    Nothing = Nothing
    NoJob = NoJob
    Nobody = Nobody
    Guests = {101, 102}
    Procs = {d1, s1}
    Loop = d1
    Documents <- MCDocuments
    Volumes = {data}
    Owners = {"0:0"}
    TagSelector = TRUE
    FirstDocuments <- MCFirst
    FirstConfigs <- Stored
    Edits <- Onward
    Starts = {"bare", "applied"}
    Verbs = {"compose"}
    Disturbances = {"fault", "crash", "power", "config", "untag"}
    MaxEdits = 1
    MaxUpsets = 1
INVARIANTS
    DaemonTypeOK
PROPERTIES
    VerbEnds
    DocumentsLand
