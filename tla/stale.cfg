SPECIFICATION DaemonSpec
CONSTANTS
    d1 = d1
    s1 = s1
    data = data
    NoDocument = NoDocument
    Nothing = Nothing
    NoJob = NoJob
    Nobody = Nobody
    Guests = {101}
    Procs = {d1, s1}
    Loop = d1
    Documents <- MCDocuments
    Volumes = {data}
    Owners = {"0:0"}
    TagSelector = TRUE
    FirstDocuments <- MCFirst
    FirstConfigs <- Stored
    Edits <- Onward
    Starts = {"new"}
    Verbs = {"apply"}
    Disturbances = {}
    MaxEdits = 2
    MaxUpsets = 0
PROPERTIES
    NeverRegresses
