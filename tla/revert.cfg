SPECIFICATION FairDaemonSpec
CONSTANTS
    d1 = d1
    s1 = s1
    data = data
    NoDocument = NoDocument
    Nothing = Nothing
    NoJob = NoJob
    Nobody = Nobody
    Guests = {101}
    Procs = {d1}
    Loop = d1
    Documents <- BackDocuments
    Volumes = {data}
    Owners = {"0:0"}
    TagSelector = TRUE
    FirstDocuments <- MCFirst
    FirstConfigs <- Stored
    Edits <- Back
    Starts = {"applied"}
    Verbs = {}
    Disturbances = {}
    MaxEdits = 2
    MaxUpsets = 0
PROPERTIES
    DocumentsLand
