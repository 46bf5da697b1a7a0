SPECIFICATION Spec
CONSTANTS
    w1 = w1
    w2 = w2
    old = old
    new = new
    None = None
    Hole = Hole
    Nobody = Nobody
    Writers = {w1, w2}
    Readers = {r1}
    Texts = {old, new}
    Chunks = 2
    Disturbances = {"fail", "kill"}
    MaxWrites = 3
    MaxReads = 2
    MaxUpsets = 2
INVARIANTS
    FileTypeOK
    ReadsWhole
PROPERTIES
    Atomic
CHECK_DEADLOCK FALSE
