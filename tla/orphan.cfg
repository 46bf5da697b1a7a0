SPECIFICATION SpecAtTerminal
CONSTANTS
    w1 = w1
    w2 = w2
    old = old
    new = new
    None = None
    Hole = Hole
    Nobody = Nobody
    Writers = {w1, w2}
    Readers = {r1}
    Texts = {old, new}
    Chunks = 2
    Disturbances = {"interrupt"}
    MaxWrites = 2
    MaxReads = 0
    MaxUpsets = 1
INVARIANTS
    NeverHalf
CHECK_DEADLOCK FALSE
