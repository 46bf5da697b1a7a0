SPECIFICATION Spec
CONSTANTS
    w1 = w1
    w2 = w2
    n1 = n1
    n2 = n2
    nas = nas
    Unset = Unset
    Keep = Keep
    Absent = Absent
    Blank = Blank
    Garbled = Garbled
    Kilo = 4
    Tenths = 10
    Digits = 10
    Writers = {w1, w2}
    Nodes = {n1, n2}
    On <- MCOn
    Storages = {nas}
    SizesTyped <- WholeKiB
    LimitSets = {"loose", "tight"}
    DefaultLimits = "loose"
    DefaultRootfs <- MCDefaultRootfs
    FirstFiles <- MCFirstFiles
    HandTexts <- MCHandTexts
    MaxCalls = 3
    MaxUpsets = 1
INVARIANTS
    ConfigTypeOK
    NeverBlank
    RootDiskFits
PROPERTIES
    ChangesOnlyItsKeys
CHECK_DEADLOCK FALSE
