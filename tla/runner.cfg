SPECIFICATION FairSpec
CONSTANTS
    Modes = {"run", "stream", "stream_tty"}
    MaxWritten = 3
    Cap <- MCCap
INVARIANTS
    RunnerTypeOK
    OkIsWhole
    KilledWhole
PROPERTIES
    Ends
CHECK_DEADLOCK FALSE
