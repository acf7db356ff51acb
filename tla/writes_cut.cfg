SPECIFICATION Spec
CONSTANTS
    u1 = u1
    u2 = u2
    User = {u1}
    FirstUser = u1
    NoDoc = NoDoc
    Nothing = Nothing
    Window = 3
    CutShort = TRUE
    MaxWrites = 3
    MaxCalls = 0
    MaxFaults = 1
INVARIANTS RefusalTruthful
CHECK_DEADLOCK FALSE
