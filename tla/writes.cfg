SPECIFICATION Spec
CONSTANTS
    u1 = u1
    u2 = u2
    User = {u1, u2}
    FirstUser = u1
    NoDoc = NoDoc
    Nothing = Nothing
    Window = 2
    CutShort = FALSE
    MaxWrites = 3
    MaxCalls = 2
    MaxFaults = 1
INVARIANTS AnswersMatch StreamSound HeardTruthful
PROPERTIES WritesLand Implements
CHECK_DEADLOCK FALSE
