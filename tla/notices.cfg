SPECIFICATION Spec
CONSTANTS
    me = me
    s1 = s1
    s2 = s2
    c1 = c1
    c2 = c2
    User = {me}
    Me = me
    Sender = {s1, s2}
    Cell = {c1, c2}
    First <- OneFan
    None = None
    NoDoc = NoDoc
    Nothing = Nothing
    Window = 1
    MaxNotices = 3
    MaxFetches = 2
    MaxTaps = 2
    MaxEvents = 2
INVARIANTS RowsTruthful ButtonTruthful LoaderExplained
CHECK_DEADLOCK FALSE
