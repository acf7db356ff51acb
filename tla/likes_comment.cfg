SPECIFICATION Spec
CONSTANTS
    author = author
    reader = reader
    User = {author}
    Author = author
    NoDoc = NoDoc
    Nothing = Nothing
    Closed = Closed
    Unfetched = Unfetched
    Window = 1
    MaxTaps = 2
    MaxVisits = 2
    MaxEdits = 0
    MaxDeletes = 0
    MaxRestarts = 0
PROPERTIES CheckedHeartUnlikes
CHECK_DEADLOCK FALSE
