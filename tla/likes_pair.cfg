SPECIFICATION Spec
CONSTANTS
    author = author
    reader = reader
    User = {author, reader}
    Author = author
    NoDoc = NoDoc
    Nothing = Nothing
    Closed = Closed
    Unfetched = Unfetched
    Window = 1
    MaxTaps = 1
    MaxVisits = 1
    MaxEdits = 1
    MaxDeletes = 1
    MaxRestarts = 0
CONSTRAINT OneMenuUse
INVARIANTS LikeBounded NoticesMatchLikes EditKept
PROPERTIES NoResurrection
CHECK_DEADLOCK FALSE
