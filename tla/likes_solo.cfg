SPECIFICATION FairSpec
CONSTANTS
    author = author
    reader = reader
    User = {author}
    Author = author
    NoDoc = NoDoc
    Nothing = Nothing
    Closed = Closed
    Unfetched = Unfetched
    Window = 3
    MaxTaps = 3
    MaxVisits = 2
    MaxEdits = 0
    MaxDeletes = 0
    MaxRestarts = 1
INVARIANTS TypeOK LikeRecorded MirrorAgrees CheckTruthful
PROPERTY LikeArrives
CHECK_DEADLOCK FALSE
