SPECIFICATION FairSpec
CONSTANTS
    artist = artist
    reader = reader
    User = {artist, reader}
    Artist = artist
    NoDoc = NoDoc
    Nothing = Nothing
    Closed = Closed
    Window = 1
    MaxTaps = 3
    MaxVisits = 2
    MaxUploads = 1
    MaxFaults = 1
    MaxActs = 4
INVARIANTS PlacesAgree HeaderTruthful FeedAgrees
PROPERTIES FeedArrives
CHECK_DEADLOCK FALSE
