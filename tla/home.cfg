SPECIFICATION HomeFairSpec
CONSTANTS
    Type = {"RECOM", "ACTION"}
    Unused = Unused
    Deleted = Deleted
    MaxToons = 2
    MaxFetches = 2
    MaxMishaps = 1
    MaxUploads = 1
INVARIANTS KindsAgree ListsSound
PROPERTIES ListedEventually
CHECK_DEADLOCK FALSE
