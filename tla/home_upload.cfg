SPECIFICATION HomeSpec
CONSTANTS
    Type = {"ACTION"}
    Unused = Unused
    Deleted = Deleted
    MaxToons = 1
    MaxFetches = 2
    MaxMishaps = 0
    MaxUploads = 1
PROPERTIES UploadRefreshes
CHECK_DEADLOCK FALSE
