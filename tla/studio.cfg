SPECIFICATION FairSpec
CONSTANTS
    me = me
    t1 = t1
    t2 = t2
    User = {me}
    Me = me
    Pages = 2
    NoDoc = NoDoc
    Nothing = Nothing
    NoObject = NoObject
    Foreign = Foreign
    NoView = NoView
    Window = 1
    Title = {t1, t2}
    MaxSaves = 3
    MaxSetUps = 2
    MaxVisits = 2
    MaxTaps = 2
    MaxActs = 6
    MaxMishaps = 1
INVARIANTS PagesTruthful LoaderExplained SetUpTruthful
PROPERTIES UploadArrives
CHECK_DEADLOCK FALSE
