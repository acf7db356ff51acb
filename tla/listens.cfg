SPECIFICATION Spec
CONSTANTS
    MaxDocs = 2
    MaxResolutions = 1
    MaxListeners = 2
    MaxMishaps = 3
    WireBound = 1
INVARIANTS ViewTruthful OutstandingExact LimboSound AssertsHold Settles EventsOnce
CONSTRAINT FewerEachTime
CHECK_DEADLOCK FALSE
