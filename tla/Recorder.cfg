CONSTANTS
    BlobFrames = 1
    MaxReports = 5
    MaxQueue = 2
    MaxFinalFaults = 1
    MaxTempFaults = 0
    MaxPanics = 1
SPECIFICATION FairSpec
CHECK_DEADLOCK FALSE
INVARIANTS
    NeverLies
    NothingLost
    BookmarksFound
    ResumedTells
    InFlightExact
PROPERTIES
    CloseReturns
