CONSTANTS
    g1 = g1
    Game = {g1}
    None = None
    RingCapacity = 1
    MaxActs = 3
SPECIFICATION FairSpec
CHECK_DEADLOCK FALSE
INVARIANTS
    ShowsWhatItSays
    EditsOnce
    ScanIsFresh
PROPERTIES
    ViewerCatchesUp
    NothingWaits
