CONSTANTS
    Kind = {"stream", "snapshot", "huge"}
    Size <- MCSize
    TooLarge = {"huge"}
    MaxItems = 3
    MaxBytes = 5
    WriteRun = 2
    MergeLimit = 2
    MaxPushes = 4
    MaxPings = 1
SPECIFICATION FairSpec
CHECK_DEADLOCK FALSE
INVARIANTS
    BytesExact
PROPERTIES
    KeepsLanes
    ClosingEnds
