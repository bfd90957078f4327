CONSTANTS
    Delay = 1
    MaxAhead = 5
    Interval = 1
    Window = 2
    FrameTicks <- Ticks
    MaxFrames = 6
    MaxTurns = 1
SPECIFICATION FairSpec
CHECK_DEADLOCK FALSE
INVARIANTS
    InStep
    NothingDropped
    HashesTell
PROPERTIES
    NeverStuck
