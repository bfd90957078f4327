CONSTANTS
    MaxCommands = 8
    MaxDeaths = 1
SPECIFICATION FairSpec
INVARIANTS OneHolder InOrder LeftClean
PROPERTIES CallsReturn
CHECK_DEADLOCK FALSE
