CONSTANTS
    g1 = g1
    Game = {g1}
    None = None
    RingCapacity = 1
    MaxActs = 3
SPECIFICATION Spec
CHECK_DEADLOCK FALSE
INVARIANTS
    UndoneWhereMade
