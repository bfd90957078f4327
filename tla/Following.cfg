\* For safety alone, three turns with SYMMETRY Symmetry are within reach.
CONSTANTS
    f1 = f1
    f2 = f2
    Follower = {f1, f2}
    MaxQueued = 1
    FirstFrame = 1
    MaxTurns = 2
SPECIFICATION FairSpec
CHECK_DEADLOCK FALSE
INVARIANTS
    NobodyForgotten
    RequestersServed
    GapIsNoticed
PROPERTIES
    Recovers
