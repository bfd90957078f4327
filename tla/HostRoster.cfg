CONSTANTS
    c1 = c1
    c2 = c2
    c3 = c3
    Conn = {c1, c2, c3}
    MaxParticipants = 3
    MaxClosing = 1
    MayLeave = TRUE
    None = None
SPECIFICATION Spec
SYMMETRY Symmetry
CHECK_DEADLOCK FALSE
INVARIANTS
    Capacity
    EveryoneIsTold
    NoGhosts
    LeaveLeavesAtMostOne
PROPERTIES
    WelcomeFirst
