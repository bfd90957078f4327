CONSTANTS
    h = h
    c1 = c1
    c2 = c2
    Host = h
    Client = {c1, c2}
    Modes = {"off", "host only", "everyone"}
    Choices = {TRUE, FALSE}
    MaxChanges = 2
    MaxSettings = 1
    MaxResets = 1
SPECIFICATION Spec
CHECK_DEADLOCK FALSE
SYMMETRY Symmetry
INVARIANTS
    PausesAgree
    NoEcho
