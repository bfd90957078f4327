\* Three players; three requests, cables pulled or connections closed.
CONSTANTS
    Host = Host
    Client = {c1, c2}
    Nobody = Nobody
    MaxTurns = 3
SPECIFICATION Spec
SYMMETRY Symmetry
INVARIANTS
    OneCable
    RecordsHold
    UnlinkFirst
    PluggedTogether
CHECK_DEADLOCK FALSE
