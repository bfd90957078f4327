CONSTANTS
    Files <- TheFiles
    PostLoad = 1
    Fallbacks <- OneOrTwo
    Settle = 1
    MaxLive = 2
SPECIFICATION Spec
INVARIANTS
    Faithful
    PlaysToItsEnd
    SeeksLand
