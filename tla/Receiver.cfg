CONSTANTS
    Configs <- TwoConfigs
    Clients = {c1, c2}
    MaxEvents = 2
    Limit = 1
SPECIFICATION Spec
INVARIANTS
    RefusedHasNoEffect
    WalkIsFaithful
PROPERTY
    Drains
CHECK_DEADLOCK FALSE
