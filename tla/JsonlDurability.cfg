CONSTANTS
    Records = {r1, r2}
    HasParent = FALSE
    Faults = {"create", "write", "sync", "drain", "compact"}
    MaxFaults = 1
    MaxKills = 2
    MaxLosses = 1
SPECIFICATION Spec
INVARIANTS
    AcknowledgedIsDurable
CHECK_DEADLOCK FALSE
