CONSTANTS
    Records = {r1, r2, r3}
    HasParent = TRUE
    Faults = {"create", "write", "sync", "drain", "compact"}
    MaxFaults = 1
    MaxKills = 2
    MaxLosses = 1
SPECIFICATION Spec
INVARIANTS
    TypeOK
    AcknowledgedSurvives
    RemovedStaysRemoved
    MemoryMatchesFile
PROPERTY
    ImplementsDurableLog
CHECK_DEADLOCK FALSE
