CONSTANTS
    Events = {e1, e2, e3}
    Policies <- BothPolicies
    MaxClock = 1
    MaxCrashes = 1
SPECIFICATION Spec
INVARIANTS
    NeverMarkedIsUndelivered
    MarksOutsideSweepsSurvive
PROPERTIES
    SweepRemovesOnlyDelivered
CHECK_DEADLOCK FALSE
