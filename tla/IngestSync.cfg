CONSTANTS
    r1 = r1  r2 = r2  r3 = r3  k1 = k1  good = good  bad = bad
    Dispatcher = dispatcher
    Main = main
    None = none
    Keys = {k1}
    Triggers = {good, bad}
    Broken = {bad}
    Requests = {r1, r2}
    Operators = {op}
    Key <- PairKey
    Matches <- BothTriggers
    Async = FALSE
    Capacity = 1
    MaxAttempts = 2
    MaxFaults = 2
    MaxStops = 2
SPECIFICATION FairSpec
INVARIANTS
    DeliveredMeansTaken
    AcknowledgedIsStored
    StoredBeforeSubmitted
    RecoveredBeforeServing
    AnswerReportsHandling
PROPERTIES
    ImplementsDelivery
    EveryRequestAnswered
    StoppedEventsDelivered
CHECK_DEADLOCK FALSE
