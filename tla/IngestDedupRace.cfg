CONSTANTS
    r1 = r1  r2 = r2  r3 = r3  k1 = k1  good = good  bad = bad
    Dispatcher = dispatcher
    Main = main
    None = none
    Keys = {k1}
    Triggers = {good, bad}
    Broken = {bad}
    Requests = {r1, r2}
    Operators = {}
    Key <- PairKey
    Matches <- GoodTrigger
    Async = FALSE
    Capacity = 1
    MaxAttempts = 1
    MaxFaults = 0
    MaxStops = 0
SPECIFICATION Spec
INVARIANTS
    OneCopyPerKey
CHECK_DEADLOCK FALSE
