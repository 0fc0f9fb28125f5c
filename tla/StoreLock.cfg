CONSTANTS
    Processes = {p1, p2}
    MaxFiles = 2
SPECIFICATION Spec
INVARIANT HandlesOnPath
CHECK_DEADLOCK FALSE
