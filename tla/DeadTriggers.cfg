CONSTANTS
    e1 = e1  e2 = e2  t1 = t1  t2 = t2
    push = push  issue = issue  github = github
    None = none
    Ingester = ingester
    Operator = operator
    Events <- Both
    Stamp <- Times2
    Type <- Types
    Source <- OneSource
    Configs <- TwoConfigs
    Ranges <- TwoRanges
    Policies <- CountBound
    Times = {1}
    MaxStarts = 3
    MaxFailures = 4
SPECIFICATION Spec
INVARIANTS
    TypeOK
    NoneForgotten
    RetryLeavesNoDuplicates
    RetryReportMatchesQueue
CHECK_DEADLOCK FALSE
