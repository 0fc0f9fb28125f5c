CONSTANTS
    Workers = {w1, w2}
    HttpWorkers = {w1}
    Jobs = {j1, j2}
    Configured = {j1}
    Statuses = {200, 404, 500}
    ExitCodes = {0, 2, 3}
    TerminalStatuses = {200, 404}
    TerminalExitCodes = {2}
    MaxAttempts = 2
    Lease = 2
    Deadline = 3
    MaxFaults = 1
SPECIFICATION Spec
INVARIANTS
    TypeOK
    HeartbeatKeepsLease
    DeadLetterJustified
    AckedWasDone
PROPERTIES
    EveryJobSettles
    WorkersComeBack
