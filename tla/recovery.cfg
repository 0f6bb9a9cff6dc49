SPECIFICATION Spec
CONSTANTS
    Modes = {"tun"}
    Backoff = 1
    MaxTasks = 2
    MaxLine = 2
    MaxRequests = 1
    MaxSignals = 1
INVARIANTS
    CoordinatorTypeOK
    OneAttempt
    DebtCarried
PROPERTIES
    CancelledStandsStill
    FenceSeesIntent
    RetriesKept
