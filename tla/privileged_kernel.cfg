SPECIFICATION Spec
CONSTANTS
    None = None
    Streak = 2
    Budget = 1
    MaxStarts = 2
    MaxTroubles = 2
    MaxExits = 1
    MaxCalls = 2
    MaxQuits = 1
INVARIANTS
    StoppedIsStopped
    RunningIsOwned
    QuitLeavesNoCore
    NoticeKept
PROPERTIES
    ExitNoticed
    ExitRecovered
    ServiceKeepsLease
CHECK_DEADLOCK FALSE
