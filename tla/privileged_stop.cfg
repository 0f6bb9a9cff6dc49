SPECIFICATION Spec
CONSTANTS
    None = None
    Streak = 2
    Budget = 1
    MaxStarts = 2
    MaxTroubles = 0
    MaxExits = 0
    MaxCalls = 2
    MaxQuits = 0
PROPERTY GoneMeansGone
CHECK_DEADLOCK FALSE
