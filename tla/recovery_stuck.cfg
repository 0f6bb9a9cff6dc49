SPECIFICATION Spec
CONSTANTS
    Modes = {"tun"}
    Backoff = 1
    MaxTasks = 2
    MaxLine = 1
    MaxRequests = 0
    MaxSignals = 1
PROPERTIES
    WakeRetries
