SPECIFICATION Spec
CONSTANTS
    Modes = {"tun"}
    Backoff = 1
    MaxTasks = 1
    MaxLine = 2
    MaxRequests = 1
    MaxSignals = 0
PROPERTIES
    NoStaleWork
