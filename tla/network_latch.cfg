SPECIFICATION Spec
CONSTANTS
    MaxTroubles = 0
    MaxRequests = 2
    MaxOutages = 1
    MaxExits = 0
PROPERTY LatchEnds
CHECK_DEADLOCK FALSE
