SPECIFICATION Spec
CONSTANTS
    MaxTroubles = 1
    MaxRequests = 2
    MaxOutages = 2
    MaxExits = 1
CONSTRAINT Calm
INVARIANTS
    NoDeadPort
    TunStatusTrue
    LateReadinessFenced
    EpisodeKept
PROPERTIES
    TunSettles
    HostReturns
    ProxyReturns
    OutageSafe
CHECK_DEADLOCK FALSE
