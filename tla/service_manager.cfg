SPECIFICATION Spec
CONSTANTS
    Sessions = {s1, s2}
    Pids = {p1, p2}
    None = None
    MaxFaults = 2
INVARIANTS
    AccountedCores
    OneCore
    StoppedMeansNoCore
PROPERTIES
    CreatesOnlyVerified
    StopSparesForeign
    BlockedRecovers
    DeadOwnerForgotten
    ImplementsLease
