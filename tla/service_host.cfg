SPECIFICATION HostSpec
CONSTANTS
    Sessions = {s1}
    Pids = {p1}
    None = None
    MaxFaults = 1
    Lans = {lan}
    Tun = tun
    Programs = {v1}
    NoProgram = NoProgram
    MaxSlips = 1
    MaxFailures = 1
INVARIANTS
    RuleFollowsCore
PROPERTIES
    ForwardingEndsWithCore
    ForwardingReapplied
    ExitLeavesNothing
