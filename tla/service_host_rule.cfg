SPECIFICATION PolledHostSpec
CONSTANTS
    Sessions = {s1}
    Pids = {p1}
    None = None
    MaxFaults = 0
    Lans = {lan}
    Tun = tun
    Programs = {v1}
    NoProgram = NoProgram
    MaxSlips = 0
    MaxFailures = 0
PROPERTIES
    RuleEndsWithCore
