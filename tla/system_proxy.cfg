SPECIFICATION Spec
CONSTANTS
    Targets = {t1}
    Others = {corp}
    None = None
    Causes = {"quit", "session"}
    MaxFaults = 1
    MaxEdits = 1
CONSTRAINT CalmSessionEnd
INVARIANTS
    ExactRestore
    RestoresUsers
    KernelStopSafe
    SessionEndSafe
PROPERTIES
    PassiveLeavesUser
    GuardRepairs
    ImplementsLoan
