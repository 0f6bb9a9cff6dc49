SPECIFICATION Spec
CONSTANTS
    Targets = {t1}
    Others = {corp}
    None = None
    Causes = {}
    MaxFaults = 1
    MaxEdits = 0
INVARIANTS
    CrashRecoverable
