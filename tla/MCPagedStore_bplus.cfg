SPECIFICATION Spec
CONSTANTS
    MaxPages = 2
    MaxClock = 3
    MaxSeq = 3
    ClearsAny = FALSE
    ChecksHeader = FALSE
    CrashKinds = {{"power"}}
    FailPoints = {}
INVARIANTS
    RecoveredWhole
CHECK_DEADLOCK FALSE
