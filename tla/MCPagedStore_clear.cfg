SPECIFICATION Spec
CONSTANTS
    MaxPages = 2
    MaxClock = 3
    MaxSeq = 3
    ClearsAny = TRUE
    ChecksHeader = TRUE
    CrashKinds = {{}}
    FailPoints = {}
INVARIANTS
    Reopens
CHECK_DEADLOCK FALSE
