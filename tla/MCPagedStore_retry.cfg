SPECIFICATION Spec
CONSTANTS
    MaxPages = 2
    MaxClock = 3
    MaxSeq = 3
    ClearsAny = FALSE
    ChecksHeader = TRUE
    CrashKinds = {{"kill"}}
    FailPoints = {"writing"}
INVARIANTS
    RecoveredWhole
CHECK_DEADLOCK FALSE
