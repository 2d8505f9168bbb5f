SPECIFICATION Spec
CONSTANTS
    MaxPages = 3
    MaxClock = 3
    MaxSeq = 3
    ClearsAny = FALSE
    ChecksHeader = TRUE
    CrashKinds = {{"kill"}, {"power"}}
    FailPoints = {"flushed", "unlinked"}
INVARIANTS
    TypeOK
    RecoveredWhole
    LogBeforePages
    Reopens
PROPERTIES
    SequenceMonotone
CHECK_DEADLOCK FALSE
