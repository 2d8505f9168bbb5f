SPECIFICATION FairSpec
CONSTANTS
    e1 = e1
    e2 = e2
    c1 = c1
    c2 = c2
    Events = {e1, e2}
    Clients = {c1, c2}
    MaxTime = 2
    MaxCalls = 4
    Requeues = TRUE
INVARIANTS
    TimeoutTypeOK
    Bookkeeping
    WorkerSafe
    EmptyWakeups
PROPERTIES
    StartsInTime
    EventsFire
    ShutdownDrains
CHECK_DEADLOCK FALSE
