SPECIFICATION FairSpec
CONSTANTS
    w1 = w1
    w2 = w2
    c1 = c1
    c2 = c2
    t1 = t1
    Workers = {w1, w2}
    Callers = {c1, c2}
    Waiters = {t1}
    Limits <- MCLimits
    MaxCalls = 3
    MaxControls = 1
    RetunesBusy = FALSE
INVARIANTS
    TypeOK
    FifoExecution
    ShutdownCompletes
    WorkerWakeups
    SpaceWakeups
    IdleWakeups
PROPERTIES
    BlockedReturn
    StopsReturn
CHECK_DEADLOCK FALSE
