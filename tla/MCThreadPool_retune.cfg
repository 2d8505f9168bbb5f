SPECIFICATION FairSpec
CONSTANTS
    w1 = w1
    c1 = c1
    c2 = c2
    Workers = {w1}
    Callers = {c1, c2}
    Waiters = {}
    Limits <- MCLimits
    MaxCalls = 2
    MaxControls = 1
    RetunesBusy = TRUE
PROPERTIES
    BlockedReturn
CHECK_DEADLOCK FALSE
