SPECIFICATION FairSpec
CONSTANTS
    s1 = s1
    s2 = s2
    r1 = r1
    r2 = r2
    Senders = {s1, s2}
    Receivers = {r1, r2}
    Cancellable = {r1}
    Capacity = 2
    MaxSends = 2
    MaxRecvs = 1
    MayThrow = TRUE
INVARIANTS
    TypeOK
    ClosedNobodySleeps
    ReceiverWakeups
    SenderWakeups
    ObserversAreCallers
    SenderOrder
PROPERTIES
    ImplementsFifo
    CloseReleases
CHECK_DEADLOCK FALSE
