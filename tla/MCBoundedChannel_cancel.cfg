SPECIFICATION FairSpec
CONSTANTS
    s1 = s1
    r1 = r1
    Senders = {s1}
    Receivers = {r1}
    Cancellable = {r1}
    Capacity = 1
    MaxSends = 1
    MaxRecvs = 1
    MayThrow = FALSE
PROPERTIES
    CancellationReleases
CHECK_DEADLOCK FALSE
