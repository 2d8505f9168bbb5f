SPECIFICATION Spec
CONSTANTS
    p1 = p1
    p2 = p2
    n1 = n1
    n2 = n2
    n3 = n3
    Producers = {p1, p2}
    Nodes = {n1, n2, n3}
    MaxPushes = 3
    RingCapacity = 3
    MaxItems = 9
    ItemMayThrow = TRUE
INVARIANTS
    MpscTypeOK
    ChainLinked
    NodeLifetime
    HonestEmpty
    SlotLifetime
PROPERTIES
    MpscImplementsFifo
    EveryPushArrives
    SpscImplementsFifo
CHECK_DEADLOCK FALSE
