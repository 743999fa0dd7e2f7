\* Two fibers, two slots and two owners, under each of the three policies.
SPECIFICATION Spec
CONSTANTS
    f1 = f1
    f2 = f2
    o1 = o1
    o2 = o2
    Fibers = {f1, f2}
    Owners = {o1, o2}
    Capacity = 2
    Overflows = {"DropNewest", "DropOldest", "Block"}
    MaxEvents = 2
INVARIANTS
    TypeOK
    NoSendOnClosed
    DropsAccountForLosses
    FiberOrder
    DrainedMeansDelivered
PROPERTIES
    StopEndsLoss
    RefusalNeedsRival
    ImplementsDelivery
    QueueIsDelivered
    CallsReturn
