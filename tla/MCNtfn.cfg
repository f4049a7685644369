\* A bound server that receives, while others signal, bind, send and destroy.
CONSTANTS
    t1 = t1
    t2 = t2
    t3 = t3
    e1 = e1
    n1 = n1
    n2 = n2
    k1 = k1
    k2 = k2
    r1 = r1
    b1 = b1
    b2 = b2
    NoWait = NoWait
    NoTid = NoTid
    NoNtfn = NoNtfn
    Thread = {t1, t2, t3}
    Ep = {e1}
    Ntfn = {n1, n2}
    Bit = {b1, b2}
    Timer = {}
    Cpu = {}
    MaxTime = 0
    Region = {r1}
    In <- BindIn
    Uses <- BindUses
SPECIFICATION Spec
CHECK_DEADLOCK FALSE
INVARIANTS
    LinkedIffParked
    BoundThreadIsTold
PROPERTIES
    NoBitLost
    DeliveryIsKept
