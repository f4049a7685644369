\* Two cores tick over two timers that are armed, re-armed, cancelled and destroyed.
CONSTANTS
    t1 = t1
    t2 = t2
    t3 = t3
    e1 = e1
    n1 = n1
    n2 = n2
    k1 = k1
    k2 = k2
    r1 = r1
    b1 = b1
    b2 = b2
    NoWait = NoWait
    NoTid = NoTid
    NoNtfn = NoNtfn
    Thread = {t1}
    Ep = {}
    Ntfn = {n1}
    Bit = {b1}
    Timer = {k1, k2}
    Cpu = {1, 2}
    MaxTime = 2
    Region = {r1}
    In <- TimerIn
    Uses <- SleepUses
SPECIFICATION FairSpec
CHECK_DEADLOCK FALSE
INVARIANTS
    EarliestIsLowerBound
PROPERTIES
    ArmedTimerFires
    SleeperWakes
