\* The region of a server that never answers and of a thread that hangs is torn down.
CONSTANTS
    client = client
    server = server
    other = other
    e1 = e1
    e2 = e2
    e3 = e3
    r1 = r1
    NoTid = NoTid
    NoEp = NoEp
    NoWait = NoWait
    Thread = {client, server, other}
    Ep = {e1, e2}
    IrqEp = {}
    Region = {r1}
    EpIn <- HungEps
    ThreadIn <- HungThreads
    FaultEp <- HungFaults
    Reader <- HungReaders
    Writer <- HungWriters
    Uses <- HungUses
    Slots = 1
    MaxOps = 2
    MaxPending = 1
SPECIFICATION FairSpec
CHECK_DEADLOCK FALSE
INVARIANTS
    QueuesMatchParks
    ReplyHasAnswerer
PROPERTIES
    RegionEmpties
    TeardownFreesWaiters
