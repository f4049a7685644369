\* Every operation, an interrupt endpoint, and the teardown of the region of the server.
CONSTANTS
    client = client
    server = server
    other = other
    e1 = e1
    e2 = e2
    e3 = e3
    r1 = r1
    NoTid = NoTid
    NoEp = NoEp
    NoWait = NoWait
    Thread = {client, server, other}
    Ep = {e1, e2, e3}
    IrqEp = {e3}
    Region = {r1}
    EpIn <- NoEps
    ThreadIn <- ServerOnly
    FaultEp <- IrqFaults
    Reader <- IrqReaders
    Writer <- IrqWriters
    Uses <- AllUses
    Slots = 1
    MaxOps = 2
    MaxPending = 1
SPECIFICATION Spec
CHECK_DEADLOCK FALSE
INVARIANTS
    ReplyCapNamesParkedCaller
PROPERTIES
    CallGetsItsOwnReply
    SendReportsTruth
    CapTravelsWithItsMessage
