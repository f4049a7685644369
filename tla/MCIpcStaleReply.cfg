\* Calls and replies, and the teardown of the region of the server and its endpoint.
CONSTANTS
    client = client
    server = server
    other = other
    e1 = e1
    e2 = e2
    e3 = e3
    r1 = r1
    NoTid = NoTid
    NoEp = NoEp
    NoWait = NoWait
    Thread = {client, server, other}
    Ep = {e1, e2}
    IrqEp = {}
    Region = {r1}
    EpIn <- ServerEp
    ThreadIn <- ServerOnly
    FaultEp <- Faults
    Reader <- Readers
    Writer <- Writers
    Uses <- CallUses
    Slots = 1
    MaxOps = 2
    MaxPending = 1
SPECIFICATION Spec
CHECK_DEADLOCK FALSE
INVARIANTS
    ReplyCapNamesParkedCaller
