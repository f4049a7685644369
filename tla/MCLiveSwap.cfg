\* Every program of the operator; the client can outrun the broker's backlog.
CONSTANTS
    Role = {"direct", "hung", "handoff", "on_time", "never", "late"}
    REQUESTS = 7
    SWAP_TRIGGER = 2
    WEDGE_SEQ = 3
    CAPACITY = 2
SPECIFICATION FairSpec
CHECK_DEADLOCK FALSE
INVARIANTS
    EveryRequestKept
    OneServer
PROPERTIES
    SwapIsInvisible
    SwapCompletes
