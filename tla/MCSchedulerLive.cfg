\* Two cores and one worker: every migration, steal and deferred wake of it.
CONSTANTS
    c1 = c1
    c2 = c2
    i1 = i1
    i2 = i2
    NoTid = NoTid
    NoCore = NoCore
    NoWait = NoWait
    Core = {c1, c2}
    BootCore = c1
    Thread = {"boot", i1, i2}
    Idle <- TwoCoreIdle
    Boot = "boot"
    MAX_THREADS = 3
    TableHolds <- MCTableHolds
    Thief = {c1, c2}
    UserThread = {}
    Supervised = {}
SPECIFICATION FairSpec
PROPERTIES
    WokenThreadRuns
