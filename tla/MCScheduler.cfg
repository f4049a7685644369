\* Two cores; beside the boot and idle threads the table holds a kernel or a user thread.
CONSTANTS
    c1 = c1
    c2 = c2
    i1 = i1
    i2 = i2
    NoTid = NoTid
    NoCore = NoCore
    NoWait = NoWait
    Core = {c1, c2}
    BootCore = c1
    Thread = {"boot", "kernel", "user", i1, i2}
    Idle <- TwoCoreIdle
    Boot = "boot"
    MAX_THREADS = 4
    TableHolds <- MCTableHolds
    Thief = {c2}
    UserThread = {"user"}
    Supervised = {"user"}
SPECIFICATION Spec
INVARIANTS
    OneCorePerThread
    ReadyIffQueued
    SwitchesToSavedContext
    WorkIsPoked
    ReapedIsUnreferenced
    ResumedIsDelivered
    DeferredWakeIsRecorded
PROPERTIES
    ImplementsLifecycle
