\* Two processes and one region of three pages.
CONSTANTS
    a = a
    b = b
    Proc = {a, b}
    Page = {0, 1, 2}
    Va = {0, 1, 2}
    Run <- MCRun
    RegionBase = 0
    RegionSize = 3
    FirstFree = 0
    RegionHolder = {b}
    InitCaps <- MCInitCaps
    LogCapacity <- MCLogCapacity
    None = None
SPECIFICATION FairSpec
CHECK_DEADLOCK FALSE
INVARIANTS
    LogMatchesTables
    ReclaimedIsUnreachable
PROPERTIES
    OthersKeepTheirs
    DestroyCompletes
