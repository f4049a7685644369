\* Two threads carve, create objects, destroy and reclaim; the table has three slots.
CONSTANTS
    a1 = a1
    a2 = a2
    NO_PARENT = NO_PARENT
    Actor = {a1, a2}
    NumPages = 3
    NumNames = 4
    MaxRegions = 3
    Uses <- OwnerUses
SPECIFICATION Spec
CHECK_DEADLOCK FALSE
INVARIANTS
    PagesOwnedOnce
    ChildrenCounted
    HolesComeBack
    ObjectPageIsHeld
    NoPageLost
