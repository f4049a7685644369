\* One thread creates an object while the other reclaims its region.
CONSTANTS
    a1 = a1
    a2 = a2
    NO_PARENT = NO_PARENT
    Actor = {a1, a2}
    NumPages = 3
    NumNames = 3
    MaxRegions = 3
    Uses <- SharedUses
SPECIFICATION Spec
CHECK_DEADLOCK FALSE
INVARIANTS
    ObjectPageIsHeld
