\* Two slots, two upgrades of any quality, two power cuts and two I/O errors.
CONSTANTS
    Slot = {0, 1}
    TRIES = 2
    MaxUpgrades = 2
    MaxCuts = 2
    MaxGlitches = 2
SPECIFICATION FairSpec
INVARIANTS
    TriesBoundStarts
    OnlyProvedIsConfirmed
PROPERTIES
    ComesUp
