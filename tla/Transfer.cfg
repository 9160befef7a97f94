SPECIFICATION FairSpec
CONSTANTS
    a = a
    b = b
    Blocks = 3
    Block = {a, b}
    File <- Files
    Hole = Hole
    Absent = Absent
    MaxEdits = 1
    MaxParts = 3
    Window = 2
    Capacity = 1
    MaxSources = 1
    MaxFaults = 1
    MaxDamage = 1
INVARIANTS
    TargetWhole
    AckedIsStored
    CompleteIsInstalled
PROPERTIES
    NothingLost
    EveryTransferEnds
CHECK_DEADLOCK FALSE
