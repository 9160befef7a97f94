SPECIFICATION Spec
CONSTANTS
    Bytes = {f1, f2}
    Absent = Absent
    MaxEdits = 2
    MaxFaults = 2
    MaxApplies = 3
INVARIANTS
    NothingUnlinked
    OneUnfinished
    InterruptionRecovers
PROPERTIES
    ImplementsVisibleFile
