SPECIFICATION Meeting
CONSTANTS
    Replica = {r1, r2}
    File = {f1}
    Directory = Directory
    Deleted = Deleted
    MaxCounter = 2
    MaxHeads = 4
INVARIANTS
    DeliveryOrderIrrelevant
    JoinKeepsExactlyTheUnseen
    FreshEditSurvives
    ResolutionReplacesAllHeads
    DeletionNeverHidesAFile
CHECK_DEADLOCK FALSE
