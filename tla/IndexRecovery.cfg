CONSTANTS
    Peer = {p}
    Missing = Missing
    Empty = Empty
    MaxRecoveries = 2
    MaxWrites = 1
    MaxCrashes = 2
    MaxReads = 1
    MaxGrants = 2
SPECIFICATION FairSpec
INVARIANTS
    Usable
    IntentFinishes
PROPERTIES
    ImplementsShareState
    RecoveryEnds
CHECK_DEADLOCK TRUE
