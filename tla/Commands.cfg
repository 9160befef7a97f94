SPECIFICATION FairSpec
CONSTANTS
    laptop = laptop
    shared = shared
    server = server
    Nobody = Nobody
    Device = {laptop}
    Invitation = {shared}
    InvitedBy <- SharedInvitation
    MaxDevices = 1
    MaxPending = 2
    MaxCommands = 2
    MaxWithdrawals = 1
    MaxFailures = 1
    MaxRestores = 1
INVARIANTS
    RunsOnce
    OutcomeTrue
    InOrder
PROPERTIES
    EveryCommandEnds
