SPECIFICATION FairSpec
CONSTANTS
    laptop = laptop
    server = server
    phone = phone
    Replica <- MCReplica
    Directory = Directory
    Deleted = Deleted
    Hub = {server}
    Device = {laptop, server}
    Path = {1}
    File = {f1}
    MaxCounter = 2
    MaxHeads = 2
    InitialMode <- BothWays
    MaxEdits = 4
    MaxAborts = 1
    MaxChoices = 0
    MaxRestores = 0
    Restores <- NoRestores
    AtomicChoose = TRUE
    Payload = {f1, Deleted}
INVARIANTS
    OneHeadPerReplica
    ObjectsPresent
    EditsAreAccepted
PROPERTIES
    DisplacedIsKept
    Convergence
