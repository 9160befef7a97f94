SPECIFICATION FairSpec
CONSTANTS
    laptop = laptop
    server = server
    phone = phone
    Replica <- MCReplica
    Directory = Directory
    Deleted = Deleted
    Hub = {server}
    Device = {laptop, server}
    Path = {1}
    File = {f1, f2}
    MaxCounter = 4
    MaxHeads = 3
    InitialMode <- BothWays
    MaxEdits = 2
    MaxAborts = 0
    MaxChoices = 0
    MaxRestores = 1
    Restores <- LaptopIndex
    AtomicChoose = TRUE
    Payload = {f1, f2, Deleted}
INVARIANTS
    ClocksAreCausality
PROPERTIES
    RestoredIndexAdopts
    Convergence
