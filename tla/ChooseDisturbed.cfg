SPECIFICATION Spec
CONSTANTS
    laptop = laptop
    server = server
    phone = phone
    Replica <- MCReplica
    Directory = Directory
    Deleted = Deleted
    Hub = {server}
    Device = {laptop, server}
    Path = {1}
    File = {f1, f2}
    MaxCounter = 3
    MaxHeads = 8
    InitialMode <- BothWays
    MaxEdits = 3
    MaxAborts = 1
    MaxChoices = 1
    MaxRestores = 0
    Restores <- NoRestores
    AtomicChoose = FALSE
    Payload = {f1, f2, Deleted}
INVARIANTS
    OwnRevisionsRetained
