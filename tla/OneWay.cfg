SPECIFICATION Spec
CONSTANTS
    laptop = laptop
    server = server
    phone = phone
    Replica <- MCReplica
    Directory = Directory
    Deleted = Deleted
    Hub = {server}
    Device = {laptop, server, phone}
    Path = {1}
    File = {f1}
    MaxCounter = 4
    MaxHeads = 8
    InitialMode <- OneWay
    MaxEdits = 2
    MaxAborts = 0
    MaxChoices = 0
    MaxRestores = 1
    Restores <- LaptopDevice
    AtomicChoose = TRUE
    Payload = {f1, Deleted}
INVARIANTS
    DirectionKept
