SPECIFICATION Spec
CONSTANTS
    laptop = laptop
    server = server
    phone = phone
    Replica <- MCReplica
    Directory = Directory
    Deleted = Deleted
    Hub = {server}
    Device = {laptop, server}
    Path = {1, 2}
    File = {f1}
    MaxCounter = 2
    MaxHeads = 2
    InitialMode <- BothWays
    MaxEdits = 2
    MaxAborts = 1
    MaxChoices = 1
    MaxRestores = 0
    Restores <- NoRestores
    AtomicChoose = TRUE
    Payload = {f1, Deleted}
INVARIANTS
    OwnRevisionsRetained
    CursorSound
    SettledDevicesAgree
PROPERTIES
    OnlyApprovalsDelete
    NothingForgotten
