CONSTANTS
    w1 = w1
    w2 = w2
    sync = sync
    copy = copy
    photos = photos
    work = work
    home = home
    inner = inner
    laptop = laptop
    None = None
    Worker = {w1, w2}
    Job = {sync, copy}
    Folder = {photos, work}
    Root = {home, inner}
    Peer = {laptop}
    Port = {1}
    Requests <- RequestsDef
    Overlaps <- OverlapsDef
    MaxStops = 1
    MaxChanges = 1
SPECIFICATION FairSpec
INVARIANTS
    RootsDisjoint
    DeploymentsYield
    ChildrenFollowJobs
PROPERTIES
    EveryDeploymentEnds
