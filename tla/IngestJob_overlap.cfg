CONSTANTS
    Project <- TwoProjects
    Commit <- ThreeCommits
    Repo <- ReposOfPQ
    Tree <- TreesOfPQ
    Content <- Contents
    Oversized <- Nothing
    CorruptAtStart <- CorruptX2
    Worker = {w1, w2}
    Job = {j1, j2, j3}
    Request = {r1, r2}
    NoProject = NoProject
    NoCommit = NoCommit
    NoJob = NoJob
    MaxAttempts = 2
    MaxPushes = 1
    MaxFaults = 1
    LeaseOutlivesDelivery = FALSE
SPECIFICATION OverlapSpec
SYMMETRY Symmetry
INVARIANT CacheOnlyMisplaces
INVARIANT SettledShowsHead
CHECK_DEADLOCK FALSE
