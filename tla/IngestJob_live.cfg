CONSTANTS
    Project <- OneProject
    Commit <- CommitsOfP
    Repo <- ReposOfP
    Tree <- TreesOfP
    Content <- Contents
    Oversized <- OnlyC3
    CorruptAtStart <- CorruptX2
    Worker = {w1}
    Job = {j1, j2, j3}
    Request = {r1, r2}
    NoProject = NoProject
    NoCommit = NoCommit
    NoJob = NoJob
    MaxAttempts = 2
    MaxPushes = 2
    MaxFaults = 1
    LeaseOutlivesDelivery = TRUE
SPECIFICATION LiveFromEmpty
PROPERTY HeadIsShown
CHECK_DEADLOCK FALSE
