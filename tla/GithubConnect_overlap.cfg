CONSTANTS
    u1 = u1  u2 = u2  i1 = i1  i2 = i2  r1 = r1  r2 = r2  q1 = q1  q2 = q2
    User <- TwoUsers
    Workspace <- Workspaces
    Member <- Members
    First <- Firsts
    Installation <- TwoInstallations
    Repo <- TwoRepos
    Request <- TwoRequests
    NoUser = NoUser
    NoProject = NoProject
    NoRepo = NoRepo
    NoInstallation = NoInstallation
    Changes <- AllChanges
    InOrder = FALSE
    MaxEvents = 3
    MaxCompletes = 2
    MaxErrors = 1
SYMMETRY Symmetry
SPECIFICATION Spec
INVARIANTS NoFabricatedOwner AloneReconciles
PROPERTY LinkIsHeld
CHECK_DEADLOCK FALSE
