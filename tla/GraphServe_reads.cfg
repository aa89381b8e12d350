SPECIFICATION Spec
CONSTANTS
    Graphs <- MCGraphs
    Versions <- MCVersions
    MaxReplacements = 2
    RequestsOn <- MCRequestsOn
    LikeForm <- MCLikeForm
    PageLimit = 2
    MemberCap = 3
INVARIANTS
    UndisturbedReadIsExact
    PagesAscend
    ShownWithItsFarEnd
    CyclesAreComponents
    BlastIsDistance
