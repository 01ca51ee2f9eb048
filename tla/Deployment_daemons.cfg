CONSTANTS
    c1 = c1
    c2 = c2
    c3 = c3
    p1 = p1
    p2 = p2
    Call = {c1, c2, c3}
    Instance = {p1, p2}
    Host <- TwoHosts
    NoHash = NoHash
    Free = Free
    Nobody = Nobody
    MaxCrashes = 1
    MaxEdits = 1
SYMMETRY Symmetry
SPECIFICATION DeploymentSpec
INVARIANTS
    ForksAreReported
    ForkNeedsTwoWriters
    ReadyBeforeWork
PROPERTIES
    ImplementsSharedChain
    DoctorIsHonest
CHECK_DEADLOCK FALSE
