CONSTANTS
    c1 = c1
    c2 = c2
    c3 = c3
    p1 = p1
    Call = {c1, c2, c3}
    Instance = {p1}
    Host <- OneHost
    NoHash = NoHash
    Free = Free
    MaxCrashes = 2
SPECIFICATION FairSpec
INVARIANTS
    TypeOK
    LinkedInOrder
    OkIsDurable
PROPERTIES
    CallsFinish
    ImplementsHashChain
CHECK_DEADLOCK FALSE
