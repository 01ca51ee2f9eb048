SPECIFICATION CommandSpec
CONSTANTS
    r1 = r1
    r2 = r2
    r3 = r3
    Request = {r1, r2, r3}
    Authentic <- MCAuthentic
    Complete = {r1, r2, r3}
    Cli = {r3}
    Target <- MCTargets
    NoTarget = NoTarget
    Subscriber = {s1}
    MaxRequests = 1
    Window = 2
    Capacity = 1
    EventBuffer = 1
    MaxTime = 2
    MaxChanges = 1
INVARIANTS
    WindowQuota
    RefusedOnlyWhenFull
    AnswerTellsFate
    StreamInOrder
    SubmissionsAreTrue
PROPERTIES
    RequestsAreAnswered
CHECK_DEADLOCK FALSE
