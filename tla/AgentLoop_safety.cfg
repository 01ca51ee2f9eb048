CONSTANTS
    Envelope = {e1, e2}
    NoEnvelope = NoEnvelope
    NoIntent = NoIntent
    Contents = {"payload", "defense", "text"}
    Capacity = 1
    MaxPayloads = 1
    MaxCrashes = 1
SPECIFICATION FairSpec
INVARIANTS
    TypeOK
    TrailInOrder
    EvidenceIsTrue
    ExecutionIsGated
    EffectsAreAnnounced
PROPERTIES
    ImplementsLifecycle
    SentIsSettled
CHECK_DEADLOCK FALSE
