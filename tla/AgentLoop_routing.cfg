CONSTANTS
    Envelope = {e1}
    NoEnvelope = NoEnvelope
    NoIntent = NoIntent
    Contents = {"blank", "payload", "compact", "heartbeat", "defense", "odd", "defend", "text"}
    Capacity = 1
    MaxPayloads = 1
    MaxCrashes = 0
SPECIFICATION Spec
INVARIANTS
    KnownCommandsAreDispatched
CHECK_DEADLOCK FALSE
