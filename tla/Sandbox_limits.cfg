CONSTANTS
    Second = 2
    Late = 1
    Timeout = 2
    Fuel = 2
    Payload <- Payloads
    Manifest <- Manifests
    Width = 2
    Name = {"site"}
    Program = {"nmap", "sh"}
    MaxEpoch = 2
    MaxOverdue = 2
SPECIFICATION FairSpec
INVARIANTS
    StoppedInTime
    NotCutShort
    CapabilitiesHold
PROPERTIES
    PayloadsEnd
CHECK_DEADLOCK FALSE
