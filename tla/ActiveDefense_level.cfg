SPECIFICATION Spec
CONSTANTS
    Commands = {"apply"}
    Requested = {"intrusive"}
    PolicyFromEnv = TRUE
    MaxCommands = 1
    MaxCrashes = 0
INVARIANT RefusalsMatchRequest
