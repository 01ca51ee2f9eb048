SPECIFICATION Spec
CONSTANTS
    Commands <- MCCommands
    Requested = {"active", "intrusive"}
    PolicyFromEnv = FALSE
    MaxCommands = 1
    MaxCrashes = 1
INVARIANTS FixIsAuthorised FixIsOnRecord HostsStayInScope
