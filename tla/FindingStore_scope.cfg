SPECIFICATION Spec
CONSTANTS
    port = port
    login = login
    h1 = h1
    Issue = {port, login}
    Host = {h1}
    HostOf <- MCHostOf
    ClassOf <- MCClassOf
    Commands = {"scan:vuln", "verify"}
    Verdicts = {"confirmed"}
    MaxReports = 2
    ProbesMayFail = FALSE
PROPERTY NeverResolvesPresent
