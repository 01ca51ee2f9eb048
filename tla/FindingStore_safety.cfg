SPECIFICATION Spec
CONSTANTS
    port = port
    login = login
    h1 = h1
    Issue = {port, login}
    Host = {h1}
    HostOf <- MCHostOf
    ClassOf <- MCClassOf
    Commands = {"scan:vuln", "scan:intrusion", "verify", "defend:baseline", "defend:run"}
    Verdicts = {"confirmed", "false_positive", "resolved"}
    MaxReports = 2
    ProbesMayFail = TRUE
INVARIANTS EvidenceBacksFinding PassIsExact
PROPERTIES TriageSticks ResolvesWhatIsGone
