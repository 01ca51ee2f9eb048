SPECIFICATION Spec
CONSTANTS
    web = web
    db = db
    port = port
    login = login
    old = old
    Target = {web, db}
    Signature = {port, login, old}
    HostOf <- MCHostOf
    ClassOf <- MCClassOf
    Limit = 2
    MaxEvents = 4
INVARIANTS ReportIsTrue
CHECK_DEADLOCK FALSE
