\* A proxy is revoked while one of its requests is served.
SPECIFICATION Spec
CONSTANTS
    d1 = d1
    p1 = p1
    a1 = a1
    r1 = r1
    Domain = {d1}
    Client = {p1}
    Account = {a1}
    Slot = {r1}
    Wildcards = {FALSE}
    Certs <- OneCert
    Statuses = {"active"}
    FailCounts = {0}
    RetryTimes = {0}
    NoRow = NoRow
    NoItem = NoItem
SYMMETRY ApiSymmetry
INVARIANTS
    RevokedHoldsNothing
