\* Two requests create one domain with different flags.
SPECIFICATION Spec
CONSTANTS
    d1 = d1
    p1 = p1
    a1 = a1
    a2 = a2
    r1 = r1
    r2 = r2
    Domain = {d1}
    Client = {p1}
    Account = {a1, a2}
    Slot = {r1, r2}
    Wildcards = {FALSE, TRUE}
    Certs <- OneCert
    Statuses = {"active"}
    FailCounts = {0}
    RetryTimes = {0}
    NoRow = NoRow
    NoItem = NoItem
SYMMETRY ApiSymmetry
INVARIANTS
    WildcardAgrees
