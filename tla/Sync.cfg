\* Two requests of one proxy for two domains, with either wildcard flag.
SPECIFICATION Spec
CONSTANTS
    d1 = d1
    d2 = d2
    p1 = p1
    a1 = a1
    a2 = a2
    r1 = r1
    r2 = r2
    Domain = {d1, d2}
    Client = {p1}
    Account = {a1, a2}
    Slot = {r1, r2}
    Wildcards = {FALSE, TRUE}
    Certs <- OneCert
    Statuses = {"pending_cname"}
    FailCounts = {0}
    RetryTimes = {0}
    NoRow = NoRow
    NoItem = NoItem
SYMMETRY ApiSymmetry
INVARIANTS
    TypeOK
    AccountsDistinct
    AnswerMatchesRow
PROPERTIES
    IdentityStable
    BindingsChangeWhole
    AnswerComplete
