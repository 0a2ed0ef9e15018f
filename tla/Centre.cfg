\* The scheduler and one request at a time, two intervals of time, any start cut short.
SPECIFICATION Spec
CONSTANTS
    d1 = d1
    p1 = p1
    a1 = a1
    r1 = r1
    Domain = {d1}
    Client = {p1}
    Account = {a1}
    Wildcards = {FALSE}
    NoRow = NoRow
    Resolvers = 4
    Attempts = 3
    Mute = {1, 2, 3}
    CertLife = 3
    RenewBefore = 2
    BackoffBase = 1
    BackoffLimit = 2
    Width = 4
    MaxTime = 2
    CalmFrom = 3
    OutageFrom = 1
    OutageUntil = 2
    Budget <- SomeBudget
    Slot = {r1}
    Certs <- AllCerts
    Statuses = {"pending_cname", "issuing", "active", "error"}
    FailCounts = {0, 1, 2, 3, 4}
    RetryTimes = {0, 1, 2, 3, 4}
    NoItem = NoItem
    k1 = k1
    k2 = k2
    Key = {k1, k2}
    NoAccount = NoAccount
INVARIANTS
    AnswerFromCA
    AnswerFresh
    AccountKept
PROPERTIES
    ImplementsScheduler
    ImplementsApi
SYMMETRY KeySymmetry
