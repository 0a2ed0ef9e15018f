\* One domain through crashes, failed statements, a renewal and a lost CNAME.
SPECIFICATION FairSpec
CONSTANTS
    d1 = d1
    p1 = p1
    a1 = a1
    Domain = {d1}
    Client = {p1}
    Account = {a1}
    Wildcards = {FALSE}
    NoRow = NoRow
    Resolvers = 4
    Attempts = 3
    Mute = {1, 2, 3}
    CertLife = 3
    RenewBefore = 2
    BackoffBase = 2
    BackoffLimit = 3
    Width = 3
    MaxTime = 6
    OutageFrom = 2
    OutageUntil = 4
    CalmFrom = 3
    Budget <- Anything
INVARIANTS
    TypeOK
    ActiveHasCert
    BackoffConsistent
    LatestIsNewest
PROPERTIES
    FailureWaits
    OrderJustified
    Recovers
