\* A renewal between SaveCert and the status.
SPECIFICATION Spec
CONSTANTS
    d1 = d1
    p1 = p1
    a1 = a1
    Domain = {d1}
    Client = {p1}
    Account = {a1}
    Wildcards = {FALSE}
    NoRow = NoRow
    Resolvers = 4
    Attempts = 3
    Mute = {1, 2, 3}
    CertLife = 3
    RenewBefore = 2
    BackoffBase = 1
    BackoffLimit = 2
    Width = 4
    MaxTime = 4
    OutageFrom = 2
    OutageUntil = 3
    CalmFrom = 9
    Budget <- RenewOnly
INVARIANTS
    RenewReplacesCert
