\* Two domains, an outage shorter than RENEW_BEFORE has room for, a stop.
SPECIFICATION PunctualSpec
CONSTANTS
    d1 = d1
    d2 = d2
    p1 = p1
    a1 = a1
    Domain = {d1, d2}
    Client = {p1}
    Account = {a1}
    Wildcards = {FALSE}
    NoRow = NoRow
    Resolvers = 4
    Attempts = 3
    Mute = {1, 2, 3}
    CertLife = 6
    RenewBefore = 5
    BackoffBase = 1
    BackoffLimit = 2
    Width = 4
    MaxTime = 9
    OutageFrom = 3
    OutageUntil = 6
    CalmFrom = 10
    Budget <- StopOnly
INVARIANTS
    NoLapse
SYMMETRY DomainSymmetry
