\* Every small configuration; two of them through three failures.
SPECIFICATION FairSpec
CONSTANTS
    None = None
    Configs <- AllConfigs
    Followed <- SomeFollowed
    FirstDelay = 1
    MaxDelay = 3
    Healthy = 3
    Budget = 3
INVARIANTS
    TypeOK
    ClosedIsAsked
    NamesCovered
    NoSelfConflict
    ReturnsHome
    CookieNotTooWide
    LoginReturns
PROPERTIES
    AcceptedServes
