\* A shared login for docs.example.com and docs.other-company.net.
SPECIFICATION Spec
CONSTANTS
    None = None
    Configs <- AllConfigs
    Followed <- SomeFollowed
    FirstDelay = 1
    MaxDelay = 3
    Healthy = 3
    Budget = 0
INVARIANTS
    CookieSeen
