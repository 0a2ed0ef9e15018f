\* Two domains, one of them renewed; a death, a failing write, a failed answer.
SPECIFICATION FairSpec
CONSTANTS
    d1 = d1
    d2 = d2
    Domain = {d1, d2}
    Stubs <- ThreeStubs
    MaxSerial <- Serials
    MaxCrash = 1
    MaxWriteError = 1
    MaxSyncError = 1
INVARIANTS
    TypeOK
    SerialHonest
PROPERTIES
    DiskDelivers
    NginxDelivers
    StartsUsable
    DiskCatchesUp
    ComesUp
    ServesNewestUnlessMissed
