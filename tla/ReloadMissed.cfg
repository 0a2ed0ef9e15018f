\* A reload before nginx has written its pid file.
SPECIFICATION FairSpec
CONSTANTS
    d1 = d1
    Domain = {d1}
    Stubs <- ThreeStubs
    MaxSerial <- Serials
    MaxCrash = 0
    MaxWriteError = 0
    MaxSyncError = 0
PROPERTIES
    ServesNewest
