\* Two machines of one name; any three disturbances, in any order.
SPECIFICATION FairSpec
CONSTANTS
    p1 = p1
    p2 = p2
    n1 = n1
    Proxy = {p1, p2}
    Name = {n1}
    NameOf <- SharedName
    Budget = 3
INVARIANTS
    TypeOK
    RevokedStaysOut
    FileIsBacked
    LockedOutByLoss
PROPERTIES
    EnrolsInTheEnd
