SPECIFICATION FairSpec
CONSTANTS
    HeaderUnits = 2
    PayloadSizes = {0, 1, 3}
    PayloadCap = 4
    UsbPackets = {3, 8}
    MaxTries = 2
    MaxSends = 4
    FaultKinds = {"slow", "read", "cut"}
    MaxFaults = 2
INVARIANTS
    TypeOK
    AcceptedIntact
    NothingLost
PROPERTIES
    Realigns
CHECK_DEADLOCK FALSE
