SPECIFICATION FairSpec
CONSTANTS
    Versions = {1, 2}
    DesktopVersion = 1
    OutCap = 2
    InCap = 2
    HelloTicks = 2
    BeatTicks = 2
    TimeoutTicks = 2
    SleepTicks = 1
    SlackTicks = 1
    WatchdogFrames = 5
    MaxClicks = 2
    MaxKeys = 1
    MaxFaults = 2
    FaultKinds = {"unplug", "crash", "stall", "io", "payload", "resident"}
INVARIANTS
    TypeOK
    HandleMatchesState
    DashboardHonest
    VersionGate
    CommandAtMostOnce
    HealthyAgreement
PROPERTIES
    SessionImplemented
    DeadDesktopNoticed
    DeadDeviceNoticed
    HandshakeCompletes
    ExitCarriedOut
