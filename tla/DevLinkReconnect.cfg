SPECIFICATION FairSpec
CONSTANTS
    Versions = {1}
    DesktopVersion = 1
    OutCap = 2
    InCap = 2
    HelloTicks = 2
    BeatTicks = 2
    TimeoutTicks = 2
    SleepTicks = 1
    SlackTicks = 1
    WatchdogFrames = 5
    MaxClicks = 0
    MaxKeys = 0
    MaxFaults = 1
    FaultKinds = {"crash", "stall"}
PROPERTIES
    Reconnects
