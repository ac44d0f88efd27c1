SPECIFICATION Spec
CONSTANTS
    Base = 3
    Magic = 7
    Version = 1
    NameLen = 3
    AppLen = 2
    TextLen = 3
    BufLen = 24
    StatsInputs <- MCStats
    GitInputs <- MCGit
    NotifInputs <- MCNotif
    Commands = {0, 1}
INVARIANTS
    Delivered
