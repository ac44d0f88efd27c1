SPECIFICATION FairSpec
CONSTANTS
    LogCap = 2
    MaxFlights = 2
    MaxEntries = 3
    MaxSessions = 1
    MaxRestarts = 1
INVARIANTS
    ShownOnceInOrder
    NothingSkipped
PROPERTIES
    LogReachesPage
    PageFollows
CHECK_DEADLOCK FALSE
