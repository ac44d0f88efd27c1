SPECIFICATION FairLoop
CONSTANTS
    NumSettings = 2
    Values = {v1, v2}
    v1 = v1
    v2 = v2
    None = None
    Default <- MCDefault
    MaxFlights = 2
    MaxChanges = 2
    MaxCrashes = 1
INVARIANTS
    ReadTogether
    NeverMixed
    AdjustmentsSaved
PROPERTIES
    SavedSurvives
    WidgetsFollow
CHECK_DEADLOCK FALSE
