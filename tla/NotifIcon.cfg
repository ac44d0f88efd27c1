SPECIFICATION Spec
CONSTANTS
    GapSets = {{}, {"icon"}}
    MaxCalls = 1
    MaxSignals = 0
    MaxMocks = 0
    MaxFailures = 0
INVARIANTS
    IconSkipped
CHECK_DEADLOCK FALSE
