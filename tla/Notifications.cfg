SPECIFICATION FairSpec
CONSTANTS
    GapSets = {{}, {"icon"}, {"summary", "body"}}
    MaxCalls = 2
    MaxSignals = 1
    MaxMocks = 1
    MaxFailures = 1
INVARIANTS
    FieldsTogether
    OnceInOrder
    LostOnlyByFailure
PROPERTIES
    ForwardedByNext
CHECK_DEADLOCK FALSE
