SPECIFICATION Spec
CONSTANTS
    Late = TRUE
    MaxLaunches = 3
    MaxRefused = 2
    MaxPlugs = 2
    MaxSends = 3
INVARIANT
    ReleasedBeforeTermination
CHECK_DEADLOCK FALSE
