SPECIFICATION Spec
CONSTANTS
    MaxBody = 2
    MaxCalls = 2
INVARIANTS RefusedMeansBlocked
CHECK_DEADLOCK FALSE
