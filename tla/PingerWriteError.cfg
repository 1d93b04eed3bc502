CONSTANTS
    Durations = {0, 1, 2}
    Default = 3
    MaxResets = 3
SPECIFICATION FairSpec
PROPERTY CancelStops
CHECK_DEADLOCK FALSE
