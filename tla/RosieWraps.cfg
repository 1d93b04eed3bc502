CONSTANTS
    Clients = {c1, c2}
    MaxBatch = 1
    Typed = {0, 1, 2, 9}
    Wrap = 8
SPECIFICATION Spec
INVARIANT CompletesWhatWasTyped
CHECK_DEADLOCK FALSE
