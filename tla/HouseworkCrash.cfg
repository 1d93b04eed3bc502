CONSTANTS
    Procs = {p1, p2}
    MaxBatch = 2
    Storages = {"proto"}
    Concurrent = FALSE
    MayStop = TRUE
SPECIFICATION Spec
INVARIANT ChoresPersist
CHECK_DEADLOCK FALSE
