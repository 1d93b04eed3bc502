CONSTANTS
    Bodies <- SomeBodies
    MaxPayloadSize = 3
    MaxMessages = 3
    BufSize = 5
    Words = {"a"}
    Modes = {"", "octet", "OCTET", "netascii"}
    Numbers = {"0", "1"}
    MaxText = 1
    MaxBody = 1
    MaxCalls = 1
    Segments <- SomeSegments
    Configs <- SomePrefixes
    StartsWith <- SomeStartsWith
    MaxSegments = 1
    Procs = {p1}
    Storages = {"proto", "json", "gob"}
    Concurrent = FALSE
    MayStop = TRUE
    MaxBatch = 1
SPECIFICATION Spec
INVARIANT DecodesWhatWasSent
CHECK_DEADLOCK FALSE
