CONSTANTS
    Bodies <- SomeBodies
    MaxPayloadSize = 3
    MaxMessages = 3
    BufSize = 5
    Words = {"a"}
    Modes = {"", "octet", "OCTET", "netascii"}
    Numbers = {"0", "1"}
    MaxText = 3
    MaxBody = 2
    MaxCalls = 2
    Segments <- SomeSegments
    Configs <- SomePrefixes
    StartsWith <- SomeStartsWith
    MaxSegments = 5
    Procs = {p1, p2, p3}
    Storages = {"proto", "json", "gob"}
    Concurrent = FALSE
    MayStop = TRUE
    MaxBatch = 2
SPECIFICATION Spec
INVARIANTS TypeOK StreamIsFaithful PacketsAreRead AnswersAreTold NoHiddenFile FileIsLedger
PROPERTIES StreamIsDelivery CommandIsChoreList
SYMMETRY Symmetry
CHECK_DEADLOCK FALSE
