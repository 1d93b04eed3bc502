CONSTANTS
    Handlers = {h1, h2}
    Clients = {c1}
    NoClient = NoClient
    PayloadLen = 2
    BlockSize = 2
    BlockMod = 3
    ConfRetries = 2
    MaxRequests = 2
    MaxFaults = 1
SPECIFICATION Spec
INVARIANTS InOrder SentMeansDelivered StopAndWait StaleBufferHarmless
SYMMETRY HandlerSymmetry
CHECK_DEADLOCK FALSE
