CONSTANTS
    Handlers = {h1}
    Clients = {c1}
    NoClient = NoClient
    PayloadLen = 4
    BlockSize = 2
    BlockMod = 3
    ConfRetries = 3
    MaxRequests = 1
    MaxFaults = 2
SPECIFICATION FairSpec
INVARIANTS IndInv GiveUpNeedsFaults
PROPERTIES HandlerTerminates ImplementsFileTransfer
CHECK_DEADLOCK FALSE
