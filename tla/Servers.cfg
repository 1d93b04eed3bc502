CONSTANTS
    Conns = {x1, x2}
    MaxUnits = 2
    Cap = 2
    MaxIdle = 1
    Clients = {c1, c2}
    Size = 2
    Lengths = {1, 3}
    MaxSent = 3
    MaxDoubled = 1
    Room = 2
    Requests = 3
    MaxRequests = 2
    Targets <- SomeTargets
    Durations <- ResetValues
    Default = 3
    MaxResets = 3
SPECIFICATION FairSpec
INVARIANTS TypeOK TrafficIsKept NoRequestCut
PROPERTIES EchoIsDelivery StreamsEnd CancelStopsServing StayersAreAnswered NoLeak RepliesArrive InterruptStops PageCompletes PingsUntilCancelled
CHECK_DEADLOCK FALSE
