SPECIFICATION Spec
CONSTANTS
    Hash = {"t1", "t2"}
    CacheSize = 1
    CounterMod = 8
    NumEndpoints = 2
    MaxConcurrent = 2
    BufferSize = 1
    MaxEvents = 4
INVARIANTS
    TypeOK
    NothingLostInQueue
    WsAnnouncesNewOnce
    PermitsAccounted
    EveryEndpointTried
PROPERTIES
    TransactionsForwarded
    ShutdownCompletes
