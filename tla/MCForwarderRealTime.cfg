SPECIFICATION Spec
CONSTANTS
    Hash = {"t1", "t2"}
    CacheSize = 1
    CounterMod = 8
    NumEndpoints = 2
    MaxConcurrent = 1
    BufferSize = 1
    MaxEvents = 3
PROPERTY
    WsInRealTime
