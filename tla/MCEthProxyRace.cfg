SPECIFICATION Spec
CONSTANTS
    a1 = a1
    a2 = a2
    a3 = a3
    b2 = b2
    Block <- MCBlock
    NumberOf <- MCNumberOf
    DEFAULT_CACHE_SIZE = 3
    Requests <- BodyRequests
    Views <- MCViews
    NewBlocks <- MCBlock
    UpstreamBodies <- MCBlock
    BlockCacheSize = 4
    IncomingCap = 1
    MaxU64 = 3
    MaxImports = 1
    MaxRequests = 1
INVARIANT
    BodiesExactIfAligned
