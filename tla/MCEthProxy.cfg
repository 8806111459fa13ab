SPECIFICATION Spec
CONSTANTS
    a1 = a1
    a2 = a2
    a3 = a3
    b2 = b2
    Block <- MCBlock
    NumberOf <- MCNumberOf
    DEFAULT_CACHE_SIZE = 3
    Requests <- MCRequests
    Views <- MCViews
    NewBlocks = {a1, a2, b2}
    UpstreamBodies = {a1, a2, b2}
    BlockCacheSize = 2
    IncomingCap = 1
    MaxU64 = 3
    MaxImports = 2
    MaxRequests = 2
INVARIANTS
    TypeOK
    HeaderIndexesAgree
    HeadersInSequence
    BodiesExactUnlessRaced
PROPERTY
    RequestsAnswered
