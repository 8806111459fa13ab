CONSTANTS
    b1 = b1
    b2 = b2
    p1 = p1
    p2 = p2
    Block = {b1, b2}
    NumberOf <- MCNumberOf
    DEFAULT_CACHE_SIZE = 2
    Peer = {p1, p2}
    BlockCacheSize = 2
    MaxAnnouncements = 2
    MaxDisconnects = 0
    MaxFailures = 0
    MaxUses = 0
SPECIFICATION Spec
INVARIANT StatusIsLatestHead
CHECK_DEADLOCK FALSE
