CONSTANTS
    b1 = b1
    b2 = b2
    p1 = p1
    p2 = p2
    Block = {b1, b2}
    NumberOf <- MCNumberOf
    DEFAULT_CACHE_SIZE = 2
    Peer = {p1, p2}
    BlockCacheSize = 1
    MaxAnnouncements = 2
    MaxDisconnects = 1
    MaxFailures = 1
    MaxUses = 1
SPECIFICATION Spec
INVARIANTS TypeOK EachAnnouncementOnceInOrder
PROPERTIES SentUnderItsOwnStatus BlocksReachPeers
CHECK_DEADLOCK FALSE
