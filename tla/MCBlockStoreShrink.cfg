SPECIFICATION Spec
CONSTANTS
    a1 = a1
    a2 = a2
    a3 = a3
    b2 = b2
    Block <- Chain
    NumberOf <- Numbers
    DEFAULT_CACHE_SIZE = 2
    Capacities = {0, 1, 2}
    MaxOps = 3
    MaxStarts = 2
INVARIANT
    RestoresRecent
