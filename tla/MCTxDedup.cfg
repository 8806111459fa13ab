CONSTANTS
    Hash = {h1, h2, h3, h4}
    CacheSize = 2
    CounterMod = 8
SPECIFICATION Spec
INVARIANTS TypeOK RecencyInv WindowExact StatsExact CacheFilled
PROPERTY ImplementsWindow
