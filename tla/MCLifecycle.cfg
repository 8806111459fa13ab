SPECIFICATION Spec
CONSTANTS
    U64Max = 15
    U128Max = 31
    U256Max = 1023
    MIN_TX_GAS_LIMIT = 2
    MAX_TX_GAS_LIMIT = 6
    Address = {"zero", "alice"}
    ZeroAddress = "zero"
    KeyLen = 2
    FileConfigs <- MCFileConfigs
    ChainIds = {1}
    BlockCacheSizes = {1, 3}
    DefaultSize = 1
    MaxSize = 2
    Txs <- MCTxs
    Clocks <- MCClocks
    OverflowChecks = {TRUE, FALSE}
    RestoredHeads <- MCRestoredHeads
    AnchorTime = 4
    AnchorNumber = 1
    SlotTime = 3
    MaxStarts = 2
INVARIANTS
    TypeOK
    SameIdentity
    BadKeyWasTorn
    HeadIsCurrentSlot
    ValidatedExactly
PROPERTIES
    CtrlCEndsProcess
    
