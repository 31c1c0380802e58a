SPECIFICATION StorageSpec
CONSTANTS
    a = a
    b = b
    Account <- MCAccount
    Home <- MCHome
    Tx <- MCTx
    Bit <- MCBit
    Init_Balance = 1
    MaxHash = 3
    Setups <- MCSetups
CHECK_DEADLOCK FALSE
INVARIANTS
    StatesOpen
    LiveTriesComplete
    DiskClosed
PROPERTIES
    ChainSound
    PoolSound
