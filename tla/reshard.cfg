SPECIFICATION ReshardSpec
CONSTANTS
    a = a
    b = b
    c = c
    t1 = t1
    t2 = t2
    Shards = {0, 1}
    Accounts = {a, b, c}
    Txs = {t1, t2}
    Sender <- mcSender
    Addr2Shard <- mcAddr2Shard
    BlockSize = 1
    Scenarios <- mcScenarios
CHECK_DEADLOCK FALSE
INVARIANTS
    TransactionsSound
    HandOverSound
    SupervisorSound
PROPERTIES
    PartitionSound
