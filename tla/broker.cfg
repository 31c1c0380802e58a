SPECIFICATION Spec
CONSTANTS
    a = a
    b = b
    c = c
    br = br
    t1 = t1
    t2 = t2
    t3 = t3
    Shards = {0, 1}
    Accounts = {a, b, c, br}
    Txs = {t1, t2, t3}
    Sender <- mcSender
    Recipient <- mcRecipient
    Addr2Shard <- mcAddr2Shard
    BrokerAddress = br
    BlockSize = 1
    Scenarios <- mcScenarios
CHECK_DEADLOCK FALSE
INVARIANTS
    TransactionsSound
    PaymentsInOrder
