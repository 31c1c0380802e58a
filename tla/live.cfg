CONSTANTS
    Tx = {1, 2, 3, 4}
    TxList <- List1243
    Account <- Accounts
    Sender <- MCSender
    Recipient <- MCRecipient
    Value <- MCValue
    Digit <- MCDigit
    InitBalance = 3
    N = 2
    MaxJoin = 0
    MaxFaults = 0
    InjectSpeed = 1
    MaxBlockSize = 2
    StopPolls = 2
    a = a
    b = b
    c = c
    br = br
    t1 = t1
    Threads = {h1, h2}
    NoThread = NoThread
SPECIFICATION LiveSpec
CHECK_DEADLOCK FALSE
INVARIANTS
    MigrationSound
PROPERTIES
    EpochsComplete
    ProposerSettles
    JoinSucceeds
    FiredEnds
    PartitionEnds
    AllExecuted
