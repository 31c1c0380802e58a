CONSTANTS
    Tx = {1, 2}
    TxList <- List12
    Account <- Accounts
    Sender <- MCSender
    Recipient <- MCRecipient
    Value <- MCValue
    Digit <- MCDigit
    InitBalance = 3
    N = 2
    MaxJoin = 2
    MaxFaults = 1
    InjectSpeed = 2
    MaxBlockSize = 1
    StopPolls = 1
SPECIFICATION Spec
CHECK_DEADLOCK FALSE
INVARIANTS
    TypeOK
    GatherExcludesGenerate
    SingleToken
    EpochBarrier
    WaitGroupSound
    CleanStop
