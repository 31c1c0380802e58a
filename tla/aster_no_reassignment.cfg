CONSTANTS
    Tx = {1, 2}
    TxList <- List12
    Account <- Accounts
    Sender <- MCSender
    Recipient <- MCRecipient
    Value <- MCValue
    Digit <- MCDigit
    InitBalance = 3
    N = 2
    MaxJoin = 0
    MaxFaults = 1
    InjectSpeed = 2
    MaxBlockSize = 2
    StopPolls = 2
SPECIFICATION FairSpec
CHECK_DEADLOCK FALSE
PROPERTY EpochsAlwaysComplete
