CONSTANTS
    Tx = {1, 2, 3, 4}
    TxList <- List1243
    Account <- Accounts
    Sender <- MCSender
    Recipient <- MCRecipient
    Value <- MCValue
    Digit <- MCDigit
    InitBalance = 3
    N = 3
    MaxJoin = 0
    MaxFaults = 0
    InjectSpeed = 2
    MaxBlockSize = 3
    StopPolls = 2
SPECIFICATION Spec
CHECK_DEADLOCK FALSE
INVARIANTS
    PackedWasExecuted
    OneBlockPerTx
