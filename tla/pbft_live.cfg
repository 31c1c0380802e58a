SPECIFICATION LiveSpec
CONSTANTS
    Replicas = {r1, r2, r3}
    Main = m
    Faults = 1
    MaxSeq = 2
    Orders = {"all"}
    Chains = {"memory", "dbMPT"}
    Broker = FALSE
    Stops = TRUE
PROPERTIES
    AllCommit
    StopBetweenRounds
CHECK_DEADLOCK FALSE
