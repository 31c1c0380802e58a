SPECIFICATION Spec
CONSTANTS
    Replicas = {r1, r2, r3}
    Main = m
    Faults = 1
    MaxSeq = 2
    Orders = {"any", "commits"}
    Chains = {"memory", "dbMPT"}
    Broker = FALSE
    Stops = FALSE
SYMMETRY Perms
CHECK_DEADLOCK FALSE
INVARIANTS
    RoundsSound
    SameChainInOrder
