SPECIFICATION LocalSpec
CONSTANTS
    Node = {"0", "1", "2"}
    Key = {0, 2}
    MaxInt = 4
    Replicas = 2
    Weight = {1}
    Layouts <- MCLayouts
    KeyScore <- MCKeyScore
    NoNode = ""
    Threads = {t1, t2, t3}
    NoThread = NoThread
CHECK_DEADLOCK FALSE
INVARIANTS
    RingSound
    SearchesExact
PROPERTIES
    AreLeases
    IsOrderedRing
