SPECIFICATION TriesSpec
CONSTANTS
    Nibbles = {0, 1, 2}
    Limit = 14
    Keys <- MCKeys
    Values = {1, 9}
    Puts <- MCPuts
CHECK_DEADLOCK FALSE
INVARIANTS
    MapExact
    CommitsExact
    EncodingsExact
    StackExact
    ProofsExact
    IteratorsExact
