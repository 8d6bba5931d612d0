SPECIFICATION CreateSpec
CONSTANTS
    Attr = {"a", "b", "c"}
    Template = {"t1", "t2", "t3"}
    Missing = "t0"
    Input <- AllSpecs
    MaxChain = 5
    MaxLen = 4
    NONE = NONE
    Cluster = {"a", "b", "c"}
    AddrMin = 1
    AddrMax = 7
    MaxNodes = 5
    NHosts = 3
    MaxLoad = 3
    MaxPlaced = 8
INVARIANTS ExpandedRight RefusedOnlyWhenFull
PROPERTIES ExpansionEnds ImplementsPool PlacedEvenly
CHECK_DEADLOCK FALSE
