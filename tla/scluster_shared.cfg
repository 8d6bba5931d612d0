SPECIFICATION FairSpec
CONSTANTS
    p1 = p1  p2 = p2  p3 = p3  c1 = c1  c2 = c2  h1 = h1  h2 = h2
    NULL = NULL
    Proc = {p1, p2, p3}
    Cluster = {c1, c2}
    Prefixed <- Nested
    Host = {h1}
    Addr = {1, 2}
    MaxNodes = 1
    Exclusive = FALSE
    Torn = TRUE
INVARIANTS TableDisjoint
PROPERTIES CommandsEnd
CHECK_DEADLOCK FALSE
