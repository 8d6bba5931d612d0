SPECIFICATION SwarmSpec
CONSTANTS
    p1 = p1  p2 = p2  p3 = p3  c1 = c1
    s1 = s1  s2 = s2  n1 = n1  n2 = n2
    NULL = NULL
    Proc = {p1, p2, p3}
    Cluster = {c1}
    NHosts = 3
    MaxNodes = 2
    MaxOther = 1
    Scripts = {s1, s2}
    NetNames = {n1, n2}
    Limit = 4
    First = 1
    MaxMade = 3
    NoNet = NoNet
SYMMETRY Symmetry
INVARIANTS CreatedIsComplete
PROPERTIES RemoveLeavesNothing RemovesOnlyItsOwn RefusedOnlyWhenStale
CHECK_DEADLOCK FALSE
