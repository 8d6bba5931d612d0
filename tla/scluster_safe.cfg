SPECIFICATION Spec
CONSTANTS
    p1 = p1  p2 = p2  p3 = p3  c1 = c1  c2 = c2  h1 = h1  h2 = h2
    NULL = NULL
    Proc = {p1, p2, p3}
    Cluster = {c1, c2}
    Prefixed <- Plain
    Host = {h1, h2}
    Addr = {1, 2, 3}
    MaxNodes = 2
    Exclusive = TRUE
    Torn = FALSE
SYMMETRY Symmetry
INVARIANTS ClustersApart InstancesApart AssignmentsKept
PROPERTIES RemoveLeavesNothing ImplementsPool
CHECK_DEADLOCK FALSE
