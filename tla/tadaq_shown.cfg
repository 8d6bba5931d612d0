SPECIFICATION QuerySpec
CONSTANTS
    r1 = r1  r2 = r2  a1 = a1  a2 = a2  c1 = c1
    NULL = NULL  ANY = ANY
    Filters <- AllFilters
    Combo = {c1}
    Ordered = TRUE
    Lossy = FALSE
    Debug = TRUE
    Run = {r1}
    ComboOf <- OneRun
    Assertion = {a1, a2}
    MaxTime = 0
    MaxAsserts <- Twice
    MaxBatch = 8
    MaxLaunch = 1
    MaxLost = 1
    Killable = TRUE
    Purging = TRUE
INVARIANTS ShownIsFinal
CHECK_DEADLOCK FALSE
