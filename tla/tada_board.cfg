SPECIFICATION FairSpec
CONSTANTS
    r1 = r1  r2 = r2  a1 = a1  a2 = a2  c1 = c1  c2 = c2
    NULL = NULL
    Run = {r1, r2}
    Assertion = {a1}
    Combo = {c1, c2}
    ComboOf <- TwoTests
    MaxTime = 0
    MaxAsserts <- OneTwice
    MaxBatch = 8
    MaxLaunch = 1
    MaxLost = 1
    Ordered = TRUE
    Lossy = FALSE
    Killable = TRUE
    Purging = TRUE
    Debug = FALSE
INVARIANTS FinishedRowComplete
PROPERTIES ImplementsBoard DoneIsStored
CHECK_DEADLOCK FALSE
