SPECIFICATION Spec
CONSTANTS
    r1 = r1  r2 = r2  a1 = a1  a2 = a2  c1 = c1  c2 = c2
    NULL = NULL
    Run = {r1, r2}
    Assertion = {a1}
    Combo = {c1}
    ComboOf <- SameTest
    MaxTime = 1
    MaxAsserts <- EachOnce
    MaxBatch = 2
    MaxLaunch = 1
    MaxLost = 1
    Ordered = FALSE
    Lossy = TRUE
    Killable = TRUE
    Purging = FALSE
    Debug = FALSE
INVARIANTS StoredWasSent FinishAfterStart NoOrphanAssertion
CHECK_DEADLOCK FALSE
