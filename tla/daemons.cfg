SPECIFICATION Spec
CONSTANTS
    i1 = i1  i2 = i2  i3 = i3  i4 = i4  i5 = i5
    NULL = NULL
    Pid = {i1, i2, i3, i4, i5}
    Specs <- Nodes
    SpecKey = key
    DefaultKey = zeros
    MaxCalls = 4
    Retries = 3
SYMMETRY Pids
INVARIANTS OneOfEach KeyInUse
PROPERTIES AllStarted
CHECK_DEADLOCK FALSE
