SPECIFICATION Spec
CONSTANTS
    t1 = t1  t2 = t2  c1 = c1  c2 = c2
    Threads = {t1, t2}
    Main = t1
    MaxShellCalls <- OneAndTwo
    Contents <- SomeContents
    MaxTyped = 3
    Retry = 2
    Conts = {c1, c2}
    MaxPolls = 2
INVARIANTS OwnReplies WrittenAsReported WaitSeesUp
PROPERTIES CallsEnd
CHECK_DEADLOCK FALSE
