SPECIFICATION Spec
CONSTANTS
    NSamp = 5
    NL1 = 2
    NL2 = 2
    Debug = TRUE
    MaxCrashes = 1
INVARIANTS NoFalseAlarm
PROPERTIES PassMeansUp ScriptEnds
CHECK_DEADLOCK FALSE
