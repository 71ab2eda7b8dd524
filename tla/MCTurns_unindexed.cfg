CONSTANTS
    t1 = t1
    t2 = t2
    Terminals <- OneTerminal
    MaxFiles = 3
    Attempts <- Once
    Elsewhere <- Anywhere
    Cap <- NoCap
    MaxCall = 0
SPECIFICATION Spec
INVARIANTS
    HistoryIsComplete
CHECK_DEADLOCK FALSE
