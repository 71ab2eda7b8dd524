CONSTANTS
    t1 = t1
    t2 = t2
    Terminals <- TwoTerminals
    MaxFiles = 3
    Attempts <- OnceOrTwice
    Elsewhere <- InRunsDir
    Cap <- NoCap
    MaxCall = 1
SYMMETRY Symmetric
SPECIFICATION LaterSpec
INVARIANTS
    TypeOK
    DeliveryIsTrue
    ContextWasShown
    HistoryIsComplete
CHECK_DEADLOCK FALSE
