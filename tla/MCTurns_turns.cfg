CONSTANTS
    t1 = t1
    t2 = t2
    Terminals <- OneTerminal
    MaxFiles = 3
    Attempts <- Thrice
    Elsewhere <- InRunsDir
    Cap <- Three
    MaxCall = 2
SPECIFICATION FairSpec
INVARIANTS
    OneAnswerPerTurn
    TurnWithinBudget
    RetriesAreLinked
PROPERTIES
    TurnsEnd
CHECK_DEADLOCK FALSE
