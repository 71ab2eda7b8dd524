CONSTANTS
    Nodes <- MCNodes
    Plans <- MCPlans
    Batches <- MCBatches
    MaxKeys = 2
SPECIFICATION FairSpec
INVARIANTS
    TypeOK
    ScreenShowsTheJournal
    SilenceReleasesNothing
    HumanWordsAreHuman
PROPERTIES
    QuitEndsTheProgram
    StopsEndTheRun
CHECK_DEADLOCK FALSE
