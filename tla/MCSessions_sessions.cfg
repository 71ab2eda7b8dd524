CONSTANTS
    WindowSize = 2
    DriftSpan = 1
    MaxJournals = 3
    MaxAttempts = 2
    SheetTurns = 3
SPECIFICATION Spec
INVARIANTS
    TypeOK
    AnswersAreTrue
    SegmentationIsExact
    OneTurnPerContribution
    CitationsAreEvidence
    FoldsAgree
    TranscriptOnlyGrows
CHECK_DEADLOCK FALSE
