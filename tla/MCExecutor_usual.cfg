CONSTANTS
    Plans <- Usual
    MaxVisits = 3
    Costs <- Cheap
SPECIFICATION Spec
INVARIANTS
    ToolCallsAreAccountedFor
    AnswerIsTheRelease
    VerifiedReleaseWasReviewed
    ReceiptsPrecedeUnits
    ApprovedPayloadIsUsed
    RevisionEscalates
    RunsAfterInputs
