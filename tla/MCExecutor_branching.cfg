CONSTANTS
    Plans <- Branching
    MaxVisits = 3
    Costs <- Cheap
SPECIFICATION Spec
INVARIANTS
    ApprovedPayloadIsUsed
