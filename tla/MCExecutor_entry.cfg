CONSTANTS
    Plans <- AllGuarded
    MaxVisits = 3
    Costs <- Cheap
SPECIFICATION Spec
INVARIANTS
    RunsAfterInputs
