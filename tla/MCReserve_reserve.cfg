CONSTANTS
    Tiers <- MCTiers
    DefaultLimit = 2
    Framing = 1
    Sizes <- MCSizes
    Caps <- MCCaps
    Settings <- MCSettings
    Amounts <- MCAmounts
    MaxAttempts = 2
    MaxCalls = 2
SPECIFICATION Spec
INVARIANTS
    BudgetHolds
CHECK_DEADLOCK FALSE
