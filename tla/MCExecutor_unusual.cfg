CONSTANTS
    Plans <- Unusual
    MaxVisits = 2
    Costs <- Mixed
SPECIFICATION FairSpec
INVARIANTS
    LoopIsSound
    JournalEndsOnce
    SpendingIsBounded
    NodesAreBracketed
    ReviewedMeetsFloor
PROPERTIES
    KeepsContract
    EndsByDeadline
