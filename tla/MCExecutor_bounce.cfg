CONSTANTS
    Plans <- JustConversation
    MaxVisits = 3
    Costs <- Cheap
SPECIFICATION Spec
INVARIANTS
    NeverBouncesBack
