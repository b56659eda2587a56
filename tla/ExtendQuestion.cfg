CONSTANTS
    Reverse = FALSE
    Prompts = 0
    MaxTurns = 1
    MaxParts = 2
    MaxChunks = 1
SPECIFICATION Spec
INVARIANTS
    ExtendsOnlyTheQuestion
