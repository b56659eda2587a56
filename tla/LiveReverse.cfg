CONSTANTS
    Reverse = TRUE
    Prompts = 0
    MaxTurns = 2
    MaxParts = 1
    MaxChunks = 1
SPECIFICATION FairSpec
INVARIANTS
    EndedNeverRevived
PROPERTIES
    TurnsSettle
