SPECIFICATION Spec
CONSTANTS
    point = point
    demand = demand
    Points <- PointsDef
    Demands <- DemandsDef
    Scenarios <- ScenariosDef
    Questions <- QuestionsDef
    Chunks <- ChunksDef
    PickupPrompts = 1
    MaxTurns = 2
    MaxParts = 2
    MaxSentences = 2
INVARIANTS
    TypeOK
    PointsAreHeardOnce
    EndedWithGoodbye
    NotesRecordWhatWasHeard
    RepeatedOnRequestOnce
CHECK_DEADLOCK FALSE
