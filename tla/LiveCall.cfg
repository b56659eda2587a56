CONSTANTS
    Reverse = FALSE
    Prompts = 1
    MaxTurns = 2
    MaxParts = 2
    MaxChunks = 2
SPECIFICATION Spec
INVARIANTS
    TypeOK
    HistoryFollowsTurns
    QuestionIsLast
    EarlierTurnsAnswered
    EndedNeverRevived
    OnlyHeardIsKept
    ReplyIsWhatWasSent
    TornDownCallStoredAsTold
PROPERTIES
    TrimmedRepliesAreFinal
