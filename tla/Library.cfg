SPECIFICATION Spec
CONSTANTS
    subject1 = subject1
    subject2 = subject2
    conn1 = conn1
    conn2 = conn2
    Aliases = {"acme", "beta"}
    LongAliases = {}
    Default = "default"
    Nobody = "nobody"
    Goals <- GoalsDef
    PractisedIn <- PractisedInDef
    Categories = {"closing", "pricing"}
    NoCategory = "none"
    MaxRecommendations = 1
    Habits <- SeedHabits
    NoGoal = "none"
    Subjects <- SubjectsDef
    Conns <- ConnsDef
    Accounts <- AccountsDef
    Releases <- ReleasesDef
    Answers <- AnswersDef
    BuiltIns <- BuiltInsDef
    MaxGoals = 1
    MaxOpenCalls = 1
    MaxDrafts = 1
    MaxRows = 3
    MaxCalls = 1
    MaxSteps = 4
SYMMETRY Symmetric
INVARIANTS
    TypeOK
    ReadWhereWritten
    SlotsMatchCalls
    BestSuggestions
CHECK_DEADLOCK FALSE
