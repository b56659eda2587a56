CONSTANTS
    Subjects = {a}
    Company = {a}
    Calls = {c1, c2}
    Long = {c1}
    Kinds = {"reverse", "follow_up"}
    Presses = {p1}
    DraftCap = 1
SPECIFICATION Spec
INVARIANTS
    TypeOK
    NothingKeptWithoutConsent
    MissingMeansGone
PROPERTIES
    ImplementsPromise
    DeletionIsNeverRefused
CHECK_DEADLOCK FALSE
