CONSTANTS
    Requests = {r1}
    Scripts = {s1}
    Workers = {w1, w2}
SPECIFICATION FairSpec
INVARIANTS
    TypeOK
    DoneIsReadable
    ReadableStands
    NoDuplicateRun
    FailedMayBeAskedAgain
    MissingWasNotStored
PROPERTIES
    WrapupKept
    NeverStuckOpen
