CONSTANTS
    Subjects = {a}
    Company = {}
    Calls = {c1, c2}
    Long = {c1}
    Kinds = {"reverse"}
    Presses = {p1}
    DraftCap = 1
SPECIFICATION FairSpec
PROPERTIES
    OrphanIsCollected
CHECK_DEADLOCK FALSE
