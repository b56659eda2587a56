CONSTANTS
    HoldFrames = 2
    MaxSpan = 1
    MinVoiced = 3
    PvqWindow = 3
    TailFrames = 3
    MinTail = 2
    Glissando = 1
    MaxStep = 3
    PerPoint = 2
    SmoothPoints = 3
    MinStretch = 2
    Terminal = 0
    Yield = 1
    Backchannel = 2
    GreenMax = 0
    YellowMax = 2
    RepeatWords = 2
    MinOpening = 1
    MinRest = 1
    ClosingWindow = 2
    MinClosing = 2
    MinLoudness = 2
    MinUtterances = 1
    Seeded = {"talk_share","questions","pace","word_count","fillers","opening","closing","repetitions","hesitations","reaction_time","pauses","phonation_share","run_length","loudness","intonation","interruptions"}
    Confirm = 1
    Grace = 0
    Fragments <- MixedFragments
    Chunks = {1, 2}
    MaxNow = 3
    MaxTurns = 2
    MaxAudio = 2
    MaxPressed = 1
    MaxWords = 5
SPECIFICATION Spec
INVARIANTS
    TypeOK
    NothingHeardAfterTheCut
    CutsAreCounted
    StoredReadsBack
    HoldsAreComplete
    SegmentsAddUp
CHECK_DEADLOCK FALSE
