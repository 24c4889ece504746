SPECIFICATION FairSpec
CONSTANTS
    MaxMedia = 1
    MaxArtwork = 1
    MaxPages = 2
    MaxCovers = 2
    MaxInputs = 1
    MaxExpiries = 2
    MaxFaults = 2
    Screens = {}
    Selections = {s1, s2}
    None = None
    MissingArtwork = FALSE
INVARIANTS
    AnswerHasListener
    FinalizationCanEnd
PROPERTIES
    Settles
    RefreshHappens
CHECK_DEADLOCK FALSE
