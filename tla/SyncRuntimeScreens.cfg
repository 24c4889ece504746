SPECIFICATION Spec
CONSTANTS
    MaxMedia = 1
    MaxArtwork = 1
    MaxPages = 1
    MaxCovers = 1
    MaxInputs = 3
    MaxExpiries = 1
    MaxFaults = 1
    Screens = {"sync", "settings"}
    Selections = {s1}
    None = None
    MissingArtwork = TRUE
PROPERTY ScreenKeepsAnswer
CHECK_DEADLOCK FALSE
