SPECIFICATION Spec
CONSTANTS
    MaxMedia = 1
    MaxArtwork = 0
    MaxPages = 1
    MaxCovers = 0
    MaxInputs = 2
    MaxExpiries = 0
    MaxFaults = 0
    Screens = {"sync"}
    Selections = {s1}
    None = None
    MissingArtwork = FALSE
INVARIANTS
    DownloadHasListener
CHECK_DEADLOCK FALSE
