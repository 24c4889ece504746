SPECIFICATION Spec
CONSTANTS
    a = a
    b = b
    none = none
    Tracks = {a, b}
    NoTrack = none
    Playlists <- MCPlaylists
    Additions <- MCAdditions
    WorkerCount = 2
    Seeds = {1}
    MillerShuffle <- MCShuffle
    ManyTracks = 2
    MaxInputs = 3
    MaxTracks = 8
    SizeModulus = 100
    MaxEndings = 2
INVARIANT AudioTypeOK AppendingHasJob PlaysCurrent CurrentIsAtPosition
PROPERTY OrderIsNext
CHECK_DEADLOCK FALSE
