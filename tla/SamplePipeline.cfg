SPECIFICATION FairSpec
CONSTANTS
    MaxStreams = 2
    MaxUnits = 3
    MaxStops = 1
    MaxToggles = 1
    DecodeSize = 3
    CommandSlots = 2
    SourceSlots = 2
    WorkSlots = 2
    SinkSlots = 2
    Modulus = 3
    TargetRate = 48
    Playlists <- TwoPlaylists
INVARIANT TypeOK AccountsAgree ConvertedAsItself Gapless
PROPERTY ShownIsHeard EverythingHeard
CHECK_DEADLOCK FALSE
