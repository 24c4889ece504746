SPECIFICATION FairSpec
CONSTANTS
    MaximumOperations = 2
    BatchLimit = 2
    MaxSequence = 2
    MaxFaults = 2
    Kinds = {"create", "rename", "delete", "remove", "move", "favorite"}
    Requests = {r1, r2}
    NoRequest = NoRequest
    ExternalDeletes = TRUE
PROPERTY StuckBehindMissing Drains
CHECK_DEADLOCK FALSE
