SPECIFICATION Spec
CONSTANTS
    MaximumOperations = 2
    BatchLimit = 2
    MaxSequence = 3
    MaxFaults = 2
    Kinds = {"create", "add", "move", "delete", "bad"}
    Requests = {r1, r2}
    NoRequest = NoRequest
    ExternalDeletes = FALSE
SYMMETRY RequestSymmetry
INVARIANTS
    TypeOK
    ServerInOrder
    NoEditDropped
    RepeatsOnlyUnrecorded
    AliasesAgree
    EditFindsItsPlaylist
PROPERTIES
    AppliedIsFinal
    ImplementsEditLog
CHECK_DEADLOCK FALSE
