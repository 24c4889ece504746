SPECIFICATION Spec
CONSTANTS
    MaxSaves = 4
    MaxCuts = 3
    MaxErrors = 2
INVARIANTS
    CutLosesNothing
    NeverStale
    RefusedMeansUnchanged
CHECK_DEADLOCK FALSE
