SPECIFICATION Spec
CONSTANTS
    Children = 2
    ReadOnly = {2}
    Swallows = TRUE
    MaxCrash = 1
INVARIANTS
    CancelledMeansUnchanged
CHECK_DEADLOCK FALSE
