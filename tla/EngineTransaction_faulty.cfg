SPECIFICATION Spec
CONSTANTS
    t1 = t1  t2 = t2  t3 = t3
    Attempt = {t1, t2, t3}
    Family = "row_merge"
    MaxCrash = 3
    None = None
INVARIANTS
    NeverReplayed
    NoHiddenChange
    CancelMeansUntouched
SYMMETRY Symmetry
CHECK_DEADLOCK FALSE
