SPECIFICATION FairSpec
CONSTANTS
    Children = 2
    ReadOnly = {2}
    Swallows = TRUE
    MaxCrash = 1
INVARIANTS
    CancelledBeforeChange
    NoChildLeftBehind
    RecordsAgree
PROPERTIES
    FinalStays
    TxSettles
CHECK_DEADLOCK FALSE
