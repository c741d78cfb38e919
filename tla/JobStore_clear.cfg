SPECIFICATION Spec
CONSTANTS
    j1 = j1  j2 = j2  j3 = j3
    Job = {j1, j2}
    Request = {"import", "edit"}
    Keyed = {"import"}
    ReadOnly = {}
    Cancelled = {}
    Reader = {"get"}
    StartupLimit = 1
    Clearing = TRUE
    MaxCrash = 1
INVARIANTS
    EffectOncePerKey
PROPERTIES
    RecoveryKept
    InterruptedIsShown
    RecordSpec
SYMMETRY Symmetry
CHECK_DEADLOCK FALSE
