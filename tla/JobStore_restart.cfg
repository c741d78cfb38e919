SPECIFICATION FairSpec
CONSTANTS
    j1 = j1  j2 = j2  j3 = j3
    Job = {j1, j2}
    Request = {"import", "edit", "scan"}
    Keyed = {"import"}
    ReadOnly = {"scan"}
    Cancelled = {"import", "edit", "scan"}
    Reader = {"get"}
    StartupLimit = 1
    Clearing = FALSE
    MaxCrash = 2
INVARIANTS
    NoOverlap
    StatusHonest
PROPERTIES
    RecordSpec
    RecordSettles
CHECK_DEADLOCK FALSE
