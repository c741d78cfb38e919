SPECIFICATION FairSpec
CONSTANTS
    t1 = t1  t2 = t2  t3 = t3
    Attempt = {t1, t2}
    Family = "replacement"
    MaxCrash = 3
    None = None
INVARIANTS
    NoFalseSuccess
    EngineCallsClaimed
PROPERTIES
    ContractSpec
    RunningResolved
CHECK_DEADLOCK FALSE
