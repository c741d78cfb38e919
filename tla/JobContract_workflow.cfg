SPECIFICATION FairSpec
CONSTANTS
    j1 = j1  j2 = j2  j3 = j3  p1 = p1  p2 = p2  w = w
    None = None
    Job = {j1, j2, j3}
    Proc = {p1, p2}
    Key = {w}
    ProcOf <- MCProcOf
    HostOf <- OneHost
    KeysOf <- OneWorkflow
    FailFast = {j2}
    Probing = {j2}
    Wait <- MCWait
    Ttl = 1
INVARIANTS
    OneRunner
    NothingLeftLocked
PROPERTIES
    
    LiveHolderKeeps
    NeverGivesUpOnDead
    WaitEnds
CHECK_DEADLOCK FALSE
