SPECIFICATION Spec
CONSTANTS
    o1 = o1  o2 = o2  o3 = o3  p1 = p1  p2 = p2  p3 = p3  g = g  a = a  b = b
    None = None
    Torn = Torn
    LibraryGlobal = g
    Rank <- MCRank
    Proc = {p1, p2}
    Owner = {o1, o2, o3}
    Key = {g, a, b}
    ProcOf <- ProcsShared
    HostOf <- OneHost
    KeySets <- LowAndGlobal
    MaxNest = 2
    Faults = {"registry-timeout", "impatient", "mid-section"}
INVARIANTS
    MutualExclusion
    GrantBacked
    NoWaitCycle
PROPERTIES
    ServiceSpec
    NeverStolen
CHECK_DEADLOCK FALSE
