SPECIFICATION FairSpec
CONSTANTS
    o1 = o1  o2 = o2  o3 = o3  p1 = p1  p2 = p2  p3 = p3  g = g  a = a  b = b
    None = None
    Torn = Torn
    LibraryGlobal = g
    Rank <- MCRank
    Proc = {p1, p2}
    Owner = {o1, o2}
    Key = {g, a, b}
    ProcOf <- ProcsApart
    HostOf <- OneHost
    KeySets <- SinglesAndPair
    MaxNest = 1
    Faults = {"mutex-ages", "mid-section", "torn-write"}
PROPERTIES
    WaiterServed
CHECK_DEADLOCK FALSE
