SPECIFICATION FairSpec
CONSTANTS
    i1 = i1  i2 = i2
    None = None
    Import = {i1, i2}
    FromReview = {i1}
    MaxDownload = 2
    MaxScan = 1
    MaxFault = 1
INVARIANTS
    OneClaim
    ClaimHasOwner
    ImportedIsDelivered
PROPERTIES
    StuckAdvances
    BackgroundKeepsOff
CHECK_DEADLOCK FALSE
