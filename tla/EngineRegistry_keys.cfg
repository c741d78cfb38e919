SPECIFICATION Spec
CONSTANTS
    step = step  move = move  import = import
    r1 = r1  r2 = r2  r3 = r3  r4 = r4  r5 = r5
    None = None
    Key = {step, move, import}
    Request = {r1, r2, r3, r4, r5}
    KeyOf <- MCKeyOf
    PayloadOf <- MCPayloadOf
    Kind <- MCKind
    MaxCompleted = 1
    MaxCrash = 1
    Faults = {}
INVARIANTS
    OncePerKey
PROPERTIES
    ReplaySpec
    BurstKeepsDurable
CHECK_DEADLOCK FALSE
