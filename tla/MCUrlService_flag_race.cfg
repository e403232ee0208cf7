SPECIFICATION Spec
CONSTANTS
    Requests = {r1, r2, r3, r4}
    Operations = {"create", "redirect", "report"}
    Codes = {c1}
    Keys = {None}
    None = None
    NonAscii = NonAscii
    MaxCodeTries = 2
    Threshold = 1
    CacheSize = 1
    Ttl = 1
    Capacity = 3
    NaiveExpiries = FALSE
    MaxConcurrent = 2
    MaxTime = 0
SYMMETRY Alike
CHECK_DEADLOCK FALSE
INVARIANTS
    FlaggedAreBarred
