SPECIFICATION Spec
CONSTANTS
    Requests = {r1, r2, r3}
    Operations = {"create", "redirect", "report", "delete", "analytics",
                  "metadata"}
    Codes = {c1}
    Keys = {k1}
    None = None
    NonAscii = NonAscii
    MaxCodeTries = 2
    Threshold = 1
    CacheSize = 1
    Ttl = 0
    Capacity = 2
    NaiveExpiries = FALSE
    MaxConcurrent = 2
    MaxTime = 1
CHECK_DEADLOCK FALSE
INVARIANTS
    OneUrlPerKey
PROPERTIES
    Answered
