SPECIFICATION Spec
CONSTANTS
    Requests = {r1, r2, r3, r4}
    Operations = {"create", "redirect", "report", "delete", "analytics",
                  "metadata"}
    Codes = {c1, c2}
    Keys = {None}
    None = None
    NonAscii = NonAscii
    MaxCodeTries = 2
    Threshold = 2
    CacheSize = 1
    Ttl = 0
    Capacity = 2
    NaiveExpiries = TRUE
    MaxConcurrent = 2
    MaxTime = 0
SYMMETRY Alike
CHECK_DEADLOCK FALSE
INVARIANTS
    WellFormed
    CacheIsFresh
    ClicksAgree
    SeriesCoversTotal
    FlaggedAtThreshold
PROPERTIES
    ErrorsHaveCauses
