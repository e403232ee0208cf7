SPECIFICATION Spec
CONSTANTS
    a = a
    b = b
    c = c
    d = d
    Stages = {a, b, c, d}
    InitialGraph <- Join3
    Insertions <- BeforeC
    MaxAttempts <- TwiceD
    WithFallback = {c}
    EntryGated = {d}
    ExitGated = {d}
    Operations = {"rollback", "invalidate", "insert", "crash"}
    MaxCalls = 3
    CrashCalls = {2}
SYMMETRY Alike
INVARIANTS
    DecisionsAreLinked
    TrailExplainsRows
    ReportAgreesWithTrail
    RecoveriesAreRight
    DurationsRunForward
    ReplanningSurvivesCrash
CHECK_DEADLOCK FALSE
