SPECIFICATION Spec
CONSTANTS
    a = a
    b = b
    c = c
    d = d
    ask = ask
    scan = scan
    Stages = {a, b, c, d}
    Gates = {ask, scan}
    ApprovalGates = {ask}
    EntryGates <- PairEntry
    ExitGates <- AskA
    MaxAttempts <- Once
    WithFallback = {}
    MayBeEmpty = {b}
    InitialGraph <- Pair
    Insertions <- PairInsertions
    MaxWorkers = 2
    Operations = {"rollback", "invalidate", "insert", "restart", "safe_stop",
                  "crash", "revise"}
    LiveOperations = {"safe_stop", "crash"}
    MaxIncarnation = 2
    MaxOperations = 2
INVARIANTS
    Governed
    PausedIsBlocked
