SPECIFICATION Spec
CONSTANTS
    a = a
    b = b
    c = c
    d = d
    ask = ask
    scan = scan
    Stages = {a, b, c, d}
    Gates = {ask, scan}
    ApprovalGates = {ask}
    EntryGates <- DiamondEntry
    ExitGates <- AskB
    MaxAttempts <- Once
    WithFallback = {}
    MayBeEmpty = {}
    InitialGraph <- Line
    Insertions = {}
    MaxWorkers = 2
    Operations = {"crash"}
    LiveOperations = {"crash"}
    MaxIncarnation = 2
    MaxOperations = 1
INVARIANTS
    DependenciesFirst
