SPECIFICATION FairSpec
CONSTANTS
    a = a
    b = b
    c = c
    d = d
    ask = ask
    scan = scan
    Stages = {a, b, c, d}
    Gates = {ask, scan}
    ApprovalGates = {ask}
    EntryGates <- DiamondEntry
    ExitGates <- DiamondExit
    MaxAttempts <- TwiceB
    WithFallback = {c}
    MayBeEmpty = {}
    InitialGraph <- Diamond
    Insertions = {}
    MaxWorkers = 2
    Operations = {"rollback", "invalidate", "safe_stop", "resume"}
    LiveOperations = {"safe_stop"}
    MaxIncarnation = 2
    MaxOperations = 1
INVARIANTS
    TypeOK
    AttemptsBounded
    CompletedIsDone
    SkippedForAReason
    DependenciesFirst
    PassedRestsOnPassed
PROPERTIES
    NoRerunOnResume
    KeepsThePromises
    RunReturns
    Settles
