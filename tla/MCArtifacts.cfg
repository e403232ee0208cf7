SPECIFICATION Spec
CONSTANTS
    code = code
    test = test
    release = release
    p = p
    q = q
    t = t
    report = report
    good = good
    better = better
    bad = bad
    Stages = {code, test, release}
    Deps <- MCDeps
    AgentOf <- MCAgentOf
    KindOf <- MCKindOf
    Required = {"code", "test"}
    Paths = {p, q, t, report}
    Contents = {good, better, bad}
    Forbidden = {bad}
    None = None
    Inputs <- MCInputs
    Replies <- MCReplies
    Report <- MCReport
    Scanned = {code, test}
    Approved = {test}
    MaxAttempts = 2
    MaxSetAside = 1
CHECK_DEADLOCK FALSE
INVARIANTS
    ViewIsCurrent
    FilesAgree
    ForbiddenNeverPasses
