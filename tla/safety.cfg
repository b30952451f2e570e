CONSTANTS
    Clients = {t1, t2}
    Dispatchers = {s1}
    c1 = c1
    d1 = d1
    p1 = p1
    p2 = p2
    Documents = {d1, d2}
    Collections = {c1}
    Permissions = {p1, p2}
    Resource <- MCResource
    None = None
    Connections = {k1, k2}
    DocumentIds = {1}
    Jobs = {1, 2}
    Workers = {1}
    DocOf <- MCDocOf
    r1 = r1
    r2 = r2
    Askers = {r1, r2}
    Questions <- MCQuestions
    LlmThreshold = 2
    LlmAttempts = 2
    MaxOpenings = 2
SYMMETRY ThreadSymmetry
SPECIFICATION AllSpec
INVARIANTS
    CacheSound
    OnlyEditsInvertLocks
    CommitsCurrent
    NoDeadlock
    GuardsSound
CHECK_DEADLOCK FALSE
