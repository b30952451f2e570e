CONSTANTS
    Processes = {p1, p2}
    HomeOf <- MCHome
    p1 = p1
    p2 = p2
    r1 = r1
    r2 = r2
    a1 = a1
    Requests = {r1, r2}
    Calls = {k1, k2}
    Admins = {a1}
    Revokers = {v1, v2}
    MaxChanges = 1
    MaxTime = 3
    Expiration = 2
    RoleTTL = 2
    Skew = 1
    Embedders = {e1, e2}
    Searching = {e1}
    Attempts = 2
    Threshold = 2
    MaxItems = 2
    CharBudget = 2
    TokenBudget = 2
    Sizes <- MCSizes
    MaxTexts = 3
    Writers = {w1}
    Native = {n1}
    Xhr = {x1}
    MaxCommits = 2
    MaxRoleChanges = 1
    Emails = {address1}
    RoleCodes = {USER}
    UserRole = USER
    CollectionIds = {1, 2, 3}
    Papers = {paper1}
    Clerks = {m1, m2}
    ProcessOf <- MCProcessOf
    MaxGrants = 2
    Nobody = Nobody
    MaxDepth = 3
    MaxWrites = 2
    digest1 = digest1
    digest2 = digest2
    digest3 = digest3
    other2 = other2
    q1 = q1
    q2 = q2
    q3 = q3
    Runners = {q1, q2, q3}
    Package <- MCPackage
    MaxBreaks = 2
    h1 = h1
    h2 = h2
    Servers = {h1, h2}
    Layers <- MCLayers
    ModelOf <- MCModelOf
    MaxLaunches = 3
    LongestPeriod = 1000000
    Malformed = Malformed
SPECIFICATION Spec
INVARIANT RolesFresh
PROPERTY RevokedStaysOut
PROPERTY ProbeSettles
INVARIANT EmbeddingSound
PROPERTY ChangesShown
INVARIANT AdministrationSound
INVARIANT VerdictHolds
INVARIANT MigrationsTruthful
INVARIANT StartupSound
CHECK_DEADLOCK FALSE
