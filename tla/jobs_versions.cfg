CONSTANTS
    d1 = d1
    d2 = d2
    w1 = w1
    w2 = w2
    s1 = s1
    s2 = s2
    s3 = s3
    None = None
    Docs = {d1}
    Workers = {w1}
    Slots = {s1}
    Host <- SingleSlot
    Mortal = {}
    MaxVersions = 2
    MaxRetries = 1
    MaxClaims = 3
    LeaseDuration = 2
    DeadThreshold = 1
    MaxDelay = 1
    MaxFaults = 1
    Deletable = {d1}
    Timely = FALSE
    Reports = {TRUE, FALSE}
SPECIFICATION Spec
INVARIANT LifecycleInv
INVARIANT ServedVersionIntact
INVARIANT OnlyCurrentSearchable
PROPERTY ImplementsLifecycle
