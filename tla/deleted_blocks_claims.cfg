CONSTANTS
    d1 = d1
    d2 = d2
    w1 = w1
    w2 = w2
    s1 = s1
    s2 = s2
    s3 = s3
    None = None
    Docs = {d1, d2}
    Workers = {w1}
    Slots = {s1}
    Host <- SingleSlot
    Mortal = {}
    MaxVersions = 1
    MaxRetries = 0
    MaxClaims = 1
    LeaseDuration = 2
    DeadThreshold = 2
    MaxDelay = 1
    MaxFaults = 0
    Deletable = {d1}
    Timely = TRUE
    Reports = {TRUE, FALSE}
SPECIFICATION FairSpec
PROPERTY JobsSettle
