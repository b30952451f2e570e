CONSTANTS
    Events = {e1, e2}
    Dispatchers = {p1, p2}
    None = None
    MaxRetries = 1
    MaxLimit = 2
    LeaseDuration = 2
    RetryInitial = 1
    RetryMax = 2
    MaxFaults = 2
    MaxClaims = 2
    Jobs = {j1, j2}
    MaxConcurrency = 2
    NoJob = NoJob
    MaxSections = 2
    MaxLength = 5
    MaxWindow = 4
    Chunks = {1, 2, 3}
    DocumentOf <- MCDocumentOf
    Scores <- MCScores
    Definition <- MCDefinition
    Declared <- MCDeclared
    Settings <- MCSettings
    MaxQueries = 2
    RetrieverTopK = 2
    DocumentScopeTopN = 1
    RerankerTopK = 1
    RrfConstant = 1
    Scale = 6
    Bm25Threshold = 2
    MinDocScore = 1
    MinQualifyingDocs = 2
    MinTopScore = 6
    MinGateScore = 6
    MinDocCount = 1
    Texts <- MCTexts
SPECIFICATION AllSpec
INVARIANT EffectWithProcessed
INVARIANT RowsAccounted
INVARIANT HeldUntilCommit
INVARIANT PassagesSound
INVARIANT RetrievalSound
PROPERTY LeaseRespected
PROPERTY DeliversEvents
INVARIANT WorkerSound
PROPERTY StopCompletes
