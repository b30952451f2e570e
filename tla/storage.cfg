CONSTANTS
    scheduler = scheduler
    admin = admin
    NumUploads = 2
    Contents = {c1}
    Detectors = {scheduler, admin}
    Modes <- MCModes
    BatchLimit = 1
    GraceOutlasts = TRUE
    Askers = {q1, q2}
    SearchDocs = {d1}
    Nobody = Nobody
    GenerationTries = 2
    MaxEdits = 1
    s1 = s1
    s2 = s2
    f1 = f1
    Visits = {w1}
    Visitors <- MCVisitors
    Shelved = {s1, s2}
    Folder = f1
    i1 = i1
    Inner = {i1}
    OwnerOf <- MCOwnerOf
    Rights = {1, 2, 3, 4}
    RightRow <- MCRightRow
    Absent = Absent
    MaxChanges = 2
    ToolKeys = {1, 2}
    ToolLimit <- MCToolLimit
    Minute = 3
    MaxTicks = 6
SPECIFICATION Spec
INVARIANT FileKept
INVARIANT ResolvedIsSettled
PROPERTY OrphansDeleted
INVARIANT ReadingSound
INVARIANT AnswersReadable
INVARIANT GenerationSound
PROPERTY GenerationEnds
CHECK_DEADLOCK FALSE
