\* Two commands of the five kinds with one destination, two mishaps and a person; four
\* asset rows of three blobs in pages of three and windows of two, two faults, one edit;
\* two operations on one path, one trouble, one touch of a person.
SPECIFICATION MCSpec
CONSTANTS
    p = p
    q = q
    p1 = p1
    p2 = p2
    p3 = p3
    p4 = p4
    a = a
    b = b
    c = c
    User = user
    None = none
    Procs <- MCProcs
    Paths <- MCPaths
    Blobs <- MCBlobs
    Declared <- MCDeclared
    Secrets <- MCSecrets
    KeepLists <- MCKeepLists
    Holdings <- MCHoldings
    EarlyUse = FALSE
    MaxMishaps = 2
    PageSize = 3
    WindowSize = 2
    Attempts = 2
    MaxFaults = 2
    MaxEdits = 1
    MaxTroubles = 1
    MaxTouches = 1
INVARIANTS
    FilesTypeOK
    PublishedWhole
    AnswersTrue
    OnlyDeclaredBytesLeave
    TransfersExact
PROPERTIES
    WorkSurvives
    AllEnd
    WritesAreAtomic
\* The commands end: the system may stop.
CHECK_DEADLOCK FALSE
