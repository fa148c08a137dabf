\* Adopt and quarantine with edits and another machine's vault write at any moment but
\* between the last comparison of a file and its replacement; one run is stopped.
SPECIFICATION FairSpec
CONSTANTS
    Paths <- MCPaths
    Assets <- MCAssets
    Values <- MCValues
    p1 = p1
    p2 = p2
    a = a
    v = v
    w = w
    Base = base
    None = none
    RaceEdits = TRUE
    TightEdits = FALSE
    RaceScope = FALSE
    LastAttempt = 1
    MaxOutside = 1
    MaxStops = 1
INVARIANTS
    TypeOK
    ReferencesResolve
    OriginalsStayHome
PROPERTIES
    EditsSurvive
    UnquarantinedClean
    JournalResolves
\* A user may never run adopt again: the system may stop.
CHECK_DEADLOCK FALSE
