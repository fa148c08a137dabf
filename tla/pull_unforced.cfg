\* Unforced pulls, edits between commands, two crashes, one I/O error.
SPECIFICATION FairSpec
CONSTANTS
    note = note
    photo = photo
    h1 = h1
    h2 = h2
    u = u
    Absent = Absent
    Sync = Sync
    Paths <- MCPaths
    Assets <- MCAssets
    HubData = {h1, h2}
    UserData = {u}
    ForceFlags = {FALSE}
    RaceEdits = FALSE
    LateFaults = FALSE
    MaxSeq = 2
    MaxEdits = 2
    MaxCrashes = 2
    MaxFaults = 1
INVARIANTS
    TypeOK
    BaselineDescribesStore
PROPERTIES
    WorkSurvives
    PullIsAtomic
    JournalResolves
