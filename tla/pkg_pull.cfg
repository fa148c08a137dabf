\* Pulls, checkpoints, kills, and one error (possibly of a write that took effect), with edits
\* at any moment but between the last check of a path and its write; one content is a symlink.
SPECIFICATION FairSpec
CONSTANTS
    readme = readme
    tool = tool
    h1 = h1
    h2 = h2
    u = u
    Absent = Absent
    Paths <- MCPaths
    Links = {h2}
    HubData = {h1, h2}
    UserData = {u}
    RaceEdits = TRUE
    TightEdits = FALSE
    LateFaults = TRUE
    MaxRemote = 1
    MaxEdits = 1
    MaxCrashes = 2
    MaxFaults = 1
    MaxCheckpoints = 1
INVARIANTS
    TypeOK
    ReceiptDescribesCompanions
    RollbackPossible
PROPERTIES
    JournalResolves
    WorkSurvives
    CheckpointConflicts
