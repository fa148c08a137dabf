\* A crash while cleaning up after a recovery.
SPECIFICATION Spec
CONSTANTS
    note = note
    photo = photo
    h1 = h1
    h2 = h2
    u = u
    Absent = Absent
    Sync = Sync
    Paths <- MCPaths
    Assets <- MCAssets
    HubData = {h1, h2}
    UserData = {u}
    ForceFlags = {FALSE}
    RaceEdits = FALSE
    LateFaults = FALSE
    MaxSeq = 2
    MaxEdits = 0
    MaxCrashes = 2
    MaxFaults = 0
INVARIANTS
    RecoverableUnlessEdited
