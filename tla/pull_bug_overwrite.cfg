\* An edit between the divergence check and the backups.
SPECIFICATION Spec
CONSTANTS
    note = note
    photo = photo
    h1 = h1
    h2 = h2
    u = u
    Absent = Absent
    Sync = Sync
    Paths <- MCPaths
    Assets <- MCAssets
    HubData = {h1, h2}
    UserData = {u}
    ForceFlags = {FALSE}
    RaceEdits = TRUE
    LateFaults = FALSE
    MaxSeq = 2
    MaxEdits = 1
    MaxCrashes = 0
    MaxFaults = 0
PROPERTIES
    WorkSurvives
