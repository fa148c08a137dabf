\* The user edits while forced and unforced pulls, rollbacks and recoveries run; errors may be
\* reported after the baseline was replaced.
SPECIFICATION Spec
CONSTANTS
    note = note
    photo = photo
    h1 = h1
    h2 = h2
    u = u
    Absent = Absent
    Sync = Sync
    Paths <- MCPaths
    Assets <- MCAssets
    HubData = {h1, h2}
    UserData = {u}
    ForceFlags = {FALSE, TRUE}
    RaceEdits = TRUE
    LateFaults = TRUE
    MaxSeq = 2
    MaxEdits = 2
    MaxCrashes = 1
    MaxFaults = 1
INVARIANTS
    BackedUpBeforeChanged
