\* A refused pull followed by a checkpoint.
SPECIFICATION Spec
CONSTANTS
    readme = readme
    tool = tool
    h1 = h1
    h2 = h2
    u = u
    Absent = Absent
    Paths <- MCPaths
    Links = {}
    HubData = {h1, h2}
    UserData = {u}
    RaceEdits = FALSE
    TightEdits = FALSE
    LateFaults = FALSE
    MaxRemote = 1
    MaxEdits = 1
    MaxCrashes = 0
    MaxFaults = 0
    MaxCheckpoints = 1
PROPERTIES
    CheckpointSparesOthers
