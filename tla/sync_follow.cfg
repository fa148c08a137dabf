\* Unforced commands; the commands and the hub are fair.  A user who has deleted every file of
\* a clone with a baseline is refused by push and by pull: the system may stop.
SPECIFICATION FairSpec
CONSTANTS
    a = a
    b = b
    note = note
    todo = todo
    d1 = d1
    d2 = d2
    Absent = Absent
    Clones <- MCClones
    Paths <- MCPaths
    Data <- MCData
    ForceFlags = {FALSE}
    PackRetries = 1
    MaxHead = 2
    MaxEdits = 1
    MaxFailures = 1
PROPERTIES
    CatchesUp
CHECK_DEADLOCK FALSE
