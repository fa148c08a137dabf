\* One removal of a directory, and a person who fills it in time.
SPECIFICATION Spec
CONSTANTS
    Procs = {p}
    User = user
    None = none
    MaxTroubles = 0
    MaxTouches = 1
INVARIANT FullDirsStay
\* The command ends: the system may stop.
CHECK_DEADLOCK FALSE
