\* Two clones that push, pull and clone, forced or not, with an edit and a failure at any step.
SPECIFICATION Spec
CONSTANTS
    a = a
    b = b
    note = note
    todo = todo
    d1 = d1
    d2 = d2
    Absent = Absent
    Clones <- MCClones
    Paths <- MCPaths
    Data <- MCData
    ForceFlags = {FALSE, TRUE}
    PackRetries = 0
    MaxHead = 3
    MaxEdits = 1
    MaxFailures = 1
SYMMETRY MCSymmetry
INVARIANTS
    TypeOK
    BaselineIsHosted
    NoSilentRevert
PROPERTIES
    WorkSurvives
