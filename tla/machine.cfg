\* Two updating commands on each platform with three releases and a kill or failure; two
\* commands that sign in and out with two slots; a session of two frames with two faults.
SPECIFICATION MCSpec
CONSTANTS
    p = p
    q = q
    k = k
    s1 = s1
    s2 = s2
    s3 = s3
    None = none
    Procs <- MCProcs
    Sessions <- MCSessions
    UserKeys <- MCUserKeys
    Platforms = {"linux", "macos", "windows"}
    Newest = 3
    MaxFiles = 4
    MaxTroubles = 1
    MaxDays = 0
    Slots = 2
    ExchangeAttempts = 2
    MaxLogins = 3
    MaxMishaps = 2
    MaxFrames = 2
    ConnectAttempts = 2
    Hard = 1
    Budget = 2
    Slack = 1
    MaxFaults = 2
INVARIANTS
    MachineTypeOK
    OnlyApproved
    LastCopySurvives
    SlotsAccounted
    UserKeysSpared
    AnswersMatch
    OneRunPerCall
PROPERTIES
    CatchesUp
    AllEnd
\* The commands of a bounded instance all end: the system may stop.
CHECK_DEADLOCK FALSE
