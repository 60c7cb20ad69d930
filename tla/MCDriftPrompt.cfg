SPECIFICATION FairDriftSpec
CONSTANTS
    c1 = c1
    c2 = c2
    f1 = f1
    t1 = t1
    t2 = t2
    Configs <- MCConfigs
    Foreign <- MCForeign
    Torn <- MCTorn
    None = None
    Missing = Missing
    Timeout = 2
    SlowHandlers = FALSE
    MaxVersions = 2
    MaxFaults = 0
    MaxEdits = 1
INVARIANTS
    ArmedDiskIsRevert
    SettledAgree
    OneArmed
PROPERTIES
    PendingIsResolved
    StandingDriftIsReported
