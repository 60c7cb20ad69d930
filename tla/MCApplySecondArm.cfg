SPECIFICATION Spec
CONSTANTS
    c1 = c1
    c2 = c2
    f1 = f1
    t1 = t1
    t2 = t2
    Configs <- MCConfigs
    Foreign <- MCForeign
    Torn <- MCTorn
    None = None
    Timeout = 2
    SlowHandlers = TRUE
    MaxVersions = 2
    MaxFaults = 0
    MaxEdits = 0
INVARIANTS
    OneArmed
