SPECIFICATION DriftSpec
CONSTANTS
    c1 = c1
    c2 = c2
    f1 = f1
    t1 = t1
    t2 = t2
    Configs <- MCConfigs
    Foreign <- MCForeign
    Torn <- MCTorn
    None = None
    Missing = Missing
    Timeout = 2
    SlowHandlers = TRUE
    MaxVersions = 2
    MaxFaults = 1
    MaxEdits = 1
SYMMETRY Symmetry
INVARIANTS
    TypeOK
    AtMostOnePending
    NeverLocksItselfOut
    NoFalseAlarm
PROPERTIES
    ResolvedIsFinal
    ApplySparesHandEdits
    ImplementsChangeControl
