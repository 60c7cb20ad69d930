SPECIFICATION FairSpec
CONSTANTS
    d1 = d1
    d2 = d2
    d3 = d3
    Contents <- MCContents
    None = None
    Torn = Torn
    MaxFaults = 2
    MaxStops = 2
INVARIANTS
    TypeOK
    OpensWhole
    FileKept
PROPERTIES
    ImplementsAtomicRestore
    StagedIsApplied
