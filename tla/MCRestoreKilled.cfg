SPECIFICATION Spec
CONSTANTS
    d1 = d1
    d2 = d2
    d3 = d3
    Contents <- MCContents
    None = None
    Torn = Torn
    MaxFaults = 1
    MaxStops = 1
INVARIANTS
    ContentKept
