SPECIFICATION PollerSpec
CONSTANTS
    p1 = p1
    Peers <- MCPeers
    Counts <- MCCounts
    Bird = Bird
    None = None
    Baseline = 3
    Limit = 4
    FlapWindow = 1
    MaxMoves = 7
    MaxFaults = 2
INVARIANTS
    TimelineIsTrue
PROPERTIES
    NoAlarmForSwitchedOff
    DropsAreReal
