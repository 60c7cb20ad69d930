SPECIFICATION FairAlertsSpec
CONSTANTS
    p1 = p1
    sessions = sessions
    outages = outages
    Peers <- MCPeers
    Destinations <- MCDestinations
    Wants <- MCWants
    Counts <- MCCounts
    Bird = Bird
    None = None
    Baseline = 3
    Limit = 0
    FlapWindow = 1
    Cooldown = 1
    QueueCap = 2
    MaxMoves = 3
    MaxFaults = 1
INVARIANTS
    LastWordIsTheTimelines
PROPERTIES
    OutageIsHeard
    BirdOutageIsHeard
