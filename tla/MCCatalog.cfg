SPECIFICATION Spec
CONSTANTS
    None = None
    Gone = Gone
    Names <- MCNames
    Derived <- MCDerived
    PeerIds = {1, 2, 3}
    TemplateIds = {1, 2}
    PolicyIds = {1, 2, 3}
    SetIds = {1, 2, 3, 4}
    ASSetIds = {1, 2}
    Limits = {1, 2}
    Addrs = {}
    Pattern <- MCPattern
    RPKIInvalid = {}
    DefaultBogons <- MCDefaultBogons
    V4 = {4, 44}
    V6 = {6}
    ASNs = {65001, 65002}
    Requests = {1, 2}
    Scenarios <- MCScenarios
CHECK_DEADLOCK FALSE
INVARIANTS
    CatalogTypeOK
    ReferencesResolve
    LinkedPeersFollowTheirTemplate
    CommunityNamesResolve
    TemplateNamesAreTheirOwn
    InternalSessionsStayClean
    SetsStayUsable
PROPERTIES
    TemplateSparesWhatPeersOwn
    ConfigLoads
