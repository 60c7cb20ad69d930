SPECIFICATION Spec
CONSTANTS
    None = None
    Gone = Gone
    Names <- MCNames
    Derived <- MCDerived
    PeerIds = {1, 2, 3, 4}
    TemplateIds = {1}
    PolicyIds = {1, 2, 3, 4, 5, 6, 7}
    SetIds = {1, 2, 3, 4}
    ASSetIds = {1}
    Limits = {0, 1}
    Addrs <- MCAddrs
    Pattern <- MCPattern
    RPKIInvalid <- MCInvalid
    DefaultBogons <- MCDefaultBogons
    V4 = {1, 2, 3}
    V6 = {4}
    ASNs = {64501}
    Fabrics <- MCFabrics
    Wire <- MCWire
    Own <- MCOwn
    Texts <- MCTexts
    Layouts <- MCLayouts
    Passwords = {"old password", "new password"}
    Contexts = {0, 1, 3}
    InstanceIds = {1, 2}
    InstanceNames = {"amsterdam", "berlin"}
    Operators = {"operator"}
    MaxPolls = 2
    Clients = {"laptop", "desk"}
    Logins = {"laptop", "desk", "phone"}
    Addresses = {"home", "office", "train"}
    Tokens = {"t1", "t2", "t3"}
    Usernames = {"admin", "root"}
    MaxPassword = 2
    MaxFailures = 2
    MaxEntries = 2
    NoToken = "none"
    Forms = {"form", "other"}
    Values = {1}
    Hashes = {0, 1}
    Lists = {"all", "office"}
    Everyone = "all"
    TokenIds = {1, 2}
CHECK_DEADLOCK FALSE
INVARIANTS
    VetoesHold
    AnnouncedByPermission
    LintIsRight
    DiffIsFaithful
    AlertsMatchHealth
    SessionsKnowThePassword
    FewComparedWhileShutOut
    SettingsStay
