\* The vault, access, sends, policies, guards, caches, breach monitor, mail
\* jobs, a user's own items and telemetry.
SPECIFICATION MCSpec
CONSTANTS
    VaultRequests = {r1, r2}
    Names = {"General", "x"}
    DefaultName = "General"
    PlanCollections = 3
    MaxRows <- MCMaxRows
    AccessRequests = {r1, r2}
    OrgMembers = {adm, m}
    OrgAdmins = {adm}
    TeamManagers = {adm}
    Collections = {c}
    Levels = {{}, {"admin"}}
    Cascade = FALSE
    MaxTeams = 2
    MaxAccessRows = 3
    SendRequests = {r1, r2}
    AccessLimits = {0, 2}
    MaxCount = 3
    LastDay = 2
    PolicyRequests = {r1, r2}
    PolicyTypes = {"single", "sso", "twofactor", "firewall"}
    Dependencies <- MCDependencies
    Tier <- MCTier
    Plans = {1, 2}
    TwoFactorType = "twofactor"
    FirewallType = "firewall"
    Addresses = {"x"}
    MaxRules = 2
    LoginRequests = {r1, r2}
    MaxAttempts = 2
    Window = 1
    BlockFor = 2
    KeepFor = 3
    LastTime = 7
    MaxUnread = 1
    RateRequests = {r1, r2}
    Rate = 2
    Burst = 1
    IdleFor = 2
    EndTime = 7
    IconRequests = {r1, r2}
    Domains = {"d1", "d2"}
    Icons = {"a", "b"}
    Extensions <- MCExtensions
    CacheLimit = 1
    MaxOrder = 3
    HashPrefixes = {"p1", "p2"}
    MaxRanges = 1
    MonitorRequests = {r1, r2}
    Emails = {"e1", "e2"}
    Breaches = {"b1", "b2"}
    MaxEmails = 2
    MaxRecords = 3
    LastUser = 3
    Unmailable = {3}
    PageSize = 1
    BatchSize = 2
    MaxTries = 2
    MaxMoves = 1
    ItemRequests = {r1, r2}
    MaxItems = 2
    TelemetryRequests = {r1, r2}
    Places = {"p", "q"}
    Codeless = {"q"}
    Kinds = {"a", "b"}
    UnlistedKind = "a"
    SampledOut <- MCSampledOut
    MaxEvents = 3
\* the bounded inserts run out
CHECK_DEADLOCK FALSE
INVARIANTS
    VaultTypesOK
    NothingOrphaned
    OnceEach
    WritesStay
    ViewsWithinLimit
    EnabledHasDependencies
    GuardsHold
PROPERTIES
    WorkIsDone
