\* Sessions, accounts, emergency access and single sign-on side by side.
SPECIFICATION MCSpec
CONSTANTS
    SessionRequests = {r1, r2}
    Devices = {d1}
    Anonymous = {a1}
    RecoveryCodes = {c1}
    Passwords = {"p"}
    FreePlan = TRUE
    MaxTokens = 4
    MaxSecrets = 2
    AccountRequests = {r1, r2}
    Emails = {"a", "A", "b"}
    Lower <- MCLower
    MaxAccounts = 2
    MaxCodes = 2
    GrantRequests = {r1, r2, r3}
    SsoRequests = {r1, r2}
    SsoOrgs = {o}
    SsoDomains = {x, y}
    MaxConnections = 2
    MaxLogins = 1
    MaxKeys = 2
\* the bounded inserts run out
CHECK_DEADLOCK FALSE
SYMMETRY MCSymmetry
INVARIANTS
    TypesOK
    EnabledIsConfirmed
    VerifiedWasProved
    OpenedHasVault
    DeletedVaultIsRetired
    OneCodeCounts
    EscrowKeyServes
PROPERTIES
    DeviceLimitHolds
    TokensServeOnce
    CodesServeOnce
    OpenedByConsent
    OneReadingPerApproval
    LoginServesOnce
