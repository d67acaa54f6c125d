SPECIFICATION AccessSpec
CONSTANTS
    Components = {"AlertEngine", "Sessions", "LoginLimiter", "RequestLimiter",
                  "RemoteStore", "ChannelForms", "Backups"}
    q1 = q1
    q2 = q2
    NoAlert = NoAlert
    Engines = {e1}
    Ids = {q1, q2}
    Duration = 1
    Cooldown = 0
    AutoResolves = {TRUE, FALSE}
    HasAbsence = TRUE
    PortScans = TRUE
    Suppression = FALSE
    Acts = {"acknowledge", "resolve", "reopen", "delete"}
    MaxFaults = 0
    MaxCrashes = 1
    MaxFailures = 1
    a1 = a1
    a2 = a2
    Accounts = {a1, a2}
    AuthRequests = {q1, q2}
    StartRole <- StartRoles
    GrantRoles = {4, 5}
    NoAccount = NoAccount
    MaxTokens = 3
    MaxKeys = 1
    MaxAuthErrors = 1
    MaxChanges = 2
    Sources = {i1, i2}
    LoginNames = {u1}
    Attempts = {q1, q2}
    IpLimit = 1
    UserLimit = 1
    UserGlobalLimit = 2
    LoginWindow = 2
    MaxAttempts = 3
    MaxLimiterErrors = 1
    Burst = 2
    RefillPerTick = 1
    IdleLimit = 2
    Urls = {u1, u2}
    Keys = {k1, k2}
    RemoteEditorsOf = {q1, q2}
    NoKey = NoKey
    MaxRemoteWrites = 3
    Dumps = {q1, q2}
    BackupRequests = {r1}
    MaxSecond = 2
    MaxBackupCrashes = 1
    ChannelEditors = {q1, q2, q3}
    Secrets = {s1, s2}
    NoSecret = NoSecret
    Placeholder = Placeholder
    MaxChannelWrites = 4
SYMMETRY Symmetric
CHECK_DEADLOCK FALSE
INVARIANTS
    AlertedOnce
    SessionsSafe
    LoginLimiterSafe
    SecretsKept
    BackupsSafe
