SPECIFICATION DeskSpec
CONSTANTS
    Components = {"AlertDesk", "Incidents", "Conditions", "StatusPage",
                  "Locations", "Contacts", "HealthScore"}
    q1 = q1
    q2 = q2
    DeskAlerts = {a1, a2}
    OutOfScope = {a2}
    Desks = {q1, q2}
    MaxIds = 2
    MaxDeskActions = 3
    MaxDeskErrors = 1
    Operators = {q1, q2, q3}
    Assignees = {u1, u2}
    Severities = {"critical", "low"}
    SLALimit <- SLALimits
    MaxIncidentTime = 2
    MaxAppendErrors = 1
    AlertRules <- SampleRules
    SampleValues = {0, 3}
    BaselineTTL = 1
    MinBaselineSamples = 2
    RefreshTime = 1
    MaxSamples = 3
    MaxConditionClock = 3
    Hosts = {h1, h2, h3}
    Services <- TwoServices
    MaxRow = 5
    PageLimit = 2
    MaxPageWrites = 2
    Locs = {l1, l2, l3}
    NoLoc = NoLoc
    LocRequests = {q1, q2}
    Placed = {d1}
    MaxLocWrites = 2
    DayMinutes = 3
    ContactKinds = {"telegram", "email", "sms", "whatsapp"}
    Latencies = {40, 2525}
    TrendWindow = 1
    QuietPolls = 18
    MaxPolls = 3
    MaxActiveAlerts = 4
    MaxPortChanges = 5
    MaxScores = 1
SYMMETRY Symmetric
CHECK_DEADLOCK FALSE
INVARIANTS
    AlertDeskSafe
    IncidentsSafe
    ConditionsSafe
    StatusPageSafe
    ContactsSafe
PROPERTIES
    LocationsCorrect
    HealthScoreCorrect
