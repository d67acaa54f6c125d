SPECIFICATION ServeSpec
CONSTANTS
    Components = {"AlertEngine", "Hub", "Capture", "Reports", "Rollups",
                  "RetentionSweep"}
    NoAlert = NoAlert
    Engines = {e1}
    Ids = {a1, a2}
    Duration = 2
    Cooldown = 2
    AutoResolves = {TRUE}
    HasAbsence = FALSE
    PortScans = TRUE
    Suppression = FALSE
    Acts = {"resolve", "delete"}
    MaxFaults = 1
    MaxCrashes = 1
    MaxFailures = 1
    Conns = {c1}
    BroadcastCap = 2
    SendCap = 1
    MaxVersion = 3
    MaxBreaks = 1
    MaxSessions = 2
    MaxPackets = 1
    MaxBytes = 3
    MaxStops = 1
    Schedules = {s1, s2}
    ScheduleKinds = {"sound", "no scope", "bad cron", "no next"}
    FireTimes = {1}
    NoSchedule = NoSchedule
    MaxReportTime = 2
    MaxReportFaults = 1
    MaxManualRuns = 1
    Tables <- PrunedTables
    KeepDays <- KeptDays
    PruneRows = {1, 2}
    PruneBatch = 1
    MaxSweepDay = 2
    MetricsDays = {0, 1, 4}
    HourlyDays = {0, 2, 4}
    MinRawDays = 3
    HourlyWindow = 2
    DailyWindow = 3
    LastDay = 5
    MaxDaySamples = 1
CHECK_DEADLOCK FALSE
PROPERTIES
    RuleHonoured
    HubCorrect
    CaptureCorrect
    ReportsCorrect
    RetentionCorrect
