SPECIFICATION StartStopSpec
CONSTANTS
    Components = {"FlowIngest", "Delivery", "Startup", "Lifecycle"}
    Exporters = {x1, x2}
    MaxExporters = 1
    ExporterIdleTTL = 1
    QueueSize = 2
    BatchSize = 2
    FlowsPerDatagram = 2
    MaxDatagrams = 3
    MaxFlowClock = 3
    MaxWriteErrors = 1
    Alerts = {a1, a2}
    NotifWorkers = {w1}
    NoAlert = NoAlert
    NotifQueueSize = 1
    MaxRetries = 1
    MaxDeliveryErrors = 1
    ChannelIDs <- TwoChannels
    s1 = s1
    s2 = s2
    Servers = {s1, s2}
    ConfiguredDays <- DaysOfServers
    Versions = 2
    Defaults = 2
    NoServer = NoServer
    MaxDeaths = 1
    MaxLockLosses = 1
    PollRuns = {p1, p2}
    Handlers = {h1}
    MaxTroubles = 1
CHECK_DEADLOCK FALSE
PROPERTIES
    FlowIngestCorrect
    DeliveryCorrect
    StartupCorrect
    LifecycleCorrect
