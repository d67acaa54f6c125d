SPECIFICATION CollectSpec
CONSTANTS
    Components = {"ResultPipeline", "PollLock", "MetricBuffer", "FleetSync",
                  "Topology", "Discovery"}
    p1 = p1
    p2 = p2
    d1 = d1
    NoPoll = NoPoll
    Polls = {p1, p2}
    DeviceOf <- OneDevice
    WorkerCount = 1
    ChanSize = 1
    BatchSize = 2
    MaxFaults = 1
    Instances = {i1, i2, i3}
    LockTTL = 2
    PollDeadline = 3
    Nobody = Nobody
    MaxLockErrors = 1
    MaxLockCrashes = 1
    Metrics = {m1, m2, m3}
    Poison = {m2, m3}
    BufferBatch = 2
    DrainLimit = 2
    DeadMax = 1
    MaxOutages = 1
    MaxBufferCrashes = 1
    GraceDays = 1
    MaxSyncDays = 2
    MaxFleetChanges = 3
    MaxSyncFaults = 2
    Nodes = {n1, n2, n3}
    NoNode = NoNode
    Day = 4
    MaxTopoChanges = 1
    Jobs = {j1}
    Addresses4 = {a1, a2, a3}
    Concurrency = 2
    MaxScanErrors = 1
    MaxScanCrashes = 1
    MaxAdded = 1
CHECK_DEADLOCK FALSE
PROPERTIES
    ResultsArrive
    PollLockCorrect
    MetricBufferCorrect
    FleetSyncCorrect
    TopologyCorrect
    DiscoveryCorrect
