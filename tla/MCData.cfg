SPECIFICATION DataSpec
CONSTANTS
    Components = {"CacheAside", "RuleCache", "DeviceAccess", "FlowRecords",
                  "CsvImport"}
    q1 = q1
    q2 = q2
    h1 = h1
    h2 = h2
    Readers = {q1, q2}
    Writers = {w1, w2}
    EntryTTL = 1
    FetchTime = 1
    MaxWrites = 2
    MaxRedisErrors = 1
    Places = {L1, L2}
    ScopedPlace = L1
    NoPlace = NoPlace
    Edits = {q1, q2}
    CopyTTL = 1
    LocationTTL = 1
    MaxWritesOfDevice = 2
    MaxScopeChanges = 1
    MaxInt = 15
    MaxSets = 2
    MaxRate = 7
    RecordRates = {0, 3, 9}
    OptionRates = {0, 2}
    Counters = {0, 1, 6, 31}
    FlowTimes = {0, 1, 9, 10, 30}
    Received = 10
    MaxAge = 5
    MaxFutureSkew = 2
    ImportHosts = {h1, h2, h3}
    NoHost = NoHost
    BarredHosts = {h3}
    MaxLines = 2
    MaxLookupErrors = 1
    MaxDeviceId = 4
    MaxImportChanges = 3
    Evaluations = {q1, q2}
    LocalEditors = {l1}
    RemoteEditors = {r1}
    RuleTTL = 1
    LoadTime = 1
    MaxEdits = 2
SYMMETRY Symmetric
CHECK_DEADLOCK FALSE
INVARIANTS
    CachesFresh
    FlowRecordsSafe
    CsvImportSafe
PROPERTIES
    DeviceAccessCorrect
