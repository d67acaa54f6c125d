SPECIFICATION FairSpec
CONSTANTS
    Devices = {d1}
    Slots = {1, 2}
    Critical = {}
    WorkerCount = 1
    QueueSize <- TightQueues
    UnreachableAfter = 2
    Statuses = {"up", "down"}
    MaxEdits = 2
INVARIANT InFlightHasJob PollsBoundedByAdds
PROPERTY PollingLives
