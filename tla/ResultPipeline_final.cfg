SPECIFICATION Spec
CONSTANTS
    NoPoll = NoPoll
    Polls = {1, 2, 3}
    DeviceOf <- TwoDevices
    WorkerCount = 2
    ChanSize = 2
    BatchSize = 2
    MaxFaults = 0
INVARIANT FinalBatchPersisted
