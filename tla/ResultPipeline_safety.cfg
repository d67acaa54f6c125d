SPECIFICATION Spec
CONSTANTS
    NoPoll = NoPoll
    Polls = {1, 2, 3}
    DeviceOf <- TwoDevices
    WorkerCount = 2
    ChanSize = 1
    BatchSize = 2
    MaxFaults = 1
PROPERTY ResultsSafe
