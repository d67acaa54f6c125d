SPECIFICATION FairSpec
CONSTANTS
    NoJob = NoJob
    Jobs = {0, 1, 2, 3}
    Prio <- MixedPriorities
    Workers = {w1, w2}
    QueueSize <- SingleQueues
    FairEvery = 2
INVARIANT PoolSafe
PROPERTIES ImplementsJobPool PoolLives
