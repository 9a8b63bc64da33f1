SPECIFICATION CloudSpec
CONSTANTS
    Jobs = {j1, j2}
    Workers = {w1, w2}
    NoJob = NoJob
    Registered = {j1}
    Backend = "cloud_run"
    LeaseDuration = 2
    HeartbeatInterval = 1
    QueuedAge = 1
    MaxDeliveries = 2
INVARIANTS TypeOK SingleExecutor LeaseOnlyWhileRunning
PROPERTIES ImplementsLifecycle OnlyOverdueWorkersExpire EveryJobEnds
