\* Health checks, resource limits and the restarts they cause.
SPECIFICATION Spec
CONSTANTS
    Checks = {"http", "tcp"}
    Retries = 2
    FailureCap = 2
    BreachCap = 2
    Warmup = 2
    Grace = 1
    Duration = 2
    Memory = {0, 1, 3}
    MemoryMax = 1
    SpikeRatio = 3
    Environments <- AllEnvironments
INVARIANTS
    TypeOK
    BreachesAreReal
PROPERTIES
    AilingIsRestarted
    StopReturns
CHECK_DEADLOCK FALSE
