\* Future::wait on a pair whose promise called forceSched().
CONSTANTS
    Producers = {p1, p2}
    PoolThreads = {p1}
    Consumer = c
    Worker = w
    Values = {v1}
    Uses = {"wait"}
    ForcedWait = TRUE
    MaxCalls = 1
    Parked = 0
    ChecksResult = TRUE
    WeakMemory = FALSE
SPECIFICATION Spec
INVARIANTS ExecutorNotNull
