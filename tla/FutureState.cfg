\* Every set-up (executor or none, checkout, forceSched) and every use of the
\* Future; one copy of the Promise may set while the other is destroyed; p1 runs
\* on a thread of the executor.
CONSTANTS
    Producers = {p1, p2}
    PoolThreads = {p1}
    Consumer = c
    Worker = w
    Values = {v1, v2}
    Uses = {"then", "wait", "drop"}
    ForcedWait = FALSE
    MaxCalls = 1
    Parked = 0
    ChecksResult = TRUE
    WeakMemory = FALSE
SPECIFICATION FairSpec
INVARIANTS TypeOK DeliveredSound NothingDangles FallthroughAssertHolds
PROPERTIES ImplementsOneShot WaitReturns
