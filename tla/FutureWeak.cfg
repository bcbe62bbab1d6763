\* compare_exchange(release) on a machine where it acquires nothing.
CONSTANTS
    Producers = {p1, p2}
    PoolThreads = {p1}
    Consumer = c
    Worker = w
    Values = {v1}
    Uses = {"then", "wait", "drop"}
    ForcedWait = FALSE
    MaxCalls = 1
    Parked = 0
    ChecksResult = TRUE
    WeakMemory = TRUE
SPECIFICATION Spec
INVARIANTS DeliveredSound
