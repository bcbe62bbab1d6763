\* Four coroutines lock and unlock for ever.
CONSTANTS
    Coros = {c1, c2, c3, c4}
    Unlocked = unlocked
    Null = null
    Nobody = nobody
SPECIFICATION FairSpec
INVARIANTS TypeOK MutualExclusion WaitersKept
PROPERTIES ImplementsFifoLock WaiterAcquires
