\* Contexts are checked out on threads of the pool.
CONSTANTS
    client = client
    a = a
    b = b
    d = d
    e = e
    Clients = {client}
    ThreadNum = 2
    Jobs = {a, b, d, e}
    Parent <- MCParent
    NullJobs = {e}
    ContextThreads <- MCWorkers
SPECIFICATION FairSpec
INVARIANTS TypeOK ConservesJobs NoLostWakeup RunsAtHome
PROPERTIES QueuedBeforeStopRuns DestructorReturns
