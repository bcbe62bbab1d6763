\* A job schedules another one while the pool is being destroyed.
CONSTANTS
    client = client
    a = a
    b = b
    d = d
    e = e
    Clients = {client}
    ThreadNum = 2
    Jobs = {a, b, d, e}
    Parent <- MCParent
    NullJobs = {e}
    ContextThreads <- MCWorkers
SPECIFICATION Spec
INVARIANTS AcceptedIsRun
