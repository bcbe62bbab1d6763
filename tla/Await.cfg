\* Two executors of two threads; the inner and the outer Lazy await once each.
CONSTANTS
    Executors = {ex1, ex2}
    NoExecutor = none
    Starts = {none, ex1}
    Width = 2
    Awaits = 2
    InnerAwaits = 1
    Kinds = {"future", "void", "by_schedule", "awaitable", "sleep", "yield", "dispatch"}
SPECIFICATION FairSpec
INVARIANTS ResumedOnce OutcomeIsTrue RunsInPlace
PROPERTIES CancelGetsOut CallerReturns
CHECK_DEADLOCK FALSE
