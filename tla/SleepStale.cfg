\* A sleep after a future that completed normally.
CONSTANTS
    Executors = {ex1}
    NoExecutor = none
    Starts = {none, ex1}
    Width = 1
    Awaits = 2
    InnerAwaits = 1
    Kinds = {"future", "sleep"}
SPECIFICATION Spec
INVARIANT SleepsOrThrows
CHECK_DEADLOCK FALSE
