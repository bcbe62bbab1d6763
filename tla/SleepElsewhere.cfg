\* A Lazy of one executor sleeps on another one and then awaits a Future.
CONSTANTS
    Executors = {ex1, ex2}
    NoExecutor = none
    Starts = {ex1}
    Width = 1
    Awaits = 2
    InnerAwaits = 1
    Kinds = {"future", "sleep"}
SPECIFICATION Spec
INVARIANT ContextIsOwn
CHECK_DEADLOCK FALSE
