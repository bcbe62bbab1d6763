\* Two threads; collectAll of three tasks in every mix of awaiting and counting down.
CONSTANTS
    Workers = {w1, w2}
    Tasks = 3
    Programs = {"future", "latch", "down"}
SPECIFICATION FairSpec
INVARIANTS SwitchedSafely AwaitReturnsLate
PROPERTIES AllFreed
CHECK_DEADLOCK FALSE
