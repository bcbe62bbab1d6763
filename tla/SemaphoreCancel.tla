---- MODULE SemaphoreCancel ----
(* A coroutine in CountingSemaphore::acquire whose Terminate signal is emitted. The  *)
(* signal is seen where SpinLock::coLock yields, also when wait() locks again.       *)
EXTENDS Semaphore

CONSTANT Cancellable \* the coroutines whose signal may be emitted

\* coLock out of spins: co_await Yield{} puts the coroutine back into the executor
YieldLock(c) ==
    /\ c \in Cancellable /\ locked
    /\ pc[c] \in {"lockAcquire", "relock"}
    /\ Goto(c, IF pc[c] = "relock" THEN "yieldRelock" ELSE "yieldLock")
    /\ UNCHANGED <<locked, awaiters, at, count, update, round, history>>

\* The executor resumes it to spin again,
YieldBack(c) ==
    /\ pc[c] \in {"yieldLock", "yieldRelock"}
    /\ Goto(c, IF pc[c] = "yieldRelock" THEN "relock" ELSE "lockAcquire")
    /\ UNCHANGED <<locked, awaiters, at, count, update, round, history>>

\* or, its signal having been emitted, await_resume throws: inside wait() the
\* unique_lock of acquire(), which still believes to own lock_, unlocks it on the way
YieldThrow(c) ==
    /\ pc[c] \in {"yieldLock", "yieldRelock"}
    /\ locked' = IF pc[c] = "yieldRelock" THEN FALSE ELSE locked
    /\ Goto(c, "cancelled")
    /\ UNCHANGED <<awaiters, at, count, update, round, history>>

CancelNext == Next \/ \E c \in Coros : YieldLock(c) \/ YieldBack(c) \/ YieldThrow(c)

CancelSpec == Init /\ [][CancelNext]_vars
====
