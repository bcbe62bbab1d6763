---- MODULE SpinCondition ----
(* coro/SpinLock.h and coro/ConditionVariable.h as Semaphore.h, Latch.h and         *)
(* SharedMutex.h use them: one SpinLock, condition variables on it, and every        *)
(* notification made with the lock held. What a coroutine does between taking the    *)
(* lock and releasing it is one step, for only the lock word is seen by others; the  *)
(* waiters it resumes run on its thread until they spin on the lock and yield.       *)
EXTENDS Integers, Sequences, FiniteSets, SequencesExt

CONSTANTS
    Coros,      \* the coroutines
    Conditions  \* the condition variables

VARIABLES
    locked,   \* SpinLock::_locked
    awaiters, \* per condition variable, _awaiters: the newest waiter first
    pc,       \* per coroutine, where it is
    at        \* per coroutine in wait(), the predicate to test with the lock

syncVars == <<locked, awaiters, pc, at>>

SyncInit ==
    /\ locked = FALSE
    /\ awaiters = [v \in Conditions |-> <<>>]
    /\ pc = [c \in Coros |-> "idle"]
    /\ at = [c \in Coros |-> "none"]

Goto(c, label) == pc' = [pc EXCEPT ![c] = label]

\* coLock: a tryLock that succeeds; one that fails, the spinning and the co_await
\* Yield{} of a coroutine that is not cancelled change nothing
CoLock(c, label) ==
    /\ ~locked /\ locked' = TRUE
    /\ Goto(c, label)
    /\ UNCHANGED <<awaiters, at>>

\* wait() when its predicate is false: await_suspend pushes the awaiter and unlocks
Suspend(c, v, label) ==
    /\ awaiters' = [awaiters EXCEPT ![v] = <<c>> \o @]
    /\ at' = [at EXCEPT ![c] = label]
    /\ Goto(c, "suspended")
    /\ locked' = FALSE

\* resumeWaiters on the n newest waiters of v, who then lock again, and unlock
ResumeAndUnlock(c, v, n, label) ==
    /\ awaiters' = [awaiters EXCEPT ![v] = SubSeq(@, n + 1, Len(@))]
    /\ pc' = [d \in Coros |->
                IF d = c THEN label
                ELSE IF d \in ToSet(SubSeq(awaiters[v], 1, n)) THEN "relock" ELSE pc[d]]
    /\ locked' = FALSE
    /\ UNCHANGED at

\* notifyOne() returns at once if there is no waiter
NotifyOne(c, v, label) ==
    ResumeAndUnlock(c, v, IF awaiters[v] = <<>> THEN 0 ELSE 1, label)

NotifyAll(c, v, label) == ResumeAndUnlock(c, v, Len(awaiters[v]), label)

Unlock(c, label) ==
    /\ locked' = FALSE
    /\ Goto(c, label)
    /\ UNCHANGED <<awaiters, at>>

\* wait() once resumed: co_await lock.coLock(), then the predicate again
Relock(c) ==
    /\ pc[c] = "relock"
    /\ ~locked /\ locked' = TRUE
    /\ Goto(c, at[c])
    /\ at' = [at EXCEPT ![c] = "none"]
    /\ UNCHANGED awaiters

Woken == {c \in Coros : pc[c] = "relock"}
====
