---- MODULE Semaphore ----
(* coro/Semaphore.h: CountingSemaphore on a SpinLock and a ConditionVariable. Any      *)
(* coroutine may acquire, try to acquire and release, one permit or several in one     *)
(* call, whether it has acquired before or not: a mutex, a pool of permits, and the    *)
(* notifier that begins with none. The callers keep to release's two assertions: what  *)
(* is free and what is being released never exceeds LeastMaxValue.                     *)
EXTENDS SpinCondition

CONSTANTS
    LeastMaxValue, \* the template argument
    Desired,       \* the counts that the constructor may be given
    Rounds         \* bound: calls per coroutine

ASSUME SemaphoreAssumption ==
    /\ LeastMaxValue \in Nat /\ Desired \subseteq 0 .. LeastMaxValue /\ Rounds \in Nat
    /\ Conditions = {"cv"}

VARIABLES
    count,    \* count_
    update,   \* per coroutine, the argument of the release it is in, or 0
    round,    \* per coroutine, its calls so far
    given,    \* history: the permits of the constructor and of all calls of release
    acquired  \* history: how often acquire returned or try_acquire said true

history == <<given, acquired>>
vars == <<syncVars, count, update, round, history>>

Init ==
    /\ SyncInit
    /\ count \in Desired
    /\ update = [c \in Coros |-> 0]
    /\ round = [c \in Coros |-> 0]
    /\ given = count /\ acquired = 0

\* The permits that calls of release have still to add, told apart.
Pending == {p \in Coros \X (1 .. LeastMaxValue) : p[2] <= update[p[1]]}

Call(c, label) ==
    /\ pc[c] = "idle" /\ round[c] < Rounds
    /\ round' = [round EXCEPT ![c] = @ + 1]
    /\ Goto(c, label)
    /\ UNCHANGED <<locked, awaiters, at, count, acquired>>

CallAcquire(c) ==
    /\ \E label \in {"lockAcquire", "lockTryAcquire"} : Call(c, label)
    /\ UNCHANGED <<update, given>>

CallRelease(c) ==
    /\ Call(c, "lockRelease")
    /\ \E n \in 1 .. LeastMaxValue :
         /\ count + Cardinality(Pending) + n <= LeastMaxValue
         /\ update' = [update EXCEPT ![c] = n]
         /\ given' = given + n

\* co_await lock_.coScopedLock()
ScopedLock(c) ==
    /\ \/ pc[c] = "lockAcquire" /\ CoLock(c, "acquire")
       \/ pc[c] = "lockTryAcquire" /\ CoLock(c, "tryAcquire")
       \/ pc[c] = "lockRelease" /\ CoLock(c, "release")
    /\ UNCHANGED <<count, update, round, history>>

\* faulty variant: wait() does not test its predicate again
RelockUntested(c) ==
    /\ pc[c] = "relock" /\ ~locked
    /\ count' = count - 1 /\ acquired' = acquired + 1
    /\ at' = [at EXCEPT ![c] = "none"] /\ Goto(c, "idle")
    /\ UNCHANGED <<locked, awaiters, update, round, given>>

RelockWait(c) == Relock(c) /\ UNCHANGED <<count, update, round, history>>

\* --count_, and the scoped lock is released
TakePermit(c) ==
    /\ count' = count - 1
    /\ acquired' = acquired + 1
    /\ Unlock(c, "idle")

Acquire(c) ==
    /\ pc[c] = "acquire"
    /\ \/ count = 0 /\ Suspend(c, "cv", "acquire") /\ UNCHANGED <<count, acquired>>
       \/ count > 0 /\ TakePermit(c)
    /\ UNCHANGED <<update, round, given>>

TryAcquire(c) ==
    /\ pc[c] = "tryAcquire"
    /\ \/ count # 0 /\ TakePermit(c)
       \/ count = 0 /\ Unlock(c, "idle") /\ UNCHANGED <<count, acquired>>
    /\ UNCHANGED <<update, round, given>>

\* faulty variant: several permits wake one waiter
ReleaseOne(c) ==
    /\ pc[c] = "release"
    /\ count' = count + update[c]
    /\ update' = [update EXCEPT ![c] = 0]
    /\ NotifyOne(c, "cv", "idle")
    /\ UNCHANGED <<round, history>>

\* faulty variant: one permit wakes nobody
ReleaseSilent(c) ==
    /\ pc[c] = "release"
    /\ count' = count + update[c]
    /\ update' = [update EXCEPT ![c] = 0]
    /\ IF update[c] > 1 THEN NotifyAll(c, "cv", "idle") ELSE Unlock(c, "idle")
    /\ UNCHANGED <<round, history>>

\* several permits wake everybody, one permit wakes one waiter
Release(c) ==
    /\ pc[c] = "release"
    /\ count' = count + update[c]
    /\ update' = [update EXCEPT ![c] = 0]
    /\ IF update[c] > 1 THEN NotifyAll(c, "cv", "idle") ELSE NotifyOne(c, "cv", "idle")
    /\ UNCHANGED <<round, history>>

Step(c) == ScopedLock(c) \/ RelockWait(c) \/ Acquire(c) \/ TryAcquire(c) \/ Release(c)

\* Everybody has returned from its call, or waits for a permit and there is none.
Quiet == \A c \in Coros : pc[c] = "idle" \/ (pc[c] = "suspended" /\ count = 0)
Finished == Quiet /\ \A c \in Coros : pc[c] = "idle" => round[c] = Rounds

Next ==
    \/ \E c \in Coros : CallAcquire(c) \/ CallRelease(c) \/ Step(c)
    \/ Finished /\ UNCHANGED vars

Spec == Init /\ [][Next]_vars

\* The executor runs every coroutine that can run; nobody has to call anything.
FairSpec == Spec /\ \A c \in Coros : WF_vars(Step(c))

----
Critical == {"acquire", "tryAcquire", "release"}

TypeOK ==
    /\ locked \in BOOLEAN
    /\ awaiters \in [Conditions -> Seq(Coros)]
    /\ pc \in [Coros -> {"idle", "lockAcquire", "lockTryAcquire", "lockRelease", "suspended",
                         "relock"} \cup Critical]
    /\ at \in [Coros -> {"none", "acquire"}]
    /\ count \in 0 .. LeastMaxValue
    /\ update \in [Coros -> 0 .. LeastMaxValue]
    /\ round \in [Coros -> 0 .. Rounds]
    /\ given \in Nat /\ acquired \in Nat

\* CountingSemaphore: a suspended coroutine is on the list of waiters exactly once, and
\* nobody else is: no awaiter of a finished wait is ever resumed.
WaitersAreSuspended ==
    /\ ToSet(awaiters["cv"]) = {c \in Coros : pc[c] = "suspended"}
    /\ Len(awaiters["cv"]) = Cardinality(ToSet(awaiters["cv"]))

\* release: "internal counter should be less than LeastMaxValue"
ReleaseAssertHolds == \A c \in Coros :
    pc[c] = "release" => count <= LeastMaxValue - update[c]

\* acquire, try_acquire, release: an acquire that returns has had a permit of its own,
\* given to the constructor or to an earlier call of release, by whomever; none is lost:
\* what was given is free, acquired or about to be added. A waiter that is woken up twice,
\* or for nothing, takes none, count_ does not fall below zero, and the assertion of
\* release holds if its callers keep to it.
ConservesPermits ==
    /\ TypeOK /\ WaitersAreSuspended /\ ReleaseAssertHolds
    /\ count + acquired + Cardinality(Pending) = given

\* release: notifyOne for one permit and notifyAll for several are enough: while a
\* coroutine stays suspended, there are no more free permits than coroutines that were
\* woken up for them, newcomers that take a permit first notwithstanding.
NoIdlePermit == awaiters["cv"] # <<>> =>
    count <= Cardinality(Woken \cup {c \in Coros : pc[c] = "acquire"})

\* SpinLock::unlock: "assert(_locked.load(std::memory_order_acquire) == true)"
UnlockAssertHolds == \A c \in Coros : pc[c] \in Critical => locked

\* acquire, release: when no more calls are made, everybody returns from its call in the
\* end, but for those that wait for a permit when all of them are used up.
AllFinish == <>[]Quiet
====
