---- MODULE Latch ----
(* coro/Latch.h: a single-use barrier on a SpinLock and a ConditionVariable. Any number *)
(* of coroutines count it down, wait, do both or ask, each as often as it likes. What   *)
(* count_down's callers owe is its assertion: they never count down below zero.         *)
EXTENDS SpinCondition

CONSTANT Count \* the constructor's count

VARIABLES
    count, \* count_
    passed \* who was told, by wait or try_wait, that the count is zero

vars == <<syncVars, count, passed>>

Init ==
    /\ SyncInit
    /\ count = Count
    /\ passed = {}

Calls == {"lockDown", "lockArrive", "lockWait", "lockTry"}
Critical == {"down", "arrive", "wait", "try"}

Call(c, label) ==
    /\ pc[c] = "idle"
    /\ Goto(c, label)
    /\ UNCHANGED <<locked, awaiters, at, count, passed>>

\* co_await mutex_.coScopedLock()
ScopedLock(c) ==
    /\ \/ pc[c] = "lockDown" /\ CoLock(c, "down")
       \/ pc[c] = "lockArrive" /\ CoLock(c, "arrive")
       \/ pc[c] = "lockWait" /\ CoLock(c, "wait")
       \/ pc[c] = "lockTry" /\ CoLock(c, "try")
    /\ UNCHANGED <<count, passed>>

RelockWait(c) == Relock(c) /\ UNCHANGED <<count, passed>>

\* count_down(n), with its assertion as the range of n, alone or followed by the wait of arrive_and_wait: at
\* zero everybody is notified, with the lock held
CountDown(c, n) ==
    /\ count' = count - n
    /\ LET after == IF pc[c] = "arrive" THEN "lockWait" ELSE "idle" IN
       /\ pc[c] \in {"down", "arrive"}
       /\ IF count - n = 0 THEN NotifyAll(c, "cv", after) ELSE Unlock(c, after)
    /\ UNCHANGED passed

TryWait(c) ==
    /\ pc[c] = "try"
    /\ passed' = IF count = 0 THEN passed \cup {c} ELSE passed
    /\ Unlock(c, "idle")
    /\ UNCHANGED count

\* cv_.wait: the predicate is tested with the lock, before and after every suspension
Wait(c) ==
    /\ pc[c] = "wait"
    /\ \/ count # 0 /\ Suspend(c, "cv", "wait") /\ UNCHANGED passed
       \/ count = 0 /\ Unlock(c, "idle") /\ passed' = passed \cup {c}
    /\ UNCHANGED count

Step(c) ==
    \/ ScopedLock(c) \/ RelockWait(c) \/ TryWait(c) \/ Wait(c)
    \/ \E n \in 0 .. count : CountDown(c, n)

Next == \E c \in Coros : (\E label \in Calls : Call(c, label)) \/ Step(c)

Spec == Init /\ [][Next]_vars

----
TypeOK ==
    /\ locked \in BOOLEAN
    /\ awaiters \in [Conditions -> Seq(Coros)]
    /\ pc \in [Coros -> {"idle", "suspended", "relock"} \cup Calls \cup Critical]
    /\ at \in [Coros -> {"none", "wait"}]
    /\ count \in 0 .. Count
    /\ passed \subseteq Coros

\* The coroutines on the list of waiters are the suspended ones, and one that was woken
\* or is suspended will test the predicate of wait again.
WaitersListed ==
    \A c \in Coros : /\ c \in ToSet(awaiters["cv"]) <=> pc[c] = "suspended"
                     /\ pc[c] \in {"suspended", "relock"} => at[c] = "wait"

\* SpinLock: who is between coScopedLock and its end holds the lock, alone; unlock's
\* assertion that the lock is locked holds.
HoldsLock ==
    \A c \in Coros : pc[c] \in Critical =>
        locked /\ \A d \in Coros : pc[d] \in Critical => d = c

\* Once the count is zero nobody stays suspended, whoever came late or was about to suspend
\* when the last count_down notified.
NobodyLeftBehind == count = 0 => \A c \in Coros : pc[c] # "suspended"

\* wait and try_wait say that the count is zero only if it is, and stays so.
PassesAtZero == passed # {} => count = 0

====
