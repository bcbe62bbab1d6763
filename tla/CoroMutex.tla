---- MODULE CoroMutex ----
(* coro::Mutex (coro/Mutex.h): a lock whose waiters suspend. _state is one atomic   *)
(* word: `this` when unlocked, nullptr when locked, or the newest of the waiters    *)
(* queued since the last unlock, linked newest first. _waiters is the list, oldest  *)
(* first, that only the holder touches. One step is one access of _state.           *)
EXTENDS Integers, Sequences

CONSTANTS
    Coros,      \* the coroutines; each one's LockAwaiter is named by it
    Unlocked,   \* the value `this` of _state
    Null,       \* nullptr
    Nobody      \* no holder

ASSUME CorosAssumption ==
    /\ {Unlocked, Null, Nobody} \cap Coros = {}
    /\ Unlocked # Null

VARIABLES
    locked,   \* _state # unlockedState()
    stack,    \* the LIFO list that _state points to
    waiters,  \* the FIFO list _waiters
    pc,
    old       \* per coroutine, lockAsyncImpl's oldValue

vars == <<locked, stack, waiters, pc, old>>

\* the word an atomic load of _state returns: a compare_exchange sees only this
StateWord ==
    IF ~locked THEN Unlocked ELSE IF stack = <<>> THEN Null ELSE stack[1]

Flip(s) == [i \in 1 .. Len(s) |-> s[Len(s) + 1 - i]]

Init ==
    /\ locked = FALSE /\ stack = <<>> /\ waiters = <<>>
    /\ pc = [c \in Coros |-> "idle"]
    /\ old = [c \in Coros |-> Null]

\* tryLock(): returns true ...
TryLock(c) ==
    /\ pc[c] = "idle" /\ ~locked
    /\ locked' = TRUE
    /\ pc' = [pc EXCEPT ![c] = "held"]
    /\ UNCHANGED <<stack, waiters, old>>

\* ... or false: as await_ready() of coLock() it leads to await_suspend()
Suspend(c) ==
    /\ pc[c] = "idle" /\ locked
    /\ pc' = [pc EXCEPT ![c] = "load"]
    /\ UNCHANGED <<locked, stack, waiters, old>>

LoadOld(c) ==
    /\ pc[c] = "load"
    /\ old' = [old EXCEPT ![c] = StateWord]
    /\ pc' = [pc EXCEPT ![c] = "cas"]
    /\ UNCHANGED <<locked, stack, waiters>>

\* faulty variant: the lock taken on a stale load of _state
CasAcquireBlind(c) ==
    /\ pc[c] = "cas" /\ old[c] = Unlocked
    /\ locked' = TRUE
    /\ pc' = [pc EXCEPT ![c] = "held"]
    /\ UNCHANGED <<stack, waiters, old>>

\* acquired synchronously after all: await_suspend returns false
CasAcquire(c) ==
    /\ pc[c] = "cas" /\ old[c] = StateWord /\ old[c] = Unlocked
    /\ locked' = TRUE
    /\ pc' = [pc EXCEPT ![c] = "held"]
    /\ UNCHANGED <<stack, waiters, old>>

\* faulty variant: _next taken for a waiter even when it is nullptr
CasEnqueueNull(c) ==
    /\ pc[c] = "cas" /\ old[c] = StateWord /\ old[c] # Unlocked
    /\ stack' = <<c, old[c]>>
    /\ pc' = [pc EXCEPT ![c] = "waiting"]
    /\ UNCHANGED <<locked, waiters, old>>

\* faulty variant: _next not set to the waiters already queued
CasEnqueueUnlinked(c) ==
    /\ pc[c] = "cas" /\ old[c] = StateWord /\ old[c] # Unlocked
    /\ stack' = <<c>>
    /\ pc' = [pc EXCEPT ![c] = "waiting"]
    /\ UNCHANGED <<locked, waiters, old>>

\* queued: the coroutine stays suspended until it is handed the lock
CasEnqueue(c) ==
    /\ pc[c] = "cas" /\ old[c] = StateWord /\ old[c] # Unlocked
    /\ stack' = <<c>> \o stack
    /\ pc' = [pc EXCEPT ![c] = "waiting"]
    /\ UNCHANGED <<locked, waiters, old>>

CasFails(c) ==
    /\ pc[c] = "cas" /\ old[c] # StateWord
    /\ old' = [old EXCEPT ![c] = StateWord]
    /\ UNCHANGED <<locked, stack, waiters, pc>>

\* unlock() with a waiter at hand: its coroutine resumes as the holder
HandOver(c, fifo) ==
    /\ waiters' = Tail(fifo)
    /\ pc' = [pc EXCEPT ![c] = "idle", ![Head(fifo)] = "held"]

UnlockNext(c) ==
    /\ pc[c] = "held" /\ waiters # <<>>
    /\ HandOver(c, waiters)
    /\ UNCHANGED <<locked, stack, old>>

UnlockLoad(c) ==
    /\ pc[c] = "held" /\ waiters = <<>>
    /\ pc' = [pc EXCEPT ![c] = IF StateWord = Null THEN "release" ELSE "grab"]
    /\ UNCHANGED <<locked, stack, waiters, old>>

\* faulty variant: a store where the code has a compare_exchange
UnlockReleaseStores(c) ==
    /\ pc[c] = "release"
    /\ locked' = FALSE
    /\ pc' = [pc EXCEPT ![c] = "idle"]
    /\ UNCHANGED <<stack, waiters, old>>

\* compare_exchange(nullptr, unlockedState()) decides the race with CasEnqueue
UnlockRelease(c) ==
    /\ pc[c] = "release"
    /\ \/ /\ StateWord = Null
          /\ locked' = FALSE
          /\ pc' = [pc EXCEPT ![c] = "idle"]
       \/ /\ StateWord # Null
          /\ pc' = [pc EXCEPT ![c] = "grab"]
          /\ UNCHANGED locked
    /\ UNCHANGED <<stack, waiters, old>>

\* faulty variant: the newly queued waiters not reversed
UnlockGrabLifo(c) ==
    /\ pc[c] = "grab"
    /\ stack' = <<>>
    /\ HandOver(c, stack)
    /\ UNCHANGED <<locked, old>>

\* exchange(nullptr), and the list reversed from LIFO to FIFO
UnlockGrab(c) ==
    /\ pc[c] = "grab"
    /\ stack' = <<>>
    /\ HandOver(c, Flip(stack))
    /\ UNCHANGED <<locked, old>>

Unlock(c) == UnlockNext(c) \/ UnlockLoad(c) \/ UnlockRelease(c) \/ UnlockGrab(c)
CoLock(c) == LoadOld(c) \/ CasAcquire(c) \/ CasEnqueue(c) \/ CasFails(c)

Next == \E c \in Coros : TryLock(c) \/ Suspend(c) \/ CoLock(c) \/ Unlock(c)

Spec == Init /\ [][Next]_vars

\* A coroutine that is running goes on running, and a holder unlocks in the end.
FairSpec == Spec /\ \A c \in Coros : WF_vars(CoLock(c)) /\ WF_vars(Unlock(c))

----
(* Properties *)

Holding == {"held", "release", "grab"}

TypeOK ==
    /\ locked \in BOOLEAN
    /\ stack \in Seq(Coros) /\ waiters \in Seq(Coros)
    /\ pc \in [Coros -> {"idle", "load", "cas", "waiting"} \cup Holding]
    /\ old \in [Coros -> Coros \cup {Unlocked, Null}]

\* Mutual exclusion: coLock(), tryLock() and a hand-over never let two coroutines in.
MutualExclusion ==
    \A c, d \in Coros : pc[c] \in Holding /\ pc[d] \in Holding => c = d

\* The word says `unlocked` exactly when nobody holds the lock, and nobody waits then:
\* ~Mutex's assertions hold whenever every coroutine is through.
LockedMeansHeld ==
    /\ locked <=> \E c \in Coros : pc[c] \in Holding
    /\ ~locked => stack = <<>> /\ waiters = <<>>

\* No waiter is lost and none is queued twice: each suspended coroutine stands once
\* in the LIFO list or the FIFO list.
Distinct(s) == \A i, j \in 1 .. Len(s) : s[i] = s[j] => i = j
InSeq(c, s) == \E i \in 1 .. Len(s) : s[i] = c
WaitersKept ==
    /\ Distinct(stack) /\ Distinct(waiters)
    /\ \A c \in Coros : ~(InSeq(c, stack) /\ InSeq(c, waiters))
    /\ \A c \in Coros : pc[c] = "waiting" <=> InSeq(c, stack) \/ InSeq(c, waiters)

\* unlock()'s assertions before the hand-over: the exchange finds a waiter, and the
\* FIFO list is empty when the newly queued waiters replace it.
GrabFindsWaiter ==
    \A c \in Coros : pc[c] \in {"release", "grab"} =>
        waiters = <<>> /\ (pc[c] = "grab" => stack # <<>>)

\* coro::Mutex implements a first-come first-served lock: between the two lists no
\* waiter overtakes another, and a coroutine that arrives does not overtake either.
Holder == IF \E c \in Coros : pc[c] \in Holding
          THEN CHOOSE c \in Coros : pc[c] \in Holding ELSE Nobody
Fifo == INSTANCE FifoLock WITH holder <- Holder, queue <- waiters \o Flip(stack)
ImplementsFifoLock == Fifo!Spec

\* A queued coroutine gets the lock, as long as holders unlock.
WaiterAcquires == \A c \in Coros : pc[c] = "waiting" ~> pc[c] = "held"
====
