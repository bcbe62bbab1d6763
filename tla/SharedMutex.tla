---- MODULE SharedMutex ----
(* coro/SharedMutex.h: a reader/writer lock with two condition variables on one      *)
(* SpinLock. Each coroutine takes and releases the lock a bounded number of times,   *)
(* in either mode, blocking or trying.                                               *)
EXTENDS SpinCondition

CONSTANTS
    MaxReaders, \* max_readers, 2^31 - 1 in the code
    Rounds      \* bound: how often each coroutine takes the lock or tries to

ASSUME SharedMutexAssumption == MaxReaders \in Nat \ {0} /\ Rounds \in Nat

VARIABLES
    writeEntered, \* the high bit of state_
    readers,      \* the other bits
    mode,         \* per coroutine, the lock it holds: "none", "shared", "exclusive"
    round         \* per coroutine, the calls it made

vars == <<syncVars, writeEntered, readers, mode, round>>
rw == <<writeEntered, readers>>

Init ==
    /\ SyncInit
    /\ writeEntered = FALSE /\ readers = 0
    /\ mode = [c \in Coros |-> "none"]
    /\ round = [c \in Coros |-> 0]

\* A coroutine without the lock calls one of the four ways to take it.
Call(c, label) ==
    /\ pc[c] = "idle" /\ mode[c] = "none" /\ round[c] < Rounds
    /\ round' = [round EXCEPT ![c] = @ + 1]
    /\ Goto(c, label)
    /\ UNCHANGED <<locked, awaiters, at, rw, mode>>

CallUnlock(c) ==
    /\ pc[c] = "idle" /\ mode[c] # "none"
    /\ Goto(c, IF mode[c] = "shared" THEN "lockUnlockShared" ELSE "lockUnlock")
    /\ UNCHANGED <<locked, awaiters, at, rw, mode, round>>

\* co_await mut_.coScopedLock(), on the way into each operation
Waits == {"lockExclusive", "lockShared", "lockUnlock", "lockUnlockShared"}
ScopedLock(c) ==
    /\ \/ pc[c] = "lockExclusive" /\ CoLock(c, "gate1Writer")
       \/ pc[c] = "lockShared" /\ CoLock(c, "gate1Reader")
       \/ pc[c] = "lockUnlock" /\ CoLock(c, "unlock")
       \/ pc[c] = "lockUnlockShared" /\ CoLock(c, "unlockShared")
    /\ UNCHANGED <<rw, mode, round>>

Take(c, m) == mode' = [mode EXCEPT ![c] = m]

\* faulty variant: state_ > max_readers
FullOffByOne == writeEntered \/ readers > MaxReaders

\* state_ >= max_readers: the flag is set, or there are too many readers
Full == writeEntered \/ readers >= MaxReaders

\* coLock: wait at gate1_ for the flag, set it, wait at gate2_ for the readers
Gate1Writer(c) ==
    /\ pc[c] = "gate1Writer"
    /\ \/ writeEntered /\ Suspend(c, "gate1", "gate1Writer") /\ UNCHANGED <<rw, mode>>
       \/ /\ ~writeEntered /\ writeEntered' = TRUE
          /\ \/ readers # 0 /\ Suspend(c, "gate2", "gate2Writer") /\ UNCHANGED mode
             \/ readers = 0 /\ Unlock(c, "idle") /\ Take(c, "exclusive")
          /\ UNCHANGED readers
    /\ UNCHANGED round

Gate2Writer(c) ==
    /\ pc[c] = "gate2Writer"
    /\ \/ readers # 0 /\ Suspend(c, "gate2", "gate2Writer") /\ UNCHANGED mode
       \/ readers = 0 /\ Unlock(c, "idle") /\ Take(c, "exclusive")
    /\ UNCHANGED <<rw, round>>

Gate1Reader(c) ==
    /\ pc[c] = "gate1Reader"
    /\ \/ Full /\ Suspend(c, "gate1", "gate1Reader") /\ UNCHANGED <<rw, mode>>
       \/ /\ ~Full /\ readers' = readers + 1
          /\ Unlock(c, "idle") /\ Take(c, "shared")
          /\ UNCHANGED writeEntered
    /\ UNCHANGED round

\* faulty variant: unlock notifies one waiter
UnlockExclusiveOne(c) ==
    /\ pc[c] = "unlock"
    /\ writeEntered' = FALSE /\ readers' = 0
    /\ NotifyOne(c, "gate1", "idle") /\ Take(c, "none")
    /\ UNCHANGED round

UnlockExclusive(c) ==
    /\ pc[c] = "unlock"
    /\ writeEntered' = FALSE /\ readers' = 0
    /\ NotifyAll(c, "gate1", "idle") /\ Take(c, "none")
    /\ UNCHANGED round

\* faulty variant: the last reader notifies the wrong gate
UnlockSharedEarly(c) ==
    /\ pc[c] = "unlockShared"
    /\ readers' = readers - 1
    /\ \/ writeEntered /\ readers' = 0 /\ NotifyOne(c, "gate1", "idle")
       \/ ~writeEntered /\ readers = MaxReaders /\ NotifyOne(c, "gate1", "idle")
       \/ /\ IF writeEntered THEN readers' # 0 ELSE readers # MaxReaders
          /\ Unlock(c, "idle")
    /\ Take(c, "none")
    /\ UNCHANGED <<writeEntered, round>>

UnlockShared(c) ==
    /\ pc[c] = "unlockShared"
    /\ readers' = readers - 1
    /\ \/ writeEntered /\ readers' = 0 /\ NotifyOne(c, "gate2", "idle")
       \/ ~writeEntered /\ readers = MaxReaders /\ NotifyOne(c, "gate1", "idle")
       \/ /\ IF writeEntered THEN readers' # 0 ELSE readers # MaxReaders
          /\ Unlock(c, "idle")
    /\ Take(c, "none")
    /\ UNCHANGED <<writeEntered, round>>

\* tryLock and tryLockShared: one try for mut_, false at once when it is taken
TryScopedLock(c) ==
    /\ pc[c] \in {"tryExclusive", "tryShared"}
    /\ \/ locked /\ Goto(c, "idle") /\ UNCHANGED <<locked, awaiters, at>>
       \/ CoLock(c, IF pc[c] = "tryShared" THEN "allowRead" ELSE "allowWrite")
    /\ UNCHANGED <<rw, mode, round>>

\* faulty variant: tryLock asks for the flag alone
AllowWriteToo(c) ==
    /\ pc[c] = "allowWrite"
    /\ LET allow == ~writeEntered IN
       /\ writeEntered' = (writeEntered \/ allow)
       /\ Take(c, IF allow THEN "exclusive" ELSE "none")
    /\ Unlock(c, "idle")
    /\ UNCHANGED <<readers, round>>

AllowWrite(c) ==
    /\ pc[c] = "allowWrite"
    /\ LET allow == ~writeEntered /\ readers = 0 IN
       /\ writeEntered' = (writeEntered \/ allow)
       /\ Take(c, IF allow THEN "exclusive" ELSE "none")
    /\ Unlock(c, "idle")
    /\ UNCHANGED <<readers, round>>

\* faulty variant: tryLockShared asks for the count alone
AllowReadToo(c) ==
    /\ pc[c] = "allowRead"
    /\ readers' = IF readers >= MaxReaders THEN readers ELSE readers + 1
    /\ Take(c, IF readers >= MaxReaders THEN "none" ELSE "shared")
    /\ Unlock(c, "idle")
    /\ UNCHANGED <<writeEntered, round>>

AllowRead(c) ==
    /\ pc[c] = "allowRead"
    /\ readers' = IF Full THEN readers ELSE readers + 1
    /\ Take(c, IF Full THEN "none" ELSE "shared")
    /\ Unlock(c, "idle")
    /\ UNCHANGED <<writeEntered, round>>

RelockGate(c) == Relock(c) /\ UNCHANGED <<rw, mode, round>>

Step(c) ==
    \/ ScopedLock(c) \/ TryScopedLock(c) \/ RelockGate(c)
    \/ Gate1Writer(c) \/ Gate2Writer(c) \/ Gate1Reader(c)
    \/ UnlockExclusive(c) \/ UnlockShared(c) \/ AllowWrite(c) \/ AllowRead(c)
    \/ CallUnlock(c)

Finished == \A c \in Coros : pc[c] = "idle" /\ mode[c] = "none" /\ round[c] = Rounds

Next ==
    \/ \E c \in Coros :
         \/ Step(c)
         \/ \E l \in {"lockExclusive", "lockShared", "tryExclusive", "tryShared"} : Call(c, l)
    \/ Finished /\ UNCHANGED vars

Spec == Init /\ [][Next]_vars

\* The executor runs every coroutine that can run, and who holds the lock releases it.
FairSpec == Spec /\ \A c \in Coros : WF_vars(Step(c))

----
Critical == {"gate1Writer", "gate2Writer", "gate1Reader", "unlock", "unlockShared",
             "allowWrite", "allowRead"}

TypeOK ==
    /\ locked \in BOOLEAN
    /\ awaiters \in [Conditions -> Seq(Coros)]
    /\ pc \in [Coros -> {"idle", "suspended", "relock", "tryExclusive", "tryShared"}
                           \cup Waits \cup Critical]
    /\ writeEntered \in BOOLEAN
    /\ readers \in 0 .. MaxReaders
    /\ mode \in [Coros -> {"none", "shared", "exclusive"}]
    /\ round \in [Coros -> 0 .. Rounds]

Holding(m) == {c \in Coros : mode[c] = m}

\* coLock, coLockShared: a writer has the lock alone; readers() counts the readers, and
\* the flag is set for a writer that has the lock or for one that waits at gate2_.
Exclusion ==
    /\ Holding("exclusive") # {} =>
         Holding("shared") = {} /\ Cardinality(Holding("exclusive")) = 1
    /\ readers = Cardinality(Holding("shared"))
    /\ writeEntered <=>
         Holding("exclusive") # {} \/ \E c \in Coros : "gate2Writer" \in {pc[c], at[c]}

\* unlock and unlockShared: whoever waits has somebody to wake it up: at gate1_ there
\* is a writer, or as many readers as can be, or a waiter on its way; at gate2_ there
\* is at most one, the queued writer, and a reader whose unlockShared will find it.
SomebodyWakes ==
    /\ awaiters["gate1"] # <<>> => writeEntered \/ readers = MaxReaders \/ Woken # {}
    /\ awaiters["gate2"] # <<>> => writeEntered /\ readers > 0 /\ Len(awaiters["gate2"]) = 1

\* SharedMutex.h: "no more reader locks can be taken while the writer is queued".
WriterPriority == [][writeEntered => readers' <= readers]_vars

\* unlock, unlockShared: if everybody who takes the lock releases it, nobody waits for
\* ever at a gate: every wake-up is made, and reaches somebody who can go on.
AllFinish == []((\A c \in Coros : round[c] = Rounds) => <>Finished)
====
