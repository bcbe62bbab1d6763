---- MODULE CoroMutexProofs ----
(* coro::Mutex excludes, loses no waiter and serves them in order, for every set of *)
(* coroutines.                                                                      *)
EXTENDS CoroMutex, TLAPS

\* The inductive invariant: the mutual exclusion of a hand-over needs that the word
\* agrees with the holders and that the grabbed list is not empty.
LockInv == TypeOK /\ MutualExclusion /\ LockedMeansHeld /\ GrabFindsWaiter

\* Reversing a list keeps its length and elements.
LEMMA FlipType ==
    ASSUME NEW s \in Seq(Coros)
    PROVE  /\ Flip(s) \in Seq(Coros)
           /\ Len(Flip(s)) = Len(s)
           /\ \A i \in 1 .. Len(s) : Flip(s)[i] = s[Len(s) + 1 - i]
BY DEF Flip

\* Every initial state satisfies the invariant.
LEMMA InitLockInv == Init => LockInv
<1> SUFFICES ASSUME Init PROVE LockInv
  OBVIOUS
<1> USE DEF Init, Holding
<1>1. TypeOK
  <2>1. <<>> \in Seq(Coros)
    OBVIOUS
  <2>2. locked \in BOOLEAN
    OBVIOUS
  <2>3. pc \in [Coros -> {"idle", "load", "cas", "waiting"} \cup Holding]
    OBVIOUS
  <2>4. old \in [Coros -> Coros \cup {Unlocked, Null}]
    OBVIOUS
  <2> QED
    BY <2>1, <2>2, <2>3, <2>4 DEF TypeOK
<1>2. \A c \in Coros : pc[c] = "idle"
  OBVIOUS
<1> QED
  BY <1>1, <1>2 DEF LockInv, MutualExclusion, LockedMeansHeld, GrabFindsWaiter

\* The word unlockedState() is the only one that says `not locked`.
LEMMA WordType ==
    ASSUME TypeOK
    PROVE  /\ StateWord \in Coros \cup {Unlocked, Null}
           /\ StateWord = Unlocked <=> ~locked
           /\ StateWord = Null <=> locked /\ stack = <<>>
<1>1. stack # <<>> => stack[1] \in Coros
  BY DEF TypeOK
<1> QED
  BY <1>1, CorosAssumption DEF StateWord, TypeOK

\* Every step preserves it: one case per access of _state.
LEMMA StepLockInv == LockInv /\ [Next]_vars => LockInv'
<1> SUFFICES ASSUME LockInv, [Next]_vars
             PROVE  LockInv'
  OBVIOUS
<1> USE DEF LockInv, Holding
<1>w. /\ StateWord \in Coros \cup {Unlocked, Null}
      /\ StateWord = Unlocked <=> ~locked
      /\ StateWord = Null <=> locked /\ stack = <<>>
  BY WordType
<1>1. ASSUME NEW c \in Coros, TryLock(c)
      PROVE  LockInv'
  BY <1>1 DEF TryLock, TypeOK, MutualExclusion, LockedMeansHeld, GrabFindsWaiter
<1>2. ASSUME NEW c \in Coros, Suspend(c)
      PROVE  LockInv'
  BY <1>2 DEF Suspend, TypeOK, MutualExclusion, LockedMeansHeld, GrabFindsWaiter
<1>3. ASSUME NEW c \in Coros, LoadOld(c)
      PROVE  LockInv'
  BY <1>3, <1>w DEF LoadOld, TypeOK, MutualExclusion, LockedMeansHeld, GrabFindsWaiter
<1>4. ASSUME NEW c \in Coros, CasAcquire(c)
      PROVE  LockInv'
  BY <1>4, <1>w DEF CasAcquire, TypeOK, MutualExclusion, LockedMeansHeld, GrabFindsWaiter
<1>5. ASSUME NEW c \in Coros, CasEnqueue(c)
      PROVE  LockInv'
  BY <1>5, <1>w DEF CasEnqueue, TypeOK, MutualExclusion, LockedMeansHeld, GrabFindsWaiter
<1>6. ASSUME NEW c \in Coros, CasFails(c)
      PROVE  LockInv'
  BY <1>6, <1>w DEF CasFails, TypeOK, MutualExclusion, LockedMeansHeld, GrabFindsWaiter
<1>h. ASSUME NEW c \in Coros, NEW fifo \in Seq(Coros), fifo # <<>>, pc[c] \in Holding,
             HandOver(c, fifo), UNCHANGED <<locked, old>>, stack' \in Seq(Coros)
      PROVE  LockInv'
  <2>1. Head(fifo) \in Coros /\ Tail(fifo) \in Seq(Coros)
    BY <1>h
  <2>2. \A d \in Coros : pc'[d] \in Holding => d = Head(fifo)
    BY <1>h, <2>1 DEF HandOver, TypeOK, MutualExclusion
  <2>3. pc'[Head(fifo)] = "held"
    BY <1>h, <2>1 DEF HandOver, TypeOK
  <2>4. locked
    BY <1>h DEF LockedMeansHeld
  <2> QED
    BY <1>h, <2>1, <2>2, <2>3, <2>4
    DEF HandOver, TypeOK, MutualExclusion, LockedMeansHeld, GrabFindsWaiter
<1>7. ASSUME NEW c \in Coros, UnlockNext(c)
      PROVE  LockInv'
  BY <1>7, <1>h DEF UnlockNext, TypeOK
<1>8. ASSUME NEW c \in Coros, UnlockLoad(c)
      PROVE  LockInv'
  BY <1>8, <1>w DEF UnlockLoad, TypeOK, MutualExclusion, LockedMeansHeld, GrabFindsWaiter
<1>9. ASSUME NEW c \in Coros, UnlockRelease(c)
      PROVE  LockInv'
  BY <1>9, <1>w DEF UnlockRelease, TypeOK, MutualExclusion, LockedMeansHeld, GrabFindsWaiter
<1>10. ASSUME NEW c \in Coros, UnlockGrab(c)
       PROVE  LockInv'
  <2>1. stack \in Seq(Coros) /\ stack # <<>>
    BY <1>10 DEF UnlockGrab, TypeOK, GrabFindsWaiter
  <2>2. Flip(stack) \in Seq(Coros) /\ Flip(stack) # <<>>
    BY <2>1, FlipType
  <2> QED
    BY <1>10, <1>h, <2>2 DEF UnlockGrab
<1>11. CASE UNCHANGED vars
  BY <1>11 DEF vars, TypeOK, MutualExclusion, LockedMeansHeld, GrabFindsWaiter
<1> QED
  BY <1>1, <1>2, <1>3, <1>4, <1>5, <1>6, <1>7, <1>8, <1>9, <1>10, <1>11
  DEF Next, CoLock, Unlock

\* The lock invariant holds in every reachable state.
THEOREM LockInvariant == Spec => []LockInv
BY InitLockInv, StepLockInv, PTL DEF Spec

\* Mutex: the state word and the waiters keep their types: the tagged pointer is always
\* unlocked, locked without waiters, or the head of a list of waiters.
THEOREM MutexTypes == Spec => []TypeOK
<1>1. LockInv => TypeOK
  BY DEF LockInv
<1> QED
  BY <1>1, LockInvariant, PTL

\* coro::Mutex: at most one coroutine is between a successful lock and the end of unlock().
THEOREM MutexExcludes == Spec => []MutualExclusion
<1>1. LockInv => MutualExclusion
  BY DEF LockInv
<1> QED
  BY <1>1, LockInvariant, PTL

----
(* No waiter is lost *)

\* Prepending a newcomer to a list.
LEMMA PushFacts ==
    ASSUME NEW s \in Seq(Coros), NEW c \in Coros
    PROVE  /\ <<c>> \o s \in Seq(Coros)
           /\ \A d \in Coros : InSeq(d, <<c>> \o s) <=> d = c \/ InSeq(d, s)
           /\ Distinct(s) /\ ~InSeq(c, s) => Distinct(<<c>> \o s)
<1> DEFINE t == <<c>> \o s
<1>1. t \in Seq(Coros) /\ Len(t) = Len(s) + 1 /\ t[1] = c
  OBVIOUS
<1>2. \A i \in 1 .. Len(s) : t[i + 1] = s[i]
  OBVIOUS
<1>3. \A i \in 2 .. Len(t) : i - 1 \in 1 .. Len(s) /\ t[i] = s[i - 1]
  BY <1>1
<1>4. ASSUME NEW d \in Coros
      PROVE  InSeq(d, t) <=> d = c \/ InSeq(d, s)
  <2>1. InSeq(d, t) => d = c \/ InSeq(d, s)
    BY <1>1, <1>3 DEF InSeq
  <2>2. d = c => InSeq(d, t)
    BY <1>1 DEF InSeq
  <2>3. InSeq(d, s) => InSeq(d, t)
    <3> SUFFICES ASSUME NEW i \in 1 .. Len(s), s[i] = d
                 PROVE  InSeq(d, t)
      BY DEF InSeq
    <3>1. i + 1 \in 1 .. Len(t) /\ t[i + 1] = d
      BY <1>1, <1>2
    <3> QED
      BY <3>1 DEF InSeq
  <2> QED
    BY <2>1, <2>2, <2>3
<1>5. ASSUME Distinct(s), ~InSeq(c, s)
      PROVE  Distinct(t)
  <2> SUFFICES ASSUME NEW i \in 1 .. Len(t), NEW j \in 1 .. Len(t), t[i] = t[j]
               PROVE  i = j
    BY DEF Distinct
  <2>1. \A k \in 2 .. Len(t) : t[k] # c
    BY <1>3, <1>5 DEF InSeq
  <2>2. CASE i = 1 \/ j = 1
    BY <2>1, <2>2, <1>1
  <2>3. CASE i # 1 /\ j # 1
    <3>1. i - 1 \in 1 .. Len(s) /\ j - 1 \in 1 .. Len(s) /\ s[i - 1] = s[j - 1]
      BY <1>3, <2>3, <1>1
    <3>2. i - 1 = j - 1
      BY <3>1, <1>5 DEF Distinct
    <3> QED
      BY <3>2
  <2> QED
    BY <2>2, <2>3
<1> QED
  BY <1>1, <1>4, <1>5

\* Taking the head off a list without repetitions.
LEMMA TailFacts ==
    ASSUME NEW s \in Seq(Coros), s # <<>>, Distinct(s)
    PROVE  /\ Head(s) \in Coros /\ InSeq(Head(s), s)
           /\ Tail(s) \in Seq(Coros) /\ Distinct(Tail(s))
           /\ \A d \in Coros : InSeq(d, Tail(s)) <=> InSeq(d, s) /\ d # Head(s)
<1> DEFINE t == Tail(s)
<1>1. /\ t \in Seq(Coros) /\ Len(t) = Len(s) - 1 /\ Len(s) \in Nat \ {0}
      /\ Head(s) = s[1] /\ s[1] \in Coros
  OBVIOUS
<1>2. \A i \in 1 .. Len(t) : t[i] = s[i + 1]
  OBVIOUS
<1>3. Distinct(t)
  <2> SUFFICES ASSUME NEW i \in 1 .. Len(t), NEW j \in 1 .. Len(t), t[i] = t[j]
               PROVE  i = j
    BY DEF Distinct
  <2>1. i + 1 \in 1 .. Len(s) /\ j + 1 \in 1 .. Len(s) /\ s[i + 1] = s[j + 1]
    BY <1>1, <1>2
  <2>2. i + 1 = j + 1
    BY <2>1 DEF Distinct
  <2> QED
    BY <2>2
<1>4. ASSUME NEW d \in Coros
      PROVE  InSeq(d, t) <=> InSeq(d, s) /\ d # Head(s)
  <2>1. ASSUME NEW i \in 1 .. Len(t), t[i] = d
        PROVE  InSeq(d, s) /\ d # Head(s)
    <3>1. i + 1 \in 1 .. Len(s) /\ 1 \in 1 .. Len(s) /\ i + 1 # 1 /\ s[i + 1] = d
      BY <1>1, <1>2, <2>1
    <3> QED
      BY <3>1, <1>1 DEF InSeq, Distinct
  <2>2. ASSUME NEW i \in 1 .. Len(s), s[i] = d, d # Head(s)
        PROVE  InSeq(d, t)
    <3>1. i - 1 \in 1 .. Len(t) /\ t[i - 1] = d
      BY <1>1, <1>2, <2>2
    <3> QED
      BY <3>1 DEF InSeq
  <2> QED
    BY <2>1, <2>2 DEF InSeq
<1>5. InSeq(Head(s), s)
  BY <1>1 DEF InSeq
<1> QED
  BY <1>1, <1>3, <1>4, <1>5

\* Reversing keeps the elements, once each.
LEMMA FlipFacts ==
    ASSUME NEW s \in Seq(Coros), Distinct(s)
    PROVE  /\ Distinct(Flip(s))
           /\ \A d \in Coros : InSeq(d, Flip(s)) <=> InSeq(d, s)
<1> DEFINE t == Flip(s)
<1>1. /\ t \in Seq(Coros) /\ Len(t) = Len(s) /\ Len(s) \in Nat
      /\ \A i \in 1 .. Len(s) : t[i] = s[Len(s) + 1 - i]
  BY FlipType
<1> HIDE DEF t
<1>2. \A i \in 1 .. Len(s) : Len(s) + 1 - i \in 1 .. Len(s)
  BY <1>1
<1>3. Distinct(t)
  <2> SUFFICES ASSUME NEW i \in 1 .. Len(t), NEW j \in 1 .. Len(t), t[i] = t[j]
               PROVE  i = j
    BY DEF Distinct
  <2>1. Len(s) + 1 - i = Len(s) + 1 - j
    BY <1>1, <1>2 DEF Distinct
  <2> QED
    BY <2>1, <1>1
<1>4. ASSUME NEW d \in Coros
      PROVE  InSeq(d, t) <=> InSeq(d, s)
  <2>1. ASSUME NEW i \in 1 .. Len(t), t[i] = d
        PROVE  InSeq(d, s)
    BY <1>1, <1>2, <2>1 DEF InSeq
  <2>2. ASSUME NEW i \in 1 .. Len(s), s[i] = d
        PROVE  InSeq(d, t)
    <3>1. t[Len(s) + 1 - i] = s[i]
      BY <1>1, <1>2
    <3> QED
      BY <3>1, <1>1, <1>2, <2>2 DEF InSeq
  <2> QED
    BY <2>1, <2>2 DEF InSeq
<1> QED
  BY <1>3, <1>4 DEF t

\* Every step keeps each suspended coroutine in exactly one place of one list.
LEMMA StepWaitersKept ==
    ASSUME LockInv, WaitersKept, [Next]_vars
    PROVE  WaitersKept'
<1> USE DEF LockInv, Holding
<1>q. ASSUME UNCHANGED <<stack, waiters>>,
             \A d \in Coros : pc'[d] = "waiting" <=> pc[d] = "waiting"
      PROVE  WaitersKept'
  BY <1>q DEF WaitersKept, Distinct, InSeq
<1>1. ASSUME NEW c \in Coros, TryLock(c)
      PROVE  WaitersKept'
  BY <1>1, <1>q DEF TryLock, TypeOK
<1>2. ASSUME NEW c \in Coros, Suspend(c)
      PROVE  WaitersKept'
  BY <1>2, <1>q DEF Suspend, TypeOK
<1>3. ASSUME NEW c \in Coros, LoadOld(c)
      PROVE  WaitersKept'
  BY <1>3, <1>q DEF LoadOld, TypeOK
<1>4. ASSUME NEW c \in Coros, CasAcquire(c)
      PROVE  WaitersKept'
  BY <1>4, <1>q DEF CasAcquire, TypeOK
<1>5. ASSUME NEW c \in Coros, CasEnqueue(c)
      PROVE  WaitersKept'
  <2>1. ~InSeq(c, stack) /\ ~InSeq(c, waiters)
    BY <1>5 DEF CasEnqueue, WaitersKept
  <2>2. /\ \A d \in Coros : InSeq(d, stack') <=> d = c \/ InSeq(d, stack)
        /\ Distinct(stack')
    BY <1>5, <2>1, PushFacts DEF CasEnqueue, TypeOK, WaitersKept
  <2>3. \A d \in Coros : pc'[d] = "waiting" <=> d = c \/ pc[d] = "waiting"
    BY <1>5 DEF CasEnqueue, TypeOK
  <2>4. waiters' = waiters
    BY <1>5 DEF CasEnqueue
  <2> QED
    BY <2>1, <2>2, <2>3, <2>4 DEF WaitersKept
<1>6. ASSUME NEW c \in Coros, CasFails(c)
      PROVE  WaitersKept'
  BY <1>6, <1>q DEF CasFails, TypeOK
<1>h. ASSUME NEW c \in Coros, NEW fifo \in Seq(Coros), fifo # <<>>, Distinct(fifo),
             pc[c] \in Holding, HandOver(c, fifo), Distinct(stack'),
             \A d \in Coros : ~(InSeq(d, stack') /\ InSeq(d, fifo)),
             \A d \in Coros : pc[d] = "waiting" <=> InSeq(d, stack') \/ InSeq(d, fifo)
      PROVE  WaitersKept'
  <2>1. /\ Head(fifo) \in Coros /\ InSeq(Head(fifo), fifo) /\ Distinct(Tail(fifo))
        /\ \A d \in Coros : InSeq(d, Tail(fifo)) <=> InSeq(d, fifo) /\ d # Head(fifo)
    BY <1>h, TailFacts
  <2>2. \A d \in Coros : pc'[d] = "waiting" <=> pc[d] = "waiting" /\ d # Head(fifo)
    BY <1>h, <2>1 DEF HandOver, TypeOK
  <2>3. waiters' = Tail(fifo)
    BY <1>h DEF HandOver
  <2> QED
    BY <1>h, <2>1, <2>2, <2>3 DEF WaitersKept
<1>7. ASSUME NEW c \in Coros, UnlockNext(c)
      PROVE  WaitersKept'
  <2>1. stack' = stack /\ waiters # <<>> /\ waiters \in Seq(Coros) /\ HandOver(c, waiters)
        /\ pc[c] \in Holding
    BY <1>7 DEF UnlockNext, TypeOK
  <2> QED
    BY <2>1, <1>h DEF WaitersKept
<1>8. ASSUME NEW c \in Coros, UnlockLoad(c)
      PROVE  WaitersKept'
  BY <1>8, <1>q DEF UnlockLoad, TypeOK
<1>9. ASSUME NEW c \in Coros, UnlockRelease(c)
      PROVE  WaitersKept'
  BY <1>9, <1>q DEF UnlockRelease, TypeOK
<1>10. ASSUME NEW c \in Coros, UnlockGrab(c)
       PROVE  WaitersKept'
  <2>1. /\ stack \in Seq(Coros) /\ stack # <<>> /\ waiters = <<>> /\ Distinct(stack)
        /\ pc[c] \in Holding
    BY <1>10 DEF UnlockGrab, TypeOK, GrabFindsWaiter, WaitersKept
  <2>2. /\ Flip(stack) \in Seq(Coros) /\ Flip(stack) # <<>> /\ Distinct(Flip(stack))
        /\ \A d \in Coros : InSeq(d, Flip(stack)) <=> InSeq(d, stack)
    BY <2>1, FlipType, FlipFacts
  <2>3. stack' = <<>> /\ HandOver(c, Flip(stack))
    BY <1>10 DEF UnlockGrab
  <2>4. Distinct(stack') /\ \A d \in Coros : ~InSeq(d, stack') /\ ~InSeq(d, waiters)
    BY <2>1, <2>3 DEF Distinct, InSeq
  <2>5. \A d \in Coros : pc[d] = "waiting" <=> InSeq(d, stack)
    BY <2>4 DEF WaitersKept
  <2> QED
    BY <1>h, <2>1, <2>2, <2>3, <2>4, <2>5
<1>11. CASE UNCHANGED vars
  BY <1>11, <1>q DEF vars
<1> QED
  BY <1>1, <1>2, <1>3, <1>4, <1>5, <1>6, <1>7, <1>8, <1>9, <1>10, <1>11
  DEF Next, CoLock, Unlock

\* coro::Mutex loses no waiter: a suspended coroutine is in the lists until it is resumed.
THEOREM MutexKeepsWaiters == Spec => []WaitersKept
<1>1. Init => WaitersKept
  BY DEF Init, WaitersKept, Distinct, InSeq
<1>2. LockInv /\ WaitersKept /\ [Next]_vars => WaitersKept'
  BY StepWaitersKept
<1> QED
  BY <1>1, <1>2, LockInvariant, PTL DEF Spec

----
(* First come, first served: CoroMutex implements FifoLock *)

\* The holder of the refinement mapping is the coroutine that excludes the others.
LEMMA HolderIs ==
    ASSUME LockInv
    PROVE  /\ \A c \in Coros : pc[c] \in Holding => Holder = c
           /\ (\A c \in Coros : pc[c] \notin Holding) => Holder = Nobody
<1>1. ASSUME NEW c \in Coros, pc[c] \in Holding
      PROVE  Holder = c
  <2>1. \E d \in Coros : pc[d] \in Holding
    BY <1>1
  <2>2. (CHOOSE d \in Coros : pc[d] \in Holding) \in Coros
        /\ pc[CHOOSE d \in Coros : pc[d] \in Holding] \in Holding
    BY <2>1
  <2> QED
    BY <1>1, <2>1, <2>2 DEF Holder, LockInv, MutualExclusion
<1>2. (\A c \in Coros : pc[c] \notin Holding) => Holder = Nobody
  BY DEF Holder
<1> QED
  BY <1>1, <1>2

\* Pushing on the LIFO list appends to the queue.
LEMMA PushAppends ==
    ASSUME NEW w \in Seq(Coros), NEW s \in Seq(Coros), NEW c \in Coros
    PROVE  w \o Flip(<<c>> \o s) = Append(w \o Flip(s), c)
<1> DEFINE t == <<c>> \o s
<1>1. t \in Seq(Coros) /\ Len(t) = Len(s) + 1 /\ t[1] = c
  OBVIOUS
<1>2. \A i \in 1 .. Len(s) : t[i + 1] = s[i]
  OBVIOUS
<1> HIDE DEF t
<1>3. /\ Flip(t) \in Seq(Coros) /\ Len(Flip(t)) = Len(s) + 1
      /\ \A i \in 1 .. Len(s) + 1 : Flip(t)[i] = t[Len(s) + 2 - i]
  BY <1>1, FlipType
<1>4. /\ Flip(s) \in Seq(Coros) /\ Len(Flip(s)) = Len(s) /\ Len(s) \in Nat
      /\ \A i \in 1 .. Len(s) : Flip(s)[i] = s[Len(s) + 1 - i]
  BY FlipType
<1>5. \A i \in 1 .. Len(s) : Flip(t)[i] = Flip(s)[i]
  <2> TAKE i \in 1 .. Len(s)
  <2>1. Len(s) + 1 - i \in 1 .. Len(s)
    BY <1>4
  <2>2. t[(Len(s) + 1 - i) + 1] = s[Len(s) + 1 - i]
    BY <1>2, <2>1
  <2> QED
    BY <2>1, <2>2, <1>3, <1>4
<1>6. Flip(t)[Len(s) + 1] = c
  BY <1>1, <1>3, <1>4
<1>7. Flip(t) = Append(Flip(s), c)
  BY <1>3, <1>4, <1>5, <1>6
<1>8. \A x \in Seq(Coros) : w \o Append(x, c) = Append(w \o x, c)
  OBVIOUS
<1>9. w \o Flip(t) = Append(w \o Flip(s), c)
  BY <1>4, <1>7, <1>8
<1> QED
  BY <1>9 DEF t

\* Every step of the mutex is a step of the abstract lock, or none.
LEMMA StepFifo ==
    ASSUME LockInv, LockInv', [Next]_vars
    PROVE  [Fifo!Next]_(Fifo!lockVars)
<1> USE DEF LockInv, Holding
<1> DEFINE q == waiters \o Flip(stack)
<1>t. stack \in Seq(Coros) /\ waiters \in Seq(Coros) /\ Nobody \notin Coros
  BY CorosAssumption DEF TypeOK
<1>h. /\ \A c \in Coros : pc[c] \in Holding => Holder = c
      /\ (\A c \in Coros : pc[c] \notin Holding) => Holder = Nobody
  BY HolderIs
<1>p. /\ \A c \in Coros : pc'[c] \in Holding => Holder' = c
      /\ (\A c \in Coros : pc'[c] \notin Holding) => Holder' = Nobody
  BY HolderIs DEF Holder
<1>w. /\ StateWord = Unlocked <=> ~locked
      /\ StateWord = Null <=> locked /\ stack = <<>>
  BY WordType
<1>q. ASSUME UNCHANGED <<stack, waiters>>,
             \A d \in Coros : pc'[d] \in Holding <=> pc[d] \in Holding
      PROVE  UNCHANGED <<Holder, waiters \o Flip(stack)>>
  <2>1. Holder' = Holder
    BY <1>q, <1>h, <1>p
  <2> QED
    BY <2>1, <1>q DEF Flip
<1>a. ASSUME NEW c \in Coros, ~locked, pc'[c] = "held", UNCHANGED <<stack, waiters>>
      PROVE  Fifo!Acquire(c)
  <2>1. Holder = Nobody /\ Holder' = c
    BY <1>a, <1>h, <1>p DEF LockedMeansHeld
  <2> QED
    BY <2>1, <1>a DEF Fifo!Acquire, Flip
<1>1. ASSUME NEW c \in Coros, TryLock(c)
      PROVE  Fifo!Acquire(c)
  BY <1>1, <1>a DEF TryLock, TypeOK
<1>2. ASSUME NEW c \in Coros, Suspend(c) \/ LoadOld(c) \/ CasFails(c) \/ UnlockLoad(c)
      PROVE  UNCHANGED <<Holder, waiters \o Flip(stack)>>
  <2>1. \A d \in Coros : pc'[d] \in Holding <=> pc[d] \in Holding
    BY <1>2 DEF Suspend, LoadOld, CasFails, UnlockLoad, TypeOK
  <2>2. UNCHANGED <<stack, waiters>>
    BY <1>2 DEF Suspend, LoadOld, CasFails, UnlockLoad
  <2> QED
    BY <1>q, <2>1, <2>2
<1>4. ASSUME NEW c \in Coros, CasAcquire(c)
      PROVE  Fifo!Acquire(c)
  <2>1. ~locked /\ UNCHANGED <<stack, waiters>>
    BY <1>4, <1>w DEF CasAcquire
  <2>2. pc'[c] = "held"
    BY <1>4 DEF CasAcquire, TypeOK
  <2> QED
    BY <2>1, <2>2, <1>a
<1>5. ASSUME NEW c \in Coros, CasEnqueue(c)
      PROVE  Fifo!Enqueue(c)
  <2>1. (waiters \o Flip(stack))' = Append(waiters \o Flip(stack), c)
    <3>1. waiters' = waiters /\ stack' = <<c>> \o stack
      BY <1>5 DEF CasEnqueue
    <3>2. waiters \o Flip(<<c>> \o stack) = Append(waiters \o Flip(stack), c)
      BY <1>t, PushAppends
    <3> QED
      BY <3>1, <3>2 DEF Flip
  <2>2. PICK d \in Coros : pc[d] \in Holding
    BY <1>5, <1>w DEF CasEnqueue, LockedMeansHeld
  <2>3. d # c /\ pc'[d] = pc[d]
    BY <1>5, <2>2 DEF CasEnqueue, TypeOK
  <2>4. Holder = d /\ Holder' = d
    BY <1>h, <1>p, <2>2, <2>3
  <2> QED
    BY <2>1, <2>3, <2>4, <1>t DEF Fifo!Enqueue
<1>o. ASSUME NEW c \in Coros, NEW fifo \in Seq(Coros), fifo # <<>>, pc[c] \in Holding,
             HandOver(c, fifo), waiters \o Flip(stack) = fifo \o Flip(stack')
      PROVE  Fifo!Release
  <2>1. Head(fifo) \in Coros /\ pc'[Head(fifo)] = "held"
    BY <1>o DEF HandOver, TypeOK
  <2>2. Holder = c /\ Holder' = Head(fifo) /\ Holder # Nobody
    BY <1>o, <2>1, <1>h, <1>p, <1>t
  <2>3. stack' \in Seq(Coros)
    BY DEF TypeOK
  <2>4. Flip(stack') \in Seq(Coros)
    BY <2>3, FlipType
  <2> DEFINE u == Flip(stack')
  <2> HIDE DEF u
  <2>5. fifo \o u # <<>> /\ Head(fifo \o u) = Head(fifo) /\ Tail(fifo \o u) = Tail(fifo) \o u
    BY <1>o, <2>4 DEF u
  <2>6. (waiters \o Flip(stack))' = Tail(fifo) \o u
    BY <1>o DEF HandOver, Flip, u
  <2> QED
    BY <2>2, <2>5, <2>6, <1>o DEF Fifo!Release, u
<1>7. ASSUME NEW c \in Coros, UnlockNext(c)
      PROVE  Fifo!Release
  <2>1. stack' = stack /\ waiters # <<>> /\ HandOver(c, waiters) /\ pc[c] \in Holding
    BY <1>7 DEF UnlockNext
  <2>2. waiters \o Flip(stack) = waiters \o Flip(stack')
    BY <2>1
  <2> QED
    BY <2>1, <2>2, <1>t, <1>o
<1>9. ASSUME NEW c \in Coros, UnlockRelease(c)
      PROVE  Fifo!Release \/ UNCHANGED <<Holder, waiters \o Flip(stack)>>
  <2>1. CASE StateWord # Null
    <3>1. \A d \in Coros : pc'[d] \in Holding <=> pc[d] \in Holding
      BY <1>9, <2>1 DEF UnlockRelease, TypeOK
    <3> QED
      BY <1>9, <2>1, <3>1, <1>q DEF UnlockRelease
  <2>2. CASE StateWord = Null
    <3>1. stack = <<>> /\ waiters = <<>> /\ Holder = c
      BY <1>9, <2>2, <1>w, <1>h DEF UnlockRelease, GrabFindsWaiter
    <3>2. Holder' = Nobody
      <4>1. \A d \in Coros : pc'[d] \notin Holding
        BY <1>9, <2>2 DEF UnlockRelease, TypeOK, MutualExclusion
      <4> QED
        BY <4>1, <1>p
    <3>3. Flip(<<>>) = <<>>
      BY DEF Flip
    <3>4. stack' = <<>> /\ waiters' = <<>>
      BY <1>9, <3>1 DEF UnlockRelease
    <3>5. waiters \o Flip(stack) = <<>> /\ (waiters \o Flip(stack))' = <<>>
      BY <3>1, <3>3, <3>4 DEF Flip
    <3> QED
      BY <3>1, <3>2, <3>5, <1>t DEF Fifo!Release
  <2> QED
    BY <2>1, <2>2
<1>10. ASSUME NEW c \in Coros, UnlockGrab(c)
       PROVE  Fifo!Release
  <2>1. waiters = <<>> /\ stack # <<>> /\ stack' = <<>> /\ HandOver(c, Flip(stack))
        /\ pc[c] \in Holding
    BY <1>10 DEF UnlockGrab, GrabFindsWaiter
  <2>2. Flip(stack) \in Seq(Coros) /\ Flip(stack) # <<>>
    BY <1>t, <2>1, FlipType
  <2>3. Flip(stack') = <<>>
    BY <2>1 DEF Flip
  <2>4. waiters \o Flip(stack) = Flip(stack) \o Flip(stack')
    BY <2>1, <2>2, <2>3
  <2> QED
    BY <2>1, <2>2, <2>4, <1>o
<1>11. CASE UNCHANGED vars
  <2>1. UNCHANGED <<stack, waiters>> /\ pc' = pc
    BY <1>11 DEF vars
  <2> QED
    BY <2>1, <1>q DEF Fifo!lockVars
<1>12. CASE Next
  <2>1. PICK c \in Coros : TryLock(c) \/ Suspend(c) \/ CoLock(c) \/ Unlock(c)
    BY <1>12 DEF Next
  <2>2. Fifo!Next \/ UNCHANGED <<Holder, waiters \o Flip(stack)>>
    BY <2>1, <1>1, <1>2, <1>4, <1>5, <1>7, <1>9, <1>10 DEF CoLock, Unlock, Fifo!Next
  <2> QED
    BY <2>2 DEF Fifo!lockVars
<1> QED
  BY <1>11, <1>12

\* coro::Mutex serves waiters first come, first served: it implements the safety part
\* of FifoLock, for every set of coroutines.
THEOREM MutexImplementsFifoLock == Spec => Fifo!Safety
<1>1. Init => Fifo!Init
  <2> SUFFICES ASSUME Init PROVE Fifo!Init
    OBVIOUS
  <2>1. Holder = Nobody
    BY DEF Init, Holder, Holding
  <2>2. waiters \o Flip(stack) = <<>>
    BY DEF Init, Flip
  <2> QED
    BY <2>1, <2>2 DEF Fifo!Init
<1>2. LockInv /\ LockInv' /\ [Next]_vars => [Fifo!Next]_(Fifo!lockVars)
  BY StepFifo
<1> QED
  BY <1>1, <1>2, LockInvariant, PTL DEF Spec, Fifo!Safety
====
