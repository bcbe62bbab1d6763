---- MODULE SemaphoreProofs ----
(* coro::CountingSemaphore neither loses nor makes a permit, and leaves no permit free *)
(* beside a waiter; coro::Latch leaves nobody behind: for every count, zero included,  *)
(* and every finite set of coroutines.                                                 *)
EXTENDS Semaphore, FiniteSetTheorems, SequenceTheorems, TLAPS

\* coro::Latch, the other class on one SpinLock and one ConditionVariable: what is shown
\* of the list of waiters serves both.
CONSTANT Count
VARIABLE passed
L == INSTANCE Latch

\* No waiter is twice on the list.
Distinct(s) == \A i, j \in 1 .. Len(s) : s[i] = s[j] => i = j

\* lock_ is held by the one coroutine that is inside; whoever waits tests in acquire again.
SpinInv ==
    /\ \A c \in Coros : pc[c] \in Critical => locked
    /\ \A c, d \in Coros : pc[c] \in Critical /\ pc[d] \in Critical => c = d
    /\ \A c \in Coros : at[c] = "acquire" <=> pc[c] \in {"suspended", "relock"}

\* The list holds the suspended coroutines, each once.
ListInv ==
    /\ Distinct(awaiters["cv"])
    /\ ToSet(awaiters["cv"]) = {c \in Coros : pc[c] = "suspended"}

\* A coroutine has permits to add as long as it is in release.
UpdateInv == \A c \in Coros :
    update[c] # 0 <=> pc[c] \in {"lockRelease", "release"}

\* The permits are all accounted for, and the callers of release keep to the maximum.
PermitInv ==
    /\ count + acquired + Cardinality(Pending) = given
    /\ count + Cardinality(Pending) <= LeastMaxValue

\* The inductive invariant: that a free permit has somebody on the way to it depends on
\* whom a notification finds on the list.
SemaphoreInv == TypeOK /\ SpinInv /\ ListInv /\ UpdateInv /\ PermitInv /\ NoIdlePermit

----
\* The waiters after await_suspend has pushed one.
LEMMA AwaiterPushed ==
    ASSUME NEW s \in Seq(Coros), NEW c \in Coros
    PROVE  /\ <<c>> \o s \in Seq(Coros)
           /\ ToSet(<<c>> \o s) = {c} \cup ToSet(s)
<1> DEFINE t == <<c>> \o s
<1>1. /\ t \in Seq(Coros) /\ Len(t) = Len(s) + 1 /\ t[1] = c
      /\ \A i \in 1 .. Len(s) : t[i + 1] = s[i]
  OBVIOUS
<1>2. ASSUME NEW x \in ToSet(t) PROVE x \in {c} \cup ToSet(s)
  <2>1. PICK i \in 1 .. Len(t) : x = t[i]
    BY <1>1, <1>2 DEF ToSet
  <2>2. i = 1 \/ (i - 1 \in 1 .. Len(s) /\ t[(i - 1) + 1] = s[i - 1] /\ (i - 1) + 1 = i)
    BY <1>1, <2>1
  <2> QED
    BY <1>1, <2>1, <2>2 DEF ToSet
<1>3. ASSUME NEW x \in {c} \cup ToSet(s) PROVE x \in ToSet(t)
  <2>1. CASE x = c
    <3>1. 1 \in 1 .. Len(t)
      BY <1>1
    <3> QED
      BY <1>1, <2>1, <3>1 DEF ToSet
  <2>2. CASE x \in ToSet(s)
    <3>1. PICK i \in 1 .. Len(s) : x = s[i]
      BY <2>2 DEF ToSet
    <3>2. i + 1 \in 1 .. Len(t) /\ t[i + 1] = x
      BY <1>1, <3>1
    <3> HIDE DEF t
    <3> QED
      BY <1>1, <3>2 DEF ToSet
  <2> QED
    BY <1>3, <2>1, <2>2
<1> QED
  BY <1>1, <1>2, <1>3

\* The list of waiters after await_suspend has pushed one.
LEMMA PushAwaiter ==
    ASSUME NEW s \in Seq(Coros), NEW c \in Coros, Distinct(s), c \notin ToSet(s)
    PROVE  /\ <<c>> \o s \in Seq(Coros)
           /\ ToSet(<<c>> \o s) = {c} \cup ToSet(s)
           /\ Distinct(<<c>> \o s)
<1> DEFINE t == <<c>> \o s
<1>1. /\ t \in Seq(Coros) /\ Len(t) = Len(s) + 1 /\ t[1] = c
      /\ \A i \in 1 .. Len(s) : t[i + 1] = s[i]
  OBVIOUS
<1>2. \A i \in 1 .. Len(t) : i = 1 \/ (i - 1 \in 1 .. Len(s) /\ t[i] = s[i - 1])
  <2> TAKE i \in 1 .. Len(t)
  <2>1. i = 1 \/ (i - 1 \in 1 .. Len(s) /\ t[(i - 1) + 1] = s[i - 1] /\ (i - 1) + 1 = i)
    BY <1>1
  <2> QED
    BY <2>1
<1> HIDE DEF t
<1>3. ToSet(t) = {c} \cup ToSet(s)
  BY AwaiterPushed DEF t
<1>5. Distinct(t)
  <2> SUFFICES ASSUME NEW i \in 1 .. Len(t), NEW j \in 1 .. Len(t), t[i] = t[j]
               PROVE  i = j
    BY DEF Distinct
  <2>1. \A k \in 1 .. Len(s) : s[k] # c
    BY DEF ToSet
  <2>2. i = 1 => j = 1
    BY <1>1, <1>2, <2>1
  <2>3. j = 1 => i = 1
    BY <1>1, <1>2, <2>1
  <2>4. i # 1 /\ j # 1 => i - 1 = j - 1
    BY <1>2 DEF Distinct
  <2> QED
    BY <2>2, <2>3, <2>4
<1> QED
  BY <1>1, <1>3, <1>5 DEF t

\* resumeWaiters on the n newest waiters leaves the others on the list.
LEMMA DropAwaiters ==
    ASSUME NEW s \in Seq(Coros), NEW n \in 0 .. Len(s), Distinct(s)
    PROVE  /\ SubSeq(s, n + 1, Len(s)) \in Seq(Coros)
           /\ Distinct(SubSeq(s, n + 1, Len(s)))
           /\ ToSet(SubSeq(s, 1, n)) \subseteq ToSet(s)
           /\ ToSet(SubSeq(s, n + 1, Len(s))) = ToSet(s) \ ToSet(SubSeq(s, 1, n))
           /\ Len(SubSeq(s, n + 1, Len(s))) = Len(s) - n
           /\ n = 1 => ToSet(SubSeq(s, 1, n)) = {s[1]}
<1> DEFINE rest == SubSeq(s, n + 1, Len(s))
           woken == SubSeq(s, 1, n)
<1>0. n \in Int /\ Len(s) \in Nat /\ n + 1 \in Int /\ \A i \in 1 .. Len(s) : s[i] \in Coros
  OBVIOUS
<1>1. /\ rest \in Seq(Coros) /\ Len(rest) = Len(s) - n
      /\ \A i \in 1 .. Len(s) - n : rest[i] = s[n + i]
  <2>1. \A i \in n + 1 .. Len(s) : s[i] \in Coros
    BY <1>0
  <2>2. /\ rest \in Seq(Coros)
        /\ Len(rest) = IF n + 1 <= Len(s) THEN Len(s) - (n + 1) + 1 ELSE 0
        /\ \A i \in 1 .. Len(s) - (n + 1) + 1 : rest[i] = s[(n + 1) + i - 1]
    BY <1>0, <2>1, SubSeqProperties
  <2> HIDE DEF rest
  <2>3. \A i \in 1 .. Len(s) - n : i \in 1 .. Len(s) - (n + 1) + 1 /\ (n + 1) + i - 1 = n + i
    BY <1>0
  <2> QED
    BY <1>0, <2>2, <2>3
<1>2. /\ Len(woken) = n
      /\ \A i \in 1 .. n : woken[i] = s[i]
  <2>1. \A i \in 1 .. n : s[i] \in Coros
    BY <1>0
  <2>2. /\ Len(woken) = IF 1 <= n THEN n - 1 + 1 ELSE 0
        /\ \A i \in 1 .. n - 1 + 1 : woken[i] = s[1 + i - 1]
    BY <1>0, <2>1, SubSeqProperties
  <2> HIDE DEF woken
  <2>3. \A i \in 1 .. n : i \in 1 .. n - 1 + 1 /\ 1 + i - 1 = i
    BY <1>0
  <2> QED
    BY <1>0, <2>2, <2>3
<1>3. woken \in Seq(Coros)
  BY <1>0, SubSeqProperties
<1> HIDE DEF rest, woken
<1>4. ToSet(woken) = {s[i] : i \in 1 .. n}
  BY <1>2, <1>3 DEF ToSet
<1>5. ToSet(rest) = {s[i] : i \in n + 1 .. Len(s)}
  <2>1. \A i \in 1 .. Len(s) - n : n + i \in n + 1 .. Len(s)
    BY <1>0
  <2>2. \A i \in n + 1 .. Len(s) : i - n \in 1 .. Len(s) - n /\ rest[i - n] = s[i]
    <3> TAKE i \in n + 1 .. Len(s)
    <3>1. i - n \in 1 .. Len(s) - n /\ n + (i - n) = i
      BY <1>0
    <3> QED
      BY <1>1, <3>1
  <2>3. ToSet(rest) = {rest[i] : i \in 1 .. Len(s) - n}
    BY <1>1 DEF ToSet
  <2>4. \A x \in ToSet(rest) : x \in {s[i] : i \in n + 1 .. Len(s)}
    BY <1>1, <2>1, <2>3
  <2>5. \A i \in n + 1 .. Len(s) : s[i] \in ToSet(rest)
    BY <2>2, <2>3
  <2> QED
    BY <2>4, <2>5
<1>6. ToSet(s) = {s[i] : i \in 1 .. Len(s)}
  BY DEF ToSet
<1>7. ToSet(rest) = ToSet(s) \ ToSet(woken)
  <2>1. \A i \in 1 .. Len(s) : i \in 1 .. n \/ i \in n + 1 .. Len(s)
    BY <1>0
  <2>2. \A i \in n + 1 .. Len(s), j \in 1 .. n : i \in 1 .. Len(s) /\ j \in 1 .. Len(s) /\ i # j
    BY <1>0
  <2>3. \A i \in n + 1 .. Len(s), j \in 1 .. n : s[i] # s[j]
    BY <2>2 DEF Distinct
  <2> QED
    BY <1>4, <1>5, <1>6, <2>1, <2>2, <2>3
<1>8. ToSet(woken) \subseteq ToSet(s)
  BY <1>0, <1>4, <1>6
<1>9. Distinct(rest)
  <2> SUFFICES ASSUME NEW i \in 1 .. Len(rest), NEW j \in 1 .. Len(rest), rest[i] = rest[j]
               PROVE  i = j
    BY DEF Distinct
  <2>1. /\ n + i \in 1 .. Len(s) /\ n + j \in 1 .. Len(s)
        /\ rest[i] = s[n + i] /\ rest[j] = s[n + j]
    BY <1>0, <1>1
  <2>2. n + i = n + j
    BY <2>1 DEF Distinct
  <2> QED
    BY <1>0, <1>1, <2>2
<1>10. n = 1 => ToSet(woken) = {s[1]}
  BY <1>4
<1> QED
  BY <1>1, <1>7, <1>8, <1>9, <1>10 DEF rest, woken

----
\* The coroutines on the way to a permit.
Coming == Woken \cup {c \in Coros : pc[c] = "acquire"}

\* The sets that are counted are finite.
LEMMA CountedSets ==
    ASSUME IsFiniteSet(Coros)
    PROVE  /\ IsFiniteSet(Pending) /\ Cardinality(Pending) \in Nat
           /\ IsFiniteSet(Pending') /\ Cardinality(Pending') \in Nat
           /\ IsFiniteSet(Coming) /\ Cardinality(Coming) \in Nat
           /\ IsFiniteSet(Coming') /\ Cardinality(Coming') \in Nat
<1>1. IsFiniteSet(1 .. LeastMaxValue)
  BY SemaphoreAssumption, FS_Interval
<1>2. IsFiniteSet(Coros \X (1 .. LeastMaxValue))
  BY <1>1, FS_Product
<1>3. /\ Pending \in SUBSET (Coros \X (1 .. LeastMaxValue))
      /\ Pending' \in SUBSET (Coros \X (1 .. LeastMaxValue))
      /\ Coming \in SUBSET Coros /\ Coming' \in SUBSET Coros
  BY DEF Pending, Coming, Woken
<1>4. IsFiniteSet(Pending) /\ IsFiniteSet(Pending') /\ IsFiniteSet(Coming) /\ IsFiniteSet(Coming')
  BY <1>2, <1>3, FS_Subset
<1> QED
  BY <1>4, FS_CardinalityType

\* What release is called with, for any u in the place of update.
Spread(u) == {p \in Coros \X (1 .. LeastMaxValue) : p[2] <= u[p[1]]}

\* A coroutine that enters release(n) brings n permits, and adds as many when it leaves.
LEMMA PermitsSpread ==
    ASSUME IsFiniteSet(Coros), NEW u \in [Coros -> 0 .. LeastMaxValue], NEW c \in Coros,
           u[c] = 0, NEW n \in 1 .. LeastMaxValue
    PROVE  Cardinality(Spread([u EXCEPT ![c] = n])) = Cardinality(Spread(u)) + n
<1> DEFINE v == [u EXCEPT ![c] = n]
           all == Coros \X (1 .. LeastMaxValue)
           own == {c} \X (1 .. n)
<1>0. LeastMaxValue \in Nat /\ n \in Nat /\ \A d \in Coros : u[d] \in Nat
  BY SemaphoreAssumption
<1>1. \A d \in Coros : v[d] = IF d = c THEN n ELSE u[d]
  OBVIOUS
<1> HIDE DEF v
<1>2. ASSUME NEW q \in all
      PROVE  /\ q \in Spread(v) <=> q \in Spread(u) \cup own
             /\ ~(q \in Spread(u) /\ q \in own)
  <2>1. PICK d \in Coros, i \in 1 .. LeastMaxValue : q = <<d, i>>
    BY <1>2
  <2>2. (q \in Spread(u) <=> i <= u[d]) /\ (q \in Spread(v) <=> i <= v[d])
    BY <2>1 DEF Spread
  <2>3. q \in own <=> d = c /\ i <= n
    BY <1>0, <2>1
  <2> HIDE DEF own
  <2> QED
    BY <1>0, <1>1, <2>1, <2>2, <2>3
<1>3. Spread(u) \subseteq all /\ Spread(v) \subseteq all
  BY DEF Spread
<1>4. own \subseteq all
  BY <1>0
<1>5. Spread(v) = Spread(u) \cup own /\ Spread(u) \cap own = {}
  <2> HIDE DEF own, all
  <2> QED
    BY <1>2, <1>3, <1>4
<1>6. IsFiniteSet(own) /\ Cardinality(own) = n
  <2>1. IsFiniteSet(1 .. n) /\ Cardinality(1 .. n) = n
    <3>1. IsFiniteSet(1 .. n) /\ Cardinality(1 .. n) = IF 1 > n THEN 0 ELSE n - 1 + 1
      <4>1. 1 \in Int /\ n \in Int
        BY <1>0
      <4> QED
        BY <4>1, FS_Interval
    <3> QED
      BY <1>0, <3>1
  <2>2. IsFiniteSet({c}) /\ Cardinality({c}) = 1
    BY FS_Singleton
  <2>3. IsFiniteSet(own) /\ Cardinality(own) = Cardinality({c}) * Cardinality(1 .. n)
    BY <2>1, <2>2, FS_Product
  <2>4. Cardinality(own) = 1 * n
    BY <2>1, <2>2, <2>3
  <2> HIDE DEF own
  <2> QED
    BY <1>0, <2>3, <2>4
<1>7. IsFiniteSet(Spread(u))
  <2>1. IsFiniteSet(1 .. LeastMaxValue)
    BY <1>0, FS_Interval
  <2>2. IsFiniteSet(all)
    BY <2>1, FS_Product
  <2> QED
    BY <1>3, <2>2, FS_Subset
<1> HIDE DEF own
<1>8. Cardinality(Spread(u)) \in Nat
  BY <1>7, FS_CardinalityType
<1>9. Cardinality(Spread(v)) = Cardinality(Spread(u)) + Cardinality(own) - 0
  <2>1. /\ Cardinality(Spread(u) \cup own) = Cardinality(Spread(u)) + Cardinality(own)
                                              - Cardinality(Spread(u) \cap own)
        /\ Cardinality(Spread(u) \cap own) = 0
    BY <1>5, <1>6, <1>7, FS_Union, FS_EmptySet
  <2> QED
    BY <1>5, <2>1
<1>10. Cardinality(Spread(v)) = Cardinality(Spread(u)) + n
  BY <1>0, <1>6, <1>8, <1>9
<1> QED
  BY <1>10 DEF v

----
\* The invariant holds at the beginning.
LEMMA InitSemaphoreInv ==
    ASSUME IsFiniteSet(Coros), Init PROVE SemaphoreInv
<1> USE SemaphoreAssumption DEF Init, SyncInit
<1>0. ToSet(<<>>) = {} /\ <<>> \in Seq(Coros) /\ Len(<<>>) = 0
  BY DEF ToSet
<1>1. TypeOK
  <2>1. locked \in BOOLEAN /\ awaiters \in [Conditions -> Seq(Coros)]
    BY <1>0
  <2>2. pc \in [Coros -> {"idle", "lockAcquire", "lockTryAcquire", "lockRelease", "suspended",
                          "relock"} \cup Critical]
    OBVIOUS
  <2>3. at \in [Coros -> {"none", "acquire"}]
    OBVIOUS
  <2>4. /\ count \in 0 .. LeastMaxValue /\ update \in [Coros -> 0 .. LeastMaxValue]
        /\ round \in [Coros -> 0 .. Rounds] /\ given \in Nat /\ acquired \in Nat
    OBVIOUS
  <2> QED
    BY <2>1, <2>2, <2>3, <2>4 DEF TypeOK
<1>2. SpinInv
  BY DEF SpinInv, Critical
<1>3. ListInv
  BY <1>0 DEF ListInv, Distinct
<1>4. UpdateInv
  BY DEF UpdateInv
<1>5. PermitInv
  <2>1. Pending = {}
    <3> SUFFICES ASSUME NEW p \in Pending PROVE FALSE
      OBVIOUS
    <3>1. p[1] \in Coros /\ p[2] \in 1 .. LeastMaxValue /\ p[2] <= update[p[1]]
      BY DEF Pending
    <3> QED
      BY <3>1
  <2>2. Cardinality(Pending) = 0
    BY <2>1, FS_EmptySet
  <2> QED
    BY <2>2 DEF PermitInv
<1>6. NoIdlePermit
  BY DEF NoIdlePermit
<1> QED
  BY <1>1, <1>2, <1>3, <1>4, <1>5, <1>6 DEF SemaphoreInv

\* A step that leaves the permits alone.
LEMMA PermitsKept ==
    ASSUME PermitInv, UNCHANGED <<count, update, history>> PROVE PermitInv'
BY DEF PermitInv, Pending, history

\* A step that leaves the permits and the list alone, and takes nobody off the way.
LEMMA ComingKept ==
    ASSUME IsFiniteSet(Coros), TypeOK, NoIdlePermit, UNCHANGED <<count, awaiters>>,
           Coming \subseteq Coming'
    PROVE  NoIdlePermit'
<1>1. Cardinality(Coming) <= Cardinality(Coming')
  BY CountedSets, FS_Subset
<1>2. awaiters["cv"] # <<>> => count <= Cardinality(Coming)
  BY DEF NoIdlePermit, Coming
<1>3. count \in Nat
  BY SemaphoreAssumption DEF TypeOK
<1>4. awaiters'["cv"] # <<>> => count' <= Cardinality(Coming')
  BY <1>1, <1>2, <1>3, CountedSets
<1> QED
  BY <1>4 DEF NoIdlePermit, Coming

\* The calls and the ways into the lock.
LEMMA StepsOutside ==
    ASSUME IsFiniteSet(Coros), SemaphoreInv, NEW c \in Coros,
           CallAcquire(c) \/ CallRelease(c) \/ ScopedLock(c) \/ RelockWait(c)
    PROVE  SemaphoreInv'
<1> USE SemaphoreAssumption DEF SemaphoreInv, Critical
<1>1. CASE CallAcquire(c)
  <2>0. PICK l \in {"lockAcquire", "lockTryAcquire"} : Call(c, l) /\ Goto(c, l)
    BY <1>1 DEF CallAcquire, Call
  <2>1. TypeOK'
    BY <1>1, <2>0 DEF CallAcquire, Call, Goto, TypeOK
  <2>2. SpinInv'
    BY <1>1, <2>0 DEF CallAcquire, Call, Goto, TypeOK, SpinInv
  <2>3. ListInv'
    BY <1>1, <2>0 DEF CallAcquire, Call, Goto, TypeOK, ListInv
  <2>4. UpdateInv'
    BY <1>1, <2>0 DEF CallAcquire, Call, Goto, TypeOK, UpdateInv
  <2>5. PermitInv'
    BY <1>1, <2>0, PermitsKept DEF CallAcquire, Call, history
  <2>6. NoIdlePermit'
    BY <1>1, <2>0, ComingKept DEF CallAcquire, Call, Goto, TypeOK, Coming, Woken
  <2> QED
    BY <2>1, <2>2, <2>3, <2>4, <2>5, <2>6
<1>2. CASE CallRelease(c)
  <2>0. PICK n \in 1 .. LeastMaxValue :
          /\ count + Cardinality(Pending) + n <= LeastMaxValue
          /\ update' = [update EXCEPT ![c] = n] /\ given' = given + n
    BY <1>2 DEF CallRelease
  <2>a. Call(c, "lockRelease") /\ update[c] = 0
    BY <1>2 DEF CallRelease, Call, UpdateInv
  <2>1. TypeOK'
    <3>1. n \in 0 .. LeastMaxValue /\ n \in Nat
      OBVIOUS
    <3> QED
      BY <2>0, <2>a, <3>1 DEF Call, Goto, TypeOK
  <2>2. SpinInv'
    BY <2>a DEF Call, Goto, TypeOK, SpinInv
  <2>3. ListInv'
    BY <2>a DEF Call, Goto, TypeOK, ListInv
  <2>4. UpdateInv'
    BY <2>0, <2>a DEF Call, Goto, TypeOK, UpdateInv
  <2>5. PermitInv'
    <3>1. Cardinality(Pending') = Cardinality(Pending) + n
      <4>1. update \in [Coros -> 0 .. LeastMaxValue]
        BY DEF TypeOK
      <4>2. Pending = Spread(update) /\ Pending' = Spread([update EXCEPT ![c] = n])
        BY <2>0 DEF Pending, Spread
      <4> QED
        BY <2>a, <4>1, <4>2, PermitsSpread
    <3>2. count' = count /\ acquired' = acquired /\ count \in Nat /\ acquired \in Nat
      BY <2>a DEF Call, TypeOK
    <3>3. /\ Cardinality(Pending) \in Nat /\ given \in Nat /\ n \in Nat /\ LeastMaxValue \in Nat
          /\ count + acquired + Cardinality(Pending) = given
      BY CountedSets DEF PermitInv, TypeOK
    <3>4. /\ count' + acquired' + Cardinality(Pending') = given'
          /\ count' + Cardinality(Pending') <= LeastMaxValue
      BY <2>0, <3>1, <3>2, <3>3
    <3> QED
      BY <3>4 DEF PermitInv
  <2>6. NoIdlePermit'
    BY <2>a, ComingKept DEF Call, Goto, TypeOK, Coming, Woken
  <2> QED
    BY <2>1, <2>2, <2>3, <2>4, <2>5, <2>6
<1>3. CASE ScopedLock(c)
  <2>0. PICK l \in {"acquire", "tryAcquire", "release"} :
          /\ CoLock(c, l) /\ (l = "acquire" => pc[c] = "lockAcquire")
          /\ (l = "tryAcquire" => pc[c] = "lockTryAcquire")
          /\ (l = "release" => pc[c] = "lockRelease")
    BY <1>3 DEF ScopedLock
  <2>1. TypeOK'
    BY <1>3, <2>0 DEF ScopedLock, CoLock, Goto, TypeOK, history
  <2>2. SpinInv'
    BY <1>3, <2>0 DEF CoLock, Goto, TypeOK, SpinInv
  <2>3. ListInv'
    BY <1>3, <2>0 DEF CoLock, Goto, TypeOK, ListInv
  <2>4. UpdateInv'
    BY <1>3, <2>0 DEF ScopedLock, CoLock, Goto, TypeOK, UpdateInv
  <2>5. PermitInv'
    BY <1>3, PermitsKept DEF ScopedLock
  <2>6. NoIdlePermit'
    BY <1>3, <2>0, ComingKept DEF ScopedLock, CoLock, Goto, TypeOK, Coming, Woken
  <2> QED
    BY <2>1, <2>2, <2>3, <2>4, <2>5, <2>6
<1>4. CASE RelockWait(c)
  <2>0. /\ pc[c] = "relock" /\ at[c] = "acquire" /\ ~locked /\ locked' = TRUE
        /\ pc' = [pc EXCEPT ![c] = "acquire"] /\ at' = [at EXCEPT ![c] = "none"]
        /\ UNCHANGED <<awaiters, count, update, round, given, acquired>>
    BY <1>4 DEF history, RelockWait, Relock, Goto, SpinInv
  <2>1. TypeOK'
    BY <2>0 DEF TypeOK
  <2>2. SpinInv'
    BY <2>0 DEF TypeOK, SpinInv
  <2>3. ListInv'
    BY <2>0 DEF TypeOK, ListInv
  <2>4. UpdateInv'
    BY <2>0 DEF TypeOK, UpdateInv
  <2>5. PermitInv'
    BY <2>0, PermitsKept DEF history
  <2>6. NoIdlePermit'
    BY <2>0, ComingKept DEF TypeOK, Coming, Woken
  <2> QED
    BY <2>1, <2>2, <2>3, <2>4, <2>5, <2>6
<1> QED
  BY <1>1, <1>2, <1>3, <1>4

\* acquire and try_acquire, with the lock.
LEMMA StepsAcquire ==
    ASSUME IsFiniteSet(Coros), SemaphoreInv, NEW c \in Coros, Acquire(c) \/ TryAcquire(c)
    PROVE  SemaphoreInv'
<1> USE SemaphoreAssumption DEF SemaphoreInv, Critical
<1>0. /\ count \in Nat /\ acquired \in Nat /\ at[c] # "acquire"
      /\ pc[c] \in {"acquire", "tryAcquire"} /\ UNCHANGED <<update, round, given>>
      /\ "cv" \in Conditions
  <2>1. /\ count \in Nat /\ acquired \in Nat /\ "cv" \in Conditions
    BY DEF TypeOK
  <2>2. pc[c] \in {"acquire", "tryAcquire"} /\ UNCHANGED <<update, round, given>>
    BY DEF Acquire, TryAcquire
  <2>3. at[c] # "acquire"
    BY <2>2 DEF SpinInv
  <2> QED
    BY <2>1, <2>2, <2>3
<1>1. ASSUME TakePermit(c), count # 0 PROVE SemaphoreInv'
  <2>0. /\ count' = count - 1 /\ acquired' = acquired + 1 /\ locked' = FALSE
        /\ pc' = [pc EXCEPT ![c] = "idle"] /\ awaiters' = awaiters /\ at' = at
    BY <1>0, <1>1 DEF TakePermit, Unlock, Goto
  <2>1. TypeOK'
    <3>1. count' \in 0 .. LeastMaxValue /\ acquired' \in Nat
      BY <1>0, <1>1, <2>0 DEF TypeOK
    <3> QED
      BY <1>0, <2>0, <3>1 DEF TypeOK
  <2>2. SpinInv'
    BY <1>0, <2>0 DEF TypeOK, SpinInv
  <2>3. ListInv'
    BY <1>0, <2>0 DEF TypeOK, ListInv
  <2>4. UpdateInv'
    BY <1>0, <2>0 DEF TypeOK, UpdateInv
  <2>5. PermitInv'
    <3>1. Pending' = Pending
      BY <1>0 DEF Pending
    <3> QED
      BY <1>0, <1>1, <2>0, <3>1, CountedSets DEF PermitInv, TypeOK
  <2>6. NoIdlePermit'
    <3>1. Coming' = Coming \ {c}
      BY <2>0 DEF TypeOK, Coming, Woken
    <3>2. Cardinality(Coming \ {c}) >= Cardinality(Coming) - 1
      <4>1. IsFiniteSet(Coming) /\ Cardinality(Coming) \in Nat
        BY CountedSets
      <4>2. Cardinality(Coming \ {c}) = IF c \in Coming THEN Cardinality(Coming) - 1
                                         ELSE Cardinality(Coming)
        BY <4>1, FS_RemoveElement
      <4> HIDE DEF Coming
      <4> QED
        BY <4>1, <4>2
    <3>3. awaiters["cv"] # <<>> => count <= Cardinality(Coming)
      BY DEF NoIdlePermit, Coming
    <3>4. awaiters'["cv"] # <<>> => count' <= Cardinality(Coming')
      BY <1>0, <2>0, <3>1, <3>2, <3>3, CountedSets
    <3> QED
      BY <3>4 DEF NoIdlePermit, Coming
  <2> QED
    BY <2>1, <2>2, <2>3, <2>4, <2>5, <2>6
<1>2. ASSUME count = 0, pc[c] = "acquire", Suspend(c, "cv", "acquire"), UNCHANGED <<count, acquired>>
      PROVE  SemaphoreInv'
  <2>0. /\ pc' = [pc EXCEPT ![c] = "suspended"] /\ at' = [at EXCEPT ![c] = "acquire"]
        /\ locked' = FALSE /\ awaiters' = [awaiters EXCEPT !["cv"] = <<c>> \o awaiters["cv"]]
    BY <1>2 DEF Suspend, Goto
  <2>1. /\ awaiters["cv"] \in Seq(Coros) /\ Distinct(awaiters["cv"])
        /\ c \notin ToSet(awaiters["cv"])
    BY <1>0, <1>2 DEF TypeOK, ListInv
  <2>2. /\ <<c>> \o awaiters["cv"] \in Seq(Coros)
        /\ ToSet(<<c>> \o awaiters["cv"]) = {c} \cup ToSet(awaiters["cv"])
        /\ Distinct(<<c>> \o awaiters["cv"])
    BY <2>1, PushAwaiter
  <2>3. awaiters'["cv"] = <<c>> \o awaiters["cv"]
    BY <1>0, <2>0 DEF TypeOK
  <2>4. TypeOK'
    BY <1>0, <1>2, <2>0, <2>2 DEF TypeOK
  <2>5. SpinInv'
    BY <1>0, <2>0 DEF TypeOK, SpinInv
  <2>6. ListInv'
    BY <2>0, <2>2, <2>3 DEF TypeOK, ListInv
  <2>7. UpdateInv'
    BY <1>0, <1>2, <2>0 DEF TypeOK, UpdateInv
  <2>8. PermitInv'
    BY <1>0, <1>2, PermitsKept DEF history
  <2>9. NoIdlePermit'
    <3>1. count' <= Cardinality(Coming')
      BY <1>0, <1>2, CountedSets
    <3> QED
      BY <3>1 DEF NoIdlePermit, Coming
  <2> QED
    BY <2>4, <2>5, <2>6, <2>7, <2>8, <2>9
<1>3. ASSUME pc[c] = "tryAcquire", Unlock(c, "idle"), UNCHANGED <<count, acquired>>
      PROVE  SemaphoreInv'
  <2>0. /\ locked' = FALSE /\ pc' = [pc EXCEPT ![c] = "idle"] /\ awaiters' = awaiters
        /\ at' = at
    BY <1>3 DEF Unlock, Goto
  <2>1. TypeOK'
    BY <1>0, <1>3, <2>0 DEF TypeOK
  <2>2. SpinInv'
    BY <1>0, <2>0 DEF TypeOK, SpinInv
  <2>3. ListInv'
    BY <1>0, <2>0 DEF TypeOK, ListInv
  <2>4. UpdateInv'
    BY <1>0, <1>3, <2>0 DEF TypeOK, UpdateInv
  <2>5. PermitInv'
    BY <1>0, <1>3, PermitsKept DEF history
  <2>6. NoIdlePermit'
    BY <1>3, <2>0, ComingKept DEF TypeOK, Coming, Woken
  <2> QED
    BY <2>1, <2>2, <2>3, <2>4, <2>5, <2>6
<1>4. CASE Acquire(c)
  BY <1>0, <1>1, <1>2, <1>4 DEF Acquire
<1>5. CASE TryAcquire(c)
  BY <1>1, <1>3, <1>5 DEF TryAcquire
<1> QED
  BY <1>4, <1>5

\* release: notifyOne for one permit, notifyAll for several, and the unlock.
LEMMA StepRelease ==
    ASSUME IsFiniteSet(Coros), SemaphoreInv, NEW c \in Coros, Release(c)
    PROVE  SemaphoreInv'
<1> USE SemaphoreAssumption DEF SemaphoreInv, Critical
<1> DEFINE s == awaiters["cv"]
<1>0. /\ pc[c] = "release" /\ count' = count + update[c]
      /\ update' = [update EXCEPT ![c] = 0] /\ UNCHANGED <<round, given, acquired>>
      /\ update[c] \in 1 .. LeastMaxValue /\ "cv" \in Conditions /\ s \in Seq(Coros)
      /\ Distinct(s) /\ ToSet(s) = {d \in Coros : pc[d] = "suspended"}
  BY DEF Release, history, UpdateInv, ListInv, TypeOK
<1>1. /\ count \in Nat /\ acquired \in Nat /\ LeastMaxValue \in Nat
      /\ update[c] \in Nat /\ Len(s) \in Nat
  BY <1>0 DEF TypeOK
<1>2. PICK k \in 0 .. Len(s) :
        /\ ResumeAndUnlock(c, "cv", k, "idle")
        /\ update[c] > 1 => k = Len(s)
        /\ ~(update[c] > 1) /\ s # <<>> => k = 1
  <2>1. CASE update[c] > 1
    <3>1. ResumeAndUnlock(c, "cv", Len(s), "idle")
      BY <2>1 DEF Release, NotifyAll
    <3>2. Len(s) \in 0 .. Len(s)
      BY <1>1
    <3> QED
      BY <2>1, <3>1, <3>2
  <2>2. CASE ~(update[c] > 1) /\ s = <<>>
    <3>1. ResumeAndUnlock(c, "cv", 0, "idle")
      BY <2>2 DEF Release, NotifyOne
    <3>2. 0 \in 0 .. Len(s)
      BY <1>1
    <3> QED
      BY <2>2, <3>1, <3>2
  <2>3. CASE ~(update[c] > 1) /\ s # <<>>
    <3>1. ResumeAndUnlock(c, "cv", 1, "idle")
      BY <2>3 DEF Release, NotifyOne
    <3>2. 1 \in 0 .. Len(s)
      BY <1>0, <1>1, <2>3
    <3> QED
      BY <2>3, <3>1, <3>2
  <2> QED
    BY <2>1, <2>2, <2>3
<1> DEFINE woken == ToSet(SubSeq(s, 1, k))
           rest == SubSeq(s, k + 1, Len(s))
<1>3. /\ rest \in Seq(Coros) /\ Distinct(rest) /\ woken \subseteq ToSet(s)
      /\ ToSet(rest) = ToSet(s) \ woken /\ Len(rest) = Len(s) - k
      /\ k = 1 => woken = {s[1]}
  BY <1>0, DropAwaiters
<1>4. /\ awaiters' = [awaiters EXCEPT !["cv"] = rest]
      /\ pc' = [d \in Coros |-> IF d = c THEN "idle"
                                 ELSE IF d \in woken THEN "relock" ELSE pc[d]]
      /\ locked' = FALSE /\ at' = at
  BY <1>2 DEF ResumeAndUnlock
<1>5. awaiters'["cv"] = rest /\ awaiters' \in [Conditions -> Seq(Coros)]
  BY <1>0, <1>3, <1>4 DEF TypeOK
<1> HIDE DEF woken, rest
<1>6. \A d \in woken : d \in Coros /\ pc[d] = "suspended" /\ d # c
  BY <1>0, <1>3
<1>7. PermitInv'
  <2>1. Cardinality(Pending) = Cardinality(Pending') + update[c]
    <3>1. update' \in [Coros -> 0 .. LeastMaxValue] /\ update'[c] = 0
      BY <1>0, <1>1 DEF TypeOK
    <3>2. update = [update' EXCEPT ![c] = update[c]]
      BY <1>0 DEF TypeOK
    <3>3. Pending = Spread(update) /\ Pending' = Spread(update')
      BY DEF Pending, Spread
    <3> QED
      BY <1>0, <3>1, <3>2, <3>3, PermitsSpread
  <2>2. /\ Cardinality(Pending') \in Nat /\ count + acquired + Cardinality(Pending) = given
        /\ count + Cardinality(Pending) <= LeastMaxValue
    BY CountedSets DEF PermitInv
  <2>3. /\ count' + acquired' + Cardinality(Pending') = given'
        /\ count' + Cardinality(Pending') <= LeastMaxValue
    BY <1>0, <1>1, <2>1, <2>2
  <2> QED
    BY <2>3 DEF PermitInv
<1>8. TypeOK'
  <2>1. count' \in 0 .. LeastMaxValue
    <3>1. Cardinality(Pending') \in Nat /\ count' + Cardinality(Pending') <= LeastMaxValue
      BY <1>7, CountedSets DEF PermitInv
    <3>2. count' \in Nat
      BY <1>0, <1>1
    <3> QED
      BY <1>1, <3>1, <3>2
  <2>3. update' \in [Coros -> 0 .. LeastMaxValue]
    BY <1>0, <1>1 DEF TypeOK
  <2>4. pc' \in [Coros -> {"idle", "lockAcquire", "lockTryAcquire", "lockRelease", "suspended",
                           "relock"} \cup Critical]
    BY <1>4 DEF TypeOK
  <2> QED
    BY <1>0, <1>4, <1>5, <2>1, <2>3, <2>4 DEF TypeOK
<1>9. SpinInv'
  <2>1. \A d \in Coros : pc'[d] \notin Critical
    BY <1>0, <1>4 DEF SpinInv
  <2>2. \A d \in Coros : at'[d] = "acquire" <=> pc'[d] \in {"suspended", "relock"}
    BY <1>0, <1>4, <1>6 DEF SpinInv
  <2> QED
    BY <2>1, <2>2 DEF SpinInv
<1>10. ListInv'
  <2>1. \A d \in Coros : pc'[d] = "suspended" <=> pc[d] = "suspended" /\ d \notin woken
    BY <1>0, <1>4
  <2> QED
    BY <1>0, <1>3, <1>5, <2>1 DEF ListInv
<1>11. UpdateInv'
  <2>1. \A d \in Coros : update'[d] = IF d = c THEN 0 ELSE update[d]
    BY <1>0 DEF TypeOK
  <2>2. \A d \in Coros : d # c => pc'[d] = pc[d] \/ (pc[d] = "suspended" /\ pc'[d] = "relock")
    BY <1>4, <1>6
  <2>3. pc'[c] = "idle"
    BY <1>4
  <2> QED
    BY <2>1, <2>2, <2>3 DEF UpdateInv
<1>12. NoIdlePermit'
  <2>1. CASE update[c] > 1 \/ s = <<>>
    <3>1. Len(rest) = 0
      BY <1>1, <1>2, <1>3, <2>1
    <3>2. rest = <<>>
      BY <1>3, <3>1
    <3> QED
      BY <1>5, <3>2 DEF NoIdlePermit
  <2>2. CASE ~(update[c] > 1) /\ s # <<>>
    <3>1. update[c] = 1 /\ k = 1
      BY <1>0, <1>1, <1>2, <2>2
    <3>2. woken = {s[1]} /\ s[1] \notin Coming
      <4>1. woken = {s[1]}
        BY <1>3, <3>1
      <4>2. pc[s[1]] = "suspended"
        BY <1>6, <4>1
      <4> QED
        BY <4>1, <4>2 DEF Coming, Woken
    <3>3. Coming' = Coming \cup {s[1]}
      BY <1>0, <1>4, <1>6, <3>2 DEF Coming, Woken
    <3>4. Cardinality(Coming') = Cardinality(Coming) + 1
      BY <3>2, <3>3, CountedSets, FS_AddElement
    <3>5. count <= Cardinality(Coming)
      BY <2>2 DEF NoIdlePermit, Coming
    <3>6. count' <= Cardinality(Coming')
      BY <1>0, <1>1, <3>1, <3>4, <3>5, CountedSets
    <3> QED
      BY <3>6 DEF NoIdlePermit, Coming
  <2> QED
    BY <2>1, <2>2
<1> QED
  BY <1>7, <1>8, <1>9, <1>10, <1>11, <1>12

\* Every step preserves the invariant.
LEMMA StepSemaphoreInv ==
    ASSUME IsFiniteSet(Coros), SemaphoreInv, [Next]_vars PROVE SemaphoreInv'
<1>1. ASSUME NEW c \in Coros, CallAcquire(c) \/ CallRelease(c) \/ Step(c) PROVE SemaphoreInv'
  BY <1>1, StepsOutside, StepsAcquire, StepRelease DEF Step
<1>2. CASE UNCHANGED vars
  <2>1. UNCHANGED <<locked, awaiters, pc, at, count, update, round, given, acquired>>
    BY <1>2 DEF vars, syncVars, history
  <2>2. TypeOK' /\ SpinInv' /\ ListInv' /\ UpdateInv'
    BY <2>1 DEF SemaphoreInv, TypeOK, SpinInv, ListInv, UpdateInv
  <2>3. PermitInv' /\ NoIdlePermit'
    BY <2>1, PermitsKept DEF SemaphoreInv, NoIdlePermit, Woken, history
  <2> QED
    BY <2>2, <2>3 DEF SemaphoreInv
<1> QED
  BY <1>1, <1>2 DEF Next

\* CountingSemaphore: the invariant holds in every reachable state.
THEOREM SemaphoreInvariant ==
    ASSUME IsFiniteSet(Coros) PROVE Spec => []SemaphoreInv
<1>1. Init => SemaphoreInv
  BY InitSemaphoreInv
<1>2. SemaphoreInv /\ [Next]_vars => SemaphoreInv'
  BY StepSemaphoreInv
<1> QED
  BY <1>1, <1>2, PTL DEF Spec

\* A list without repetitions is as long as its set of elements is large.
LEMMA DistinctLength ==
    ASSUME NEW s \in Seq(Coros), Distinct(s)
    PROVE  Len(s) = Cardinality(ToSet(s))
<1>1. Len(s) \in Nat /\ IsFiniteSet(1 .. Len(s)) /\ Cardinality(1 .. Len(s)) = Len(s)
  <2>1. PICK n \in Nat : n = Len(s)
    OBVIOUS
  <2>2. IsFiniteSet(1 .. n) /\ Cardinality(1 .. n) = IF 1 > n THEN 0 ELSE n - 1 + 1
    BY FS_Interval
  <2>3. Cardinality(1 .. n) = n
    BY <2>2
  <2> QED
    BY <2>1, <2>2, <2>3
<1> DEFINE f == [i \in 1 .. Len(s) |-> s[i]]
<1>2. f \in Bijection(1 .. Len(s), ToSet(s))
  BY DEF Bijection, Injection, Surjection, IsInjective, Distinct, ToSet
<1>3. ExistsBijection(1 .. Len(s), ToSet(s))
  BY <1>2 DEF ExistsBijection
<1>4. Cardinality(1 .. Len(s)) = Cardinality(ToSet(s))
  BY <1>1, <1>3, FS_Bijection
<1> QED
  BY <1>1, <1>4

\* acquire, try_acquire, release: for every maximum, every initial count, zero included,
\* and every finite set of coroutines that acquire and release as they like within the
\* maximum, a permit is acquired at most once and none is lost, the assertion of release
\* holds, and the list holds the suspended coroutines, each once.
THEOREM SemaphoreConserves ==
    ASSUME IsFiniteSet(Coros) PROVE Spec => []ConservesPermits
<1>1. SemaphoreInv => ConservesPermits
  <2> SUFFICES ASSUME SemaphoreInv PROVE ConservesPermits
    OBVIOUS
  <2>1. awaiters["cv"] \in Seq(Coros)
    BY SemaphoreAssumption DEF SemaphoreInv, TypeOK
  <2>2. Len(awaiters["cv"]) = Cardinality(ToSet(awaiters["cv"]))
    BY <2>1, DistinctLength DEF SemaphoreInv, ListInv
  <2>3. ASSUME NEW c \in Coros PROVE count <= LeastMaxValue - update[c]
    <3>1. /\ update \in [Coros -> 0 .. LeastMaxValue] /\ update[c] \in 0 .. LeastMaxValue
          /\ count \in Nat /\ LeastMaxValue \in Nat
          /\ count + Cardinality(Pending) <= LeastMaxValue
      BY SemaphoreAssumption DEF SemaphoreInv, TypeOK, PermitInv
    <3>2. CASE update[c] = 0
      BY <3>1, <3>2, CountedSets
    <3>3. CASE update[c] # 0
      <4> DEFINE others == [update EXCEPT ![c] = 0]
      <4>1. /\ others \in [Coros -> 0 .. LeastMaxValue] /\ others[c] = 0
            /\ update = [others EXCEPT ![c] = update[c]] /\ update[c] \in 1 .. LeastMaxValue
        <5>1. others \in [Coros -> 0 .. LeastMaxValue] /\ others[c] = 0
          BY <3>1
        <5>2. update[c] \in 1 .. LeastMaxValue
          BY <3>1, <3>3
        <5>3. update = [others EXCEPT ![c] = update[c]]
          BY <3>1
        <5> QED
          BY <5>1, <5>2, <5>3
      <4> HIDE DEF others
      <4>2. Cardinality(Spread(update)) = Cardinality(Spread(others)) + update[c]
        BY <4>1, PermitsSpread
      <4>3. Pending = Spread(update)
        BY DEF Pending, Spread
      <4>4. Cardinality(Spread(others)) \in Nat
        <5>1. IsFiniteSet(1 .. LeastMaxValue)
          BY <3>1, FS_Interval
        <5>2. IsFiniteSet(Coros \X (1 .. LeastMaxValue))
          BY <5>1, FS_Product
        <5>3. Spread(others) \subseteq Coros \X (1 .. LeastMaxValue)
          BY DEF Spread
        <5>4. IsFiniteSet(Spread(others))
          BY <5>2, <5>3, FS_Subset
        <5> QED
          BY <5>4, FS_CardinalityType
      <4> QED
        BY <3>1, <4>2, <4>3, <4>4
    <3> QED
      BY <3>2, <3>3
  <2> QED
    BY <2>2, <2>3 DEF SemaphoreInv, ListInv, PermitInv, ConservesPermits, WaitersAreSuspended,
                      ReleaseAssertHolds
<1> QED
  BY <1>1, SemaphoreInvariant, PTL

\* release: one notification for one permit and notifyAll for several leave no permit
\* free beside a waiter that nobody will wake up.
THEOREM SemaphoreWakesEnough ==
    ASSUME IsFiniteSet(Coros) PROVE Spec => []NoIdlePermit
<1>1. SemaphoreInv => NoIdlePermit
  BY DEF SemaphoreInv
<1> QED
  BY <1>1, SemaphoreInvariant, PTL

\* SpinLock::unlock's assertion holds in every use without cancellation: the violation
\* that SemaphoreCancel shows needs the signal.
THEOREM SemaphoreUnlocksItsOwn ==
    ASSUME IsFiniteSet(Coros) PROVE Spec => []UnlockAssertHolds
<1>1. SemaphoreInv => UnlockAssertHolds
  BY DEF SemaphoreInv, SpinInv, UnlockAssertHolds
<1> QED
  BY <1>1, SemaphoreInvariant, PTL
----
(* coro::Latch leaves nobody behind, for every count and every set of coroutines. *)

\* The inductive invariant: that nobody stays suspended at zero needs that every suspended
\* coroutine is on the list that notifyAll empties.
LatchInv == L!TypeOK /\ L!WaitersListed /\ L!HoldsLock /\ L!NobodyLeftBehind /\ L!PassesAtZero

\* notifyAll resumes every waiter and leaves an empty list.
LEMMA NotifyAllEmpties ==
    ASSUME L!TypeOK, Conditions = {"cv"}, NEW c \in Coros, NEW label, L!NotifyAll(c, "cv", label)
    PROVE  /\ awaiters' = [awaiters EXCEPT !["cv"] = <<>>]
           /\ pc' = [d \in Coros |->
                       IF d = c THEN label
                       ELSE IF d \in L!ToSet(awaiters["cv"]) THEN "relock" ELSE pc[d]]
           /\ locked' = FALSE /\ at' = at
<1> DEFINE s == awaiters["cv"]
<1>1. s \in Seq(Coros) /\ Len(s) \in Nat
  BY DEF L!TypeOK
<1>2. SubSeq(s, Len(s) + 1, Len(s)) = <<>>
  BY <1>1, SubSeqEmpty
<1>3. SubSeq(s, 1, Len(s)) = s
  BY <1>1, SubSeqFull
<1> QED
  BY <1>2, <1>3 DEF L!NotifyAll, L!ResumeAndUnlock

\* The invariant holds at the beginning.
LEMMA InitLatchInv ==
    ASSUME Count \in Nat, Conditions = {"cv"}, L!Init PROVE LatchInv
<1>1. L!TypeOK
  <2>1. <<>> \in Seq(Coros)
    OBVIOUS
  <2>2. locked \in BOOLEAN /\ awaiters \in [Conditions -> Seq(Coros)]
    BY <2>1 DEF L!Init, L!SyncInit
  <2>3. /\ pc \in [Coros -> {"idle", "suspended", "relock"} \cup L!Calls \cup L!Critical]
        /\ at \in [Coros -> {"none", "wait"}] /\ passed \subseteq Coros
    BY DEF L!Init, L!SyncInit
  <2>4. count \in 0 .. Count
    BY DEF L!Init
  <2> QED
    BY <2>2, <2>3, <2>4 DEF L!TypeOK
<1>2. L!ToSet(awaiters["cv"]) = {}
  BY DEF L!Init, L!SyncInit, L!ToSet
<1> QED
  BY <1>1, <1>2 DEF L!Init, L!SyncInit, LatchInv, L!WaitersListed, L!HoldsLock, L!NobodyLeftBehind,
              L!PassesAtZero, L!Critical

\* Every step preserves it: one case per operation.
LEMMA StepLatchInv ==
    ASSUME Count \in Nat, Conditions = {"cv"}, LatchInv, [L!Next]_(L!vars) PROVE LatchInv'
<1> USE DEF LatchInv, L!Calls, L!Critical
<1>1. ASSUME NEW c \in Coros, NEW label \in L!Calls, L!Call(c, label) PROVE LatchInv'
  BY <1>1 DEF L!Call, L!Goto, L!TypeOK, L!WaitersListed, L!HoldsLock, L!NobodyLeftBehind, L!PassesAtZero
<1>2. ASSUME NEW c \in Coros, L!ScopedLock(c) PROVE LatchInv'
  <2>1. PICK label \in L!Critical : L!CoLock(c, label) /\ pc[c] \in L!Calls
    BY <1>2 DEF L!ScopedLock
  <2>2. /\ ~locked /\ locked' = TRUE /\ awaiters' = awaiters /\ at' = at
        /\ pc' = [pc EXCEPT ![c] = label] /\ count' = count /\ passed' = passed
    BY <1>2, <2>1 DEF L!ScopedLock, L!CoLock, L!Goto
  <2> QED
    BY <2>1, <2>2 DEF L!TypeOK, L!WaitersListed, L!HoldsLock, L!NobodyLeftBehind, L!PassesAtZero
<1>3. ASSUME NEW c \in Coros, L!RelockWait(c) PROVE LatchInv'
  <2>1. at[c] = "wait"
    BY <1>3 DEF L!RelockWait, L!Relock, L!WaitersListed
  <2> QED
    BY <1>3, <2>1 DEF L!RelockWait, L!Relock, L!Goto, L!TypeOK, L!WaitersListed, L!HoldsLock,
                      L!NobodyLeftBehind, L!PassesAtZero
<1>4. ASSUME NEW c \in Coros, L!TryWait(c) PROVE LatchInv'
  BY <1>4 DEF L!TryWait, L!Unlock, L!Goto, L!TypeOK, L!WaitersListed, L!HoldsLock, L!NobodyLeftBehind,
              L!PassesAtZero
<1>5. ASSUME NEW c \in Coros, L!Wait(c) PROVE LatchInv'
  <2>1. CASE count # 0 /\ L!Suspend(c, "cv", "wait") /\ UNCHANGED <<passed, count>>
    <3>1. awaiters["cv"] \in Seq(Coros)
      BY DEF L!TypeOK
    <3>a. /\ <<c>> \o awaiters["cv"] \in Seq(Coros)
          /\ L!ToSet(<<c>> \o awaiters["cv"]) = {c} \cup L!ToSet(awaiters["cv"])
      BY <3>1, AwaiterPushed DEF L!ToSet, ToSet
    <3>2. /\ awaiters' = [awaiters EXCEPT !["cv"] = <<c>> \o awaiters["cv"]]
          /\ <<c>> \o awaiters["cv"] \in Seq(Coros)
          /\ awaiters'["cv"] = <<c>> \o awaiters["cv"]
          /\ L!ToSet(awaiters'["cv"]) = {c} \cup L!ToSet(awaiters["cv"])
      BY <2>1, <3>1, <3>a DEF L!Suspend, L!TypeOK
    <3>3. L!TypeOK'
      BY <2>1, <3>2 DEF L!Suspend, L!Goto, L!TypeOK
    <3>4. L!WaitersListed'
      BY <2>1, <3>2 DEF L!Suspend, L!Goto, L!TypeOK, L!WaitersListed
    <3> QED
      BY <1>5, <2>1, <3>3, <3>4 DEF L!Wait, L!Suspend, L!Goto, L!TypeOK, L!HoldsLock,
                                    L!NobodyLeftBehind, L!PassesAtZero
  <2>2. CASE count = 0 /\ L!Unlock(c, "idle") /\ passed' = passed \cup {c} /\ UNCHANGED count
    BY <1>5, <2>2 DEF L!Wait, L!Unlock, L!Goto, L!TypeOK, L!WaitersListed, L!HoldsLock,
                      L!NobodyLeftBehind, L!PassesAtZero
  <2> QED
    BY <1>5, <2>1, <2>2 DEF L!Wait
<1>6. ASSUME NEW c \in Coros, NEW n \in 0 .. count, L!CountDown(c, n) PROVE LatchInv'
  <2> DEFINE after == IF pc[c] = "arrive" THEN "lockWait" ELSE "idle"
  <2>0. /\ pc[c] \in {"down", "arrive"} /\ count' = count - n /\ passed' = passed
        /\ count \in 0 .. Count /\ count' \in 0 .. Count
        /\ count = 0 => count' = 0
    BY <1>6 DEF L!CountDown, L!TypeOK
  <2>1. CASE count - n = 0 /\ L!NotifyAll(c, "cv", after)
    <3>1. /\ awaiters' = [awaiters EXCEPT !["cv"] = <<>>]
          /\ pc' = [d \in Coros |->
                      IF d = c THEN after
                      ELSE IF d \in L!ToSet(awaiters["cv"]) THEN "relock" ELSE pc[d]]
          /\ locked' = FALSE /\ at' = at
      BY <2>1, NotifyAllEmpties
    <3>2. \A d \in Coros : pc[d] = "suspended" => d \in L!ToSet(awaiters["cv"])
      BY DEF L!WaitersListed
    <3>3. \A d \in Coros : pc'[d] \in {"idle", "relock"} \cup L!Calls
      BY <2>0, <3>1, <3>2 DEF L!HoldsLock, L!TypeOK
    <3>4. L!TypeOK'
      <4>1. <<>> \in Seq(Coros)
        OBVIOUS
      <4> QED
        BY <2>0, <3>1, <3>3, <4>1 DEF L!TypeOK
    <3>5. L!WaitersListed'
      <4>1. awaiters'["cv"] = <<>> /\ L!ToSet(<<>>) = {}
        BY <3>1 DEF L!ToSet, L!TypeOK
      <4>2. ASSUME NEW d \in Coros, pc'[d] = "relock" PROVE at'[d] = "wait"
        BY <2>0, <3>1, <4>2 DEF L!WaitersListed
      <4> QED
        BY <3>3, <4>1, <4>2 DEF L!WaitersListed
    <3> QED
      BY <2>0, <2>1, <3>3, <3>4, <3>5 DEF L!HoldsLock, L!NobodyLeftBehind, L!PassesAtZero
  <2>2. CASE count - n # 0 /\ L!Unlock(c, after)
    <3>1. PICK label \in {"idle", "lockWait"} : pc' = [pc EXCEPT ![c] = label]
      BY <2>2 DEF L!Unlock, L!Goto
    <3>2. /\ locked' = FALSE /\ awaiters' = awaiters /\ at' = at
          /\ count # 0 /\ count' # 0
      BY <2>0, <2>2 DEF L!Unlock
    <3>3. \A d \in Coros : pc'[d] = IF d = c THEN label ELSE pc[d]
      BY <3>1 DEF L!TypeOK
    <3>4. L!TypeOK'
      BY <2>0, <3>1, <3>2 DEF L!TypeOK
    <3>5. L!WaitersListed'
      BY <2>0, <3>2, <3>3 DEF L!WaitersListed
    <3>6. L!HoldsLock'
      BY <2>0, <3>3 DEF L!HoldsLock
    <3> QED
      BY <2>0, <3>2, <3>4, <3>5, <3>6 DEF L!NobodyLeftBehind, L!PassesAtZero
  <2> QED
    BY <1>6, <2>1, <2>2 DEF L!CountDown
<1>7. CASE UNCHANGED L!vars
  BY <1>7 DEF L!vars, L!syncVars, L!TypeOK, L!WaitersListed, L!HoldsLock, L!NobodyLeftBehind,
              L!PassesAtZero
<1> QED
  BY <1>1, <1>2, <1>3, <1>4, <1>5, <1>6, <1>7 DEF L!Next, L!Step

\* Latch: wait and try_wait answer only at zero, nobody stays suspended then, and the
\* SpinLock is held alone whenever it is unlocked.
THEOREM LatchReleasesAll ==
    ASSUME Count \in Nat, Conditions = {"cv"}
    PROVE  L!Spec => [](L!NobodyLeftBehind /\ L!PassesAtZero /\ L!HoldsLock)
<1>1. L!Init => LatchInv
  BY InitLatchInv
<1>2. LatchInv /\ [L!Next]_(L!vars) => LatchInv'
  BY StepLatchInv
<1>3. LatchInv => L!NobodyLeftBehind /\ L!PassesAtZero /\ L!HoldsLock
  BY DEF LatchInv
<1> QED
  BY <1>1, <1>2, <1>3, PTL DEF L!Spec
====
