---- MODULE SharedMutexProofs ----
(* coro::SharedMutex excludes, keeps its word to a queued writer and leaves nobody at a *)
(* gate, for every finite set of coroutines.                                            *)
EXTENDS SharedMutex, FiniteSetTheorems, SequenceTheorems, TLAPS

\* Which predicates a coroutine in wait() on a gate has to test again.
Predicates(v) == IF v = "gate1" THEN {"gate1Writer", "gate1Reader"} ELSE {"gate2Writer"}

\* No waiter is twice on a list.
Distinct(s) == \A i, j \in 1 .. Len(s) : s[i] = s[j] => i = j

Outside == {"idle", "tryExclusive", "tryShared"} \cup Waits

\* The SpinLock is held by the one coroutine that is inside, and whoever waits has left
\* the predicate to test.
SpinInv ==
    /\ locked \in BOOLEAN
    /\ awaiters \in [Conditions -> Seq(Coros)]
    /\ pc \in [Coros -> {"suspended", "relock"} \cup Outside \cup Critical]
    /\ at \in [Coros -> {"none", "gate1Writer", "gate2Writer", "gate1Reader"}]
    /\ \A c \in Coros : pc[c] \in Critical => locked
    /\ \A c, d \in Coros : pc[c] \in Critical /\ pc[d] \in Critical => c = d
    /\ \A c \in Coros : at[c] # "none" <=> pc[c] \in {"suspended", "relock"}

\* The lists hold the suspended coroutines, each once, at the gate of its predicate.
ListInv ==
    /\ \A v \in Conditions :
         /\ Distinct(awaiters[v])
         /\ \A c \in ToSet(awaiters[v]) : pc[c] = "suspended" /\ at[c] \in Predicates(v)
    /\ \A c \in Coros : pc[c] = "suspended" =>
         \E v \in Conditions : c \in ToSet(awaiters[v])

\* A coroutine inside an operation has the lock in the mode the operation is for.
ModeInv ==
    /\ mode \in [Coros -> {"none", "shared", "exclusive"}]
    /\ round \in [Coros -> 0 .. Rounds]
    /\ \A c \in Coros :
         /\ pc[c] \in {"lockUnlock", "unlock"} => mode[c] = "exclusive"
         /\ pc[c] \in {"lockUnlockShared", "unlockShared"} => mode[c] = "shared"
         /\ pc[c] \notin {"idle", "lockUnlock", "unlock", "lockUnlockShared", "unlockShared"}
              => mode[c] = "none"

\* The writer the flag stands for: it has the lock, or is in the second half of coLock.
Claims(c) == mode[c] = "exclusive" \/ pc[c] = "gate2Writer" \/ at[c] = "gate2Writer"

\* The flag has one writer, who has the lock only without readers; the count is theirs.
StateInv ==
    /\ writeEntered \in BOOLEAN
    /\ readers \in 0 .. MaxReaders
    /\ writeEntered <=> \E c \in Coros : Claims(c)
    /\ \A c, d \in Coros : Claims(c) /\ Claims(d) => c = d
    /\ \A c \in Coros : mode[c] = "exclusive" => readers = 0
    /\ readers = Cardinality(Holding("shared"))

\* Somebody at gate2_ waits for a reader.
Gate2Inv == awaiters["gate2"] # <<>> => readers # 0

\* The inductive invariant: exclusion alone is not inductive, for what unlock leaves
\* behind depends on who was inside and on the list it empties.
SharedInv == SpinInv /\ ListInv /\ ModeInv /\ StateInv /\ Gate2Inv

\* Where fewer coroutines than max_readers exist: only a writer keeps anybody at gate1_.
Gate1Inv == awaiters["gate1"] # <<>> => writeEntered

----
\* The list of waiters after await_suspend has pushed one.
LEMMA PushAwaiter ==
    ASSUME NEW s \in Seq(Coros), NEW c \in Coros, Distinct(s), c \notin ToSet(s)
    PROVE  /\ <<c>> \o s \in Seq(Coros)
           /\ ToSet(<<c>> \o s) = {c} \cup ToSet(s)
           /\ Distinct(<<c>> \o s)
<1> DEFINE t == <<c>> \o s
<1>1. /\ t \in Seq(Coros) /\ Len(t) = Len(s) + 1 /\ t[1] = c
      /\ \A i \in 1 .. Len(s) : t[i + 1] = s[i]
  OBVIOUS
<1>2. \A i \in 1 .. Len(t) : i = 1 \/ (i - 1 \in 1 .. Len(s) /\ t[i] = s[i - 1])
  <2> TAKE i \in 1 .. Len(t)
  <2>1. i = 1 \/ (i - 1 \in 1 .. Len(s) /\ t[(i - 1) + 1] = s[i - 1] /\ (i - 1) + 1 = i)
    BY <1>1
  <2> QED
    BY <2>1
<1> HIDE DEF t
<1>3. ASSUME NEW x \in ToSet(t) PROVE x \in {c} \cup ToSet(s)
  BY <1>1, <1>2, <1>3 DEF ToSet
<1>4. ASSUME NEW x \in {c} \cup ToSet(s) PROVE x \in ToSet(t)
  <2>1. CASE x = c
    <3>1. 1 \in 1 .. Len(t)
      BY <1>1
    <3> QED
      BY <1>1, <2>1, <3>1 DEF ToSet
  <2>2. CASE x \in ToSet(s)
    <3>1. PICK i \in 1 .. Len(s) : x = s[i]
      BY <2>2 DEF ToSet
    <3>2. i + 1 \in 1 .. Len(t) /\ t[i + 1] = x
      BY <1>1, <3>1
    <3> QED
      BY <1>1, <3>2 DEF ToSet
  <2> QED
    BY <1>4, <2>1, <2>2
<1>5. Distinct(t)
  <2> SUFFICES ASSUME NEW i \in 1 .. Len(t), NEW j \in 1 .. Len(t), t[i] = t[j]
               PROVE  i = j
    BY DEF Distinct
  <2>1. \A k \in 1 .. Len(s) : s[k] # c
    BY DEF ToSet
  <2>2. i = 1 => j = 1
    BY <1>1, <1>2, <2>1
  <2>3. j = 1 => i = 1
    BY <1>1, <1>2, <2>1
  <2>4. i # 1 /\ j # 1 => i - 1 = j - 1
    BY <1>2 DEF Distinct
  <2> QED
    BY <2>2, <2>3, <2>4
<1> QED
  BY <1>1, <1>3, <1>4, <1>5 DEF t

\* resumeWaiters on the n newest waiters leaves the others on the list.
LEMMA DropAwaiters ==
    ASSUME NEW s \in Seq(Coros), NEW n \in 0 .. Len(s), Distinct(s)
    PROVE  /\ SubSeq(s, n + 1, Len(s)) \in Seq(Coros)
           /\ Distinct(SubSeq(s, n + 1, Len(s)))
           /\ ToSet(SubSeq(s, 1, n)) \subseteq ToSet(s)
           /\ ToSet(SubSeq(s, n + 1, Len(s))) = ToSet(s) \ ToSet(SubSeq(s, 1, n))
           /\ Len(SubSeq(s, n + 1, Len(s))) = Len(s) - n
<1> DEFINE rest == SubSeq(s, n + 1, Len(s))
           woken == SubSeq(s, 1, n)
<1>0. n \in Int /\ Len(s) \in Nat /\ n + 1 \in Int /\ \A i \in 1 .. Len(s) : s[i] \in Coros
  OBVIOUS
<1>1. /\ rest \in Seq(Coros) /\ Len(rest) = Len(s) - n
      /\ \A i \in 1 .. Len(s) - n : rest[i] = s[n + i]
  <2>1. \A i \in n + 1 .. Len(s) : s[i] \in Coros
    BY <1>0
  <2>2. /\ rest \in Seq(Coros)
        /\ Len(rest) = IF n + 1 <= Len(s) THEN Len(s) - (n + 1) + 1 ELSE 0
        /\ \A i \in 1 .. Len(s) - (n + 1) + 1 : rest[i] = s[(n + 1) + i - 1]
    BY <1>0, <2>1, SubSeqProperties
  <2> HIDE DEF rest
  <2>3. \A i \in 1 .. Len(s) - n : i \in 1 .. Len(s) - (n + 1) + 1 /\ (n + 1) + i - 1 = n + i
    BY <1>0
  <2> QED
    BY <1>0, <2>2, <2>3
<1>2. /\ Len(woken) = n
      /\ \A i \in 1 .. n : woken[i] = s[i]
  <2>1. \A i \in 1 .. n : s[i] \in Coros
    BY <1>0
  <2>2. /\ Len(woken) = IF 1 <= n THEN n - 1 + 1 ELSE 0
        /\ \A i \in 1 .. n - 1 + 1 : woken[i] = s[1 + i - 1]
    BY <1>0, <2>1, SubSeqProperties
  <2> HIDE DEF woken
  <2>3. \A i \in 1 .. n : i \in 1 .. n - 1 + 1 /\ 1 + i - 1 = i
    BY <1>0
  <2> QED
    BY <1>0, <2>2, <2>3
<1>3. woken \in Seq(Coros)
  BY <1>0, SubSeqProperties
<1> HIDE DEF rest, woken
<1>4. ToSet(woken) = {s[i] : i \in 1 .. n}
  BY <1>2, <1>3 DEF ToSet
<1>5. ToSet(rest) = {s[i] : i \in n + 1 .. Len(s)}
  <2>1. \A i \in 1 .. Len(s) - n : n + i \in n + 1 .. Len(s)
    BY <1>0
  <2>2. \A i \in n + 1 .. Len(s) : i - n \in 1 .. Len(s) - n /\ rest[i - n] = s[i]
    <3> TAKE i \in n + 1 .. Len(s)
    <3>1. i - n \in 1 .. Len(s) - n /\ n + (i - n) = i
      BY <1>0
    <3> QED
      BY <1>1, <3>1
  <2>3. ToSet(rest) = {rest[i] : i \in 1 .. Len(s) - n}
    BY <1>1 DEF ToSet
  <2>4. \A x \in ToSet(rest) : x \in {s[i] : i \in n + 1 .. Len(s)}
    BY <1>1, <2>1, <2>3
  <2>5. \A i \in n + 1 .. Len(s) : s[i] \in ToSet(rest)
    BY <2>2, <2>3
  <2> QED
    BY <2>4, <2>5
<1>6. ToSet(s) = {s[i] : i \in 1 .. Len(s)}
  BY DEF ToSet
<1>7. ToSet(rest) = ToSet(s) \ ToSet(woken)
  <2>1. \A i \in 1 .. Len(s) : i \in 1 .. n \/ i \in n + 1 .. Len(s)
    BY <1>0
  <2>2. \A i \in n + 1 .. Len(s), j \in 1 .. n : i \in 1 .. Len(s) /\ j \in 1 .. Len(s) /\ i # j
    BY <1>0
  <2>3. \A i \in n + 1 .. Len(s), j \in 1 .. n : s[i] # s[j]
    BY <2>2 DEF Distinct
  <2> QED
    BY <1>4, <1>5, <1>6, <2>1, <2>2, <2>3
<1>8. ToSet(woken) \subseteq ToSet(s)
  BY <1>0, <1>4, <1>6
<1>9. Distinct(rest)
  <2> SUFFICES ASSUME NEW i \in 1 .. Len(rest), NEW j \in 1 .. Len(rest), rest[i] = rest[j]
               PROVE  i = j
    BY DEF Distinct
  <2>1. /\ n + i \in 1 .. Len(s) /\ n + j \in 1 .. Len(s)
        /\ rest[i] = s[n + i] /\ rest[j] = s[n + j]
    BY <1>0, <1>1
  <2>2. n + i = n + j
    BY <2>1 DEF Distinct
  <2> QED
    BY <1>0, <1>1, <2>2
<1> QED
  BY <1>1, <1>7, <1>8, <1>9 DEF rest, woken

----
\* The condition variables gate1_ and gate2_.
Gates == {"gate1", "gate2"}

\* A step outside the SpinLock.
LEMMA SpinGoto ==
    ASSUME SpinInv, ListInv, NEW c \in Coros, NEW label \in Outside, pc[c] \in Outside,
           Goto(c, label), UNCHANGED <<locked, awaiters, at>>
    PROVE  SpinInv' /\ ListInv'
<1> USE DEF Outside, Critical, Waits
<1>1. SpinInv'
  BY DEF SpinInv, Goto
<1>2. ListInv'
  BY DEF SpinInv, ListInv, Goto
<1> QED
  BY <1>1, <1>2

\* coLock.
LEMMA SpinCoLock ==
    ASSUME SpinInv, ListInv, NEW c \in Coros, NEW label \in Critical, pc[c] \in Outside,
           CoLock(c, label)
    PROVE  SpinInv' /\ ListInv'
<1> USE DEF Outside, Critical, Waits, CoLock, Goto
<1>1. SpinInv'
  BY DEF SpinInv
<1>2. ListInv'
  BY DEF SpinInv, ListInv
<1> QED
  BY <1>1, <1>2

\* unlock.
LEMMA SpinUnlock ==
    ASSUME SpinInv, ListInv, NEW c \in Coros, pc[c] \in Critical, Unlock(c, "idle")
    PROVE  SpinInv' /\ ListInv'
<1> USE DEF Outside, Critical, Waits, Unlock, Goto
<1>1. SpinInv'
  BY DEF SpinInv
<1>2. ListInv'
  BY DEF SpinInv, ListInv
<1> QED
  BY <1>1, <1>2

\* wait() once resumed has the lock.
LEMMA SpinRelock ==
    ASSUME SpinInv, ListInv, NEW c \in Coros, Relock(c)
    PROVE  SpinInv' /\ ListInv'
<1> USE DEF Outside, Critical, Waits, Relock, Goto
<1>0. PICK label \in {"gate1Writer", "gate2Writer", "gate1Reader"} : at[c] = label
  BY DEF SpinInv
<1>1. SpinInv'
  BY <1>0 DEF SpinInv
<1>2. ListInv'
  BY <1>0 DEF SpinInv, ListInv
<1> QED
  BY <1>1, <1>2

\* wait() when its predicate is false.
LEMMA SpinSuspend ==
    ASSUME Conditions = Gates, SpinInv, ListInv, NEW c \in Coros, pc[c] \in Critical,
           NEW v \in Conditions, NEW label \in Predicates(v), Suspend(c, v, label)
    PROVE  /\ SpinInv' /\ ListInv'
           /\ ToSet(awaiters'[v]) = {c} \cup ToSet(awaiters[v])
           /\ \A w \in Conditions : w # v => awaiters'[w] = awaiters[w]
<1> USE DEF Critical
<1>0. label \in {"gate1Writer", "gate2Writer", "gate1Reader"}
  BY DEF Predicates
<1>1. c \notin ToSet(awaiters[v]) /\ awaiters[v] \in Seq(Coros) /\ Distinct(awaiters[v])
  BY DEF SpinInv, ListInv
<1>2. /\ awaiters' = [awaiters EXCEPT ![v] = <<c>> \o awaiters[v]]
      /\ <<c>> \o awaiters[v] \in Seq(Coros)
      /\ ToSet(<<c>> \o awaiters[v]) = {c} \cup ToSet(awaiters[v])
      /\ Distinct(<<c>> \o awaiters[v])
  BY <1>1, PushAwaiter DEF Suspend
<1>3. /\ awaiters' \in [Conditions -> Seq(Coros)]
      /\ ToSet(awaiters'[v]) = {c} \cup ToSet(awaiters[v])
      /\ Distinct(awaiters'[v])
      /\ \A w \in Conditions : w # v => awaiters'[w] = awaiters[w]
  BY <1>2 DEF SpinInv
<1>4. /\ pc' = [pc EXCEPT ![c] = "suspended"] /\ at' = [at EXCEPT ![c] = label]
      /\ locked' = FALSE
  BY DEF Suspend, Goto
<1>5. SpinInv'
  BY <1>0, <1>3, <1>4 DEF SpinInv
<1>6. ListInv'
  <2>1. ASSUME NEW w \in Conditions, NEW d \in ToSet(awaiters'[w])
        PROVE  pc'[d] = "suspended" /\ at'[d] \in Predicates(w)
    <3>0. ToSet(awaiters[w]) \subseteq Coros
      BY DEF SpinInv, ToSet
    <3>1. CASE w = v /\ d = c
      BY <1>4, <3>1 DEF SpinInv
    <3>2. CASE d \in ToSet(awaiters[w])
      <4>1. pc[d] = "suspended" /\ at[d] \in Predicates(w) /\ d # c /\ d \in Coros
        BY <3>0, <3>2 DEF ListInv
      <4> QED
        BY <1>4, <4>1 DEF SpinInv
    <3> QED
      BY <1>3, <2>1, <3>1, <3>2
  <2>2. ASSUME NEW w \in Conditions PROVE Distinct(awaiters'[w])
    BY <1>3 DEF ListInv
  <2>3. ASSUME NEW d \in Coros, pc'[d] = "suspended"
        PROVE  \E w \in Conditions : d \in ToSet(awaiters'[w])
    BY <1>3, <1>4, <2>3 DEF SpinInv, ListInv
  <2> QED
    BY <2>1, <2>2, <2>3 DEF ListInv
<1> QED
  BY <1>3, <1>5, <1>6

\* notifyOne, notifyAll and the unlock after it: the resumed ones lock again.
LEMMA SpinResume ==
    ASSUME Conditions = Gates, SpinInv, ListInv, NEW c \in Coros, pc[c] \in Critical,
           NEW v \in Conditions, NEW n \in 0 .. Len(awaiters[v]),
           ResumeAndUnlock(c, v, n, "idle")
    PROVE  /\ SpinInv' /\ ListInv'
           /\ pc'[c] = "idle"
           /\ \A d \in Coros : d # c =>
                pc'[d] = pc[d] \/ (pc[d] = "suspended" /\ pc'[d] = "relock")
           /\ Len(awaiters'[v]) = Len(awaiters[v]) - n
           /\ \A w \in Conditions : w # v => awaiters'[w] = awaiters[w]
           /\ at' = at
<1> USE DEF Critical
<1> DEFINE woken == ToSet(SubSeq(awaiters[v], 1, n))
           rest == SubSeq(awaiters[v], n + 1, Len(awaiters[v]))
<1>1. awaiters[v] \in Seq(Coros) /\ Distinct(awaiters[v])
  BY DEF SpinInv, ListInv
<1>2. /\ rest \in Seq(Coros) /\ Distinct(rest) /\ woken \subseteq ToSet(awaiters[v])
      /\ ToSet(rest) = ToSet(awaiters[v]) \ woken
      /\ Len(rest) = Len(awaiters[v]) - n
  BY <1>1, DropAwaiters
<1>3. /\ awaiters' = [awaiters EXCEPT ![v] = rest]
      /\ pc' = [d \in Coros |-> IF d = c THEN "idle"
                                 ELSE IF d \in woken THEN "relock" ELSE pc[d]]
      /\ locked' = FALSE /\ at' = at
  BY DEF ResumeAndUnlock
<1> HIDE DEF woken, rest
<1>4. /\ awaiters' \in [Conditions -> Seq(Coros)] /\ awaiters'[v] = rest
      /\ \A w \in Conditions : w # v => awaiters'[w] = awaiters[w]
  BY <1>2, <1>3 DEF SpinInv
<1>5. \A d \in woken : d \in Coros /\ pc[d] = "suspended" /\ at[d] \in Predicates(v)
  <2>1. ToSet(awaiters[v]) \subseteq Coros
    BY <1>1 DEF ToSet
  <2> QED
    BY <1>2, <2>1 DEF ListInv
<1>6. /\ pc'[c] = "idle"
      /\ \A d \in Coros : d # c =>
           \/ d \notin woken /\ pc'[d] = pc[d]
           \/ d \in woken /\ pc[d] = "suspended" /\ pc'[d] = "relock"
  BY <1>3, <1>5
<1>7. SpinInv'
  <2>1. pc' \in [Coros -> {"suspended", "relock"} \cup Outside \cup Critical]
    BY <1>3 DEF SpinInv, Outside
  <2>2. \A d \in Coros : pc'[d] \notin Critical
    BY <1>6 DEF SpinInv
  <2>3. \A d \in Coros : at'[d] # "none" <=> pc'[d] \in {"suspended", "relock"}
    BY <1>3, <1>6 DEF SpinInv
  <2> QED
    BY <1>3, <1>4, <2>1, <2>2, <2>3 DEF SpinInv
<1>8. ListInv'
  <2>1. ASSUME NEW w \in Conditions PROVE Distinct(awaiters'[w])
    BY <1>2, <1>4 DEF ListInv
  <2>2. ASSUME NEW w \in Conditions, NEW d \in ToSet(awaiters'[w])
        PROVE  pc'[d] = "suspended" /\ at'[d] \in Predicates(w)
    <3>1. ToSet(awaiters[w]) \subseteq Coros
      BY DEF SpinInv, ToSet
    <3>2. d \in ToSet(awaiters[w]) /\ d \notin woken
      <4>1. CASE w = v
        BY <1>2, <1>4, <2>2, <4>1
      <4>2. CASE w # v
        <5>1. d \in ToSet(awaiters[w]) /\ at[d] \in Predicates(w)
          BY <1>4, <2>2, <4>2 DEF ListInv
        <5>2. Predicates(w) \cap Predicates(v) = {}
          BY <4>2 DEF Predicates, Gates
        <5> QED
          BY <1>5, <5>1, <5>2
      <4> QED
        BY <4>1, <4>2
    <3>3. pc[d] = "suspended" /\ at[d] \in Predicates(w) /\ d \in Coros /\ d # c
      BY <3>1, <3>2 DEF ListInv
    <3> QED
      BY <1>3, <1>6, <3>2, <3>3
  <2>3. ASSUME NEW d \in Coros, pc'[d] = "suspended"
        PROVE  \E w \in Conditions : d \in ToSet(awaiters'[w])
    <3>1. pc[d] = "suspended" /\ d \notin woken
      BY <1>6, <2>3
    <3>2. PICK w \in Conditions : d \in ToSet(awaiters[w])
      BY <3>1 DEF ListInv
    <3> QED
      BY <1>2, <1>4, <3>1, <3>2
  <2> QED
    BY <2>1, <2>2, <2>3 DEF ListInv
<1> QED
  BY <1>2, <1>3, <1>4, <1>6, <1>7, <1>8

----
\* The invariant holds at the beginning.
LEMMA InitSharedInv ==
    ASSUME Conditions = Gates, Init PROVE SharedInv /\ Gate1Inv
<1> USE DEF Init, SyncInit, Gates
<1>0. ToSet(<<>>) = {} /\ <<>> \in Seq(Coros) /\ Len(<<>>) = 0
  BY DEF ToSet
<1>1. SpinInv
  BY <1>0 DEF SpinInv, Outside, Critical, Waits
<1>2. ListInv
  BY <1>0 DEF ListInv, Distinct
<1>3. ModeInv
  BY SharedMutexAssumption DEF ModeInv
<1>4. StateInv
  <2>1. Holding("shared") = {}
    BY DEF Holding
  <2>2. Cardinality(Holding("shared")) = 0
    BY <2>1, FS_EmptySet
  <2>3. \A c \in Coros : ~Claims(c)
    BY DEF Claims
  <2>4. writeEntered = FALSE /\ readers = 0 /\ \A c \in Coros : mode[c] # "exclusive"
    OBVIOUS
  <2>5. readers \in 0 .. MaxReaders
    BY <2>4, SharedMutexAssumption
  <2> HIDE DEF Claims
  <2> QED
    BY <2>2, <2>3, <2>4, <2>5 DEF StateInv
<1>5. Gate2Inv /\ Gate1Inv
  BY DEF Gate2Inv, Gate1Inv
<1> QED
  BY <1>1, <1>2, <1>3, <1>4, <1>5 DEF SharedInv

\* A step that leaves state_, the modes and the queued writer alone.
LEMMA StateKept ==
    ASSUME StateInv, UNCHANGED <<rw, mode>>, \A d \in Coros : Claims(d)' <=> Claims(d)
    PROVE  StateInv'
<1>1. writeEntered' = writeEntered /\ readers' = readers /\ mode' = mode
  BY DEF rw
<1>2. Holding("shared")' = Holding("shared")
  BY <1>1 DEF Holding
<1>3. (\E d \in Coros : Claims(d))' <=> \E d \in Coros : Claims(d)
  OBVIOUS
<1>4. \A d, e \in Coros : Claims(d)' /\ Claims(e)' => d = e
  BY DEF StateInv
<1> HIDE DEF Claims
<1> QED
  BY <1>1, <1>2, <1>3, <1>4 DEF StateInv

\* A reader more, a reader less.
LEMMA ReadersCounted ==
    ASSUME IsFiniteSet(Coros), NEW c \in Coros, NEW m, ModeInv, Take(c, m)
    PROVE  /\ Cardinality(Holding("shared")) \in Nat
           /\ Cardinality(Holding("shared")') \in Nat
           /\ m = "shared" /\ mode[c] # "shared" =>
                Cardinality(Holding("shared")') = Cardinality(Holding("shared")) + 1
           /\ m # "shared" /\ mode[c] = "shared" =>
                Cardinality(Holding("shared")') = Cardinality(Holding("shared")) - 1
           /\ m # "shared" /\ mode[c] # "shared" => Holding("shared")' = Holding("shared")
<1>1. IsFiniteSet(Holding("shared"))
  BY FS_Subset DEF Holding
<1>2. Cardinality(Holding("shared")) \in Nat
  BY <1>1, FS_CardinalityType
<1>3. m = "shared" => Holding("shared")' = Holding("shared") \cup {c}
  BY DEF Holding, Take, ModeInv
<1>4. m # "shared" => Holding("shared")' = Holding("shared") \ {c}
  BY DEF Holding, Take, ModeInv
<1>5. c \in Holding("shared") <=> mode[c] = "shared"
  BY DEF Holding
<1>6. /\ Cardinality(Holding("shared") \cup {c}) = IF c \in Holding("shared")
           THEN Cardinality(Holding("shared")) ELSE Cardinality(Holding("shared")) + 1
      /\ Cardinality(Holding("shared") \ {c}) = IF c \in Holding("shared")
           THEN Cardinality(Holding("shared")) - 1 ELSE Cardinality(Holding("shared"))
  BY <1>1, FS_AddElement, FS_RemoveElement
<1>7. Cardinality(Holding("shared")') \in Nat
  BY <1>1, <1>3, <1>4, FS_AddElement, FS_RemoveElement, FS_CardinalityType
<1> QED
  BY <1>2, <1>3, <1>4, <1>5, <1>6, <1>7

\* Calls, and the ways into the SpinLock: nothing of state_ changes.
LEMMA StepsOutside ==
    ASSUME Conditions = Gates, SharedInv, NEW c \in Coros,
           \/ \E l \in {"lockExclusive", "lockShared", "tryExclusive", "tryShared"} : Call(c, l)
           \/ CallUnlock(c) \/ ScopedLock(c) \/ TryScopedLock(c) \/ RelockGate(c)
    PROVE  SharedInv'
<1> USE DEF SharedInv, Outside, Waits
<1>1. ASSUME NEW l \in {"lockExclusive", "lockShared", "tryExclusive", "tryShared"}, Call(c, l)
      PROVE  SharedInv'
  <2>1. SpinInv' /\ ListInv'
    BY <1>1, SpinGoto DEF Call
  <2>2. ModeInv'
    BY <1>1, SharedMutexAssumption DEF Call, Goto, ModeInv, SpinInv
  <2>3. StateInv'
    BY <1>1, StateKept DEF Call, Goto, Claims, SpinInv
  <2>4. Gate2Inv'
    BY <1>1 DEF Call, Gate2Inv, rw
  <2> QED
    BY <2>1, <2>2, <2>3, <2>4
<1>2. ASSUME CallUnlock(c) PROVE SharedInv'
  <2>0. PICK l \in {"lockUnlockShared", "lockUnlock"} :
          Goto(c, l) /\ l = (IF mode[c] = "shared" THEN "lockUnlockShared" ELSE "lockUnlock")
    BY <1>2 DEF CallUnlock
  <2>1. SpinInv' /\ ListInv'
    BY <1>2, <2>0, SpinGoto DEF CallUnlock
  <2>2. ModeInv'
    BY <1>2, <2>0 DEF CallUnlock, Goto, ModeInv, SpinInv
  <2>3. StateInv'
    BY <1>2, <2>0, StateKept DEF CallUnlock, Goto, Claims, SpinInv
  <2>4. Gate2Inv'
    BY <1>2 DEF CallUnlock, Gate2Inv, rw
  <2> QED
    BY <2>1, <2>2, <2>3, <2>4
<1>3. ASSUME ScopedLock(c) PROVE SharedInv'
  <2>0. PICK l \in {"gate1Writer", "gate1Reader", "unlock", "unlockShared"} :
          /\ CoLock(c, l) /\ pc[c] \in Outside
          /\ l = "unlock" => pc[c] = "lockUnlock"
          /\ l = "unlockShared" => pc[c] = "lockUnlockShared"
          /\ l \in {"gate1Writer", "gate1Reader"} => pc[c] \in {"lockExclusive", "lockShared"}
    BY <1>3 DEF ScopedLock
  <2>1. SpinInv' /\ ListInv'
    BY <2>0, SpinCoLock DEF Critical
  <2>2. ModeInv'
    BY <1>3, <2>0 DEF ScopedLock, CoLock, Goto, ModeInv, SpinInv
  <2>3. StateInv'
    BY <1>3, <2>0, StateKept DEF ScopedLock, CoLock, Goto, Claims, SpinInv
  <2>4. Gate2Inv'
    BY <1>3, <2>0 DEF ScopedLock, CoLock, Gate2Inv, rw
  <2> QED
    BY <2>1, <2>2, <2>3, <2>4
<1>4. ASSUME TryScopedLock(c) PROVE SharedInv'
  <2>0. PICK l \in {"idle", "allowRead", "allowWrite"} :
          /\ \/ l = "idle" /\ Goto(c, "idle") /\ UNCHANGED <<locked, awaiters, at>>
             \/ l # "idle" /\ CoLock(c, l)
          /\ pc[c] \in {"tryExclusive", "tryShared"}
    BY <1>4 DEF TryScopedLock
  <2>1. SpinInv' /\ ListInv'
    BY <2>0, SpinCoLock, SpinGoto DEF Critical
  <2>2. ModeInv'
    BY <1>4, <2>0 DEF TryScopedLock, CoLock, Goto, ModeInv, SpinInv
  <2>3. StateInv'
    BY <1>4, <2>0, StateKept DEF TryScopedLock, CoLock, Goto, Claims, SpinInv
  <2>4. Gate2Inv'
    BY <1>4, <2>0 DEF TryScopedLock, CoLock, Gate2Inv, rw
  <2> QED
    BY <2>1, <2>2, <2>3, <2>4
<1>5. ASSUME RelockGate(c) PROVE SharedInv'
  <2>0. PICK l \in {"gate1Writer", "gate2Writer", "gate1Reader"} : at[c] = l
    BY <1>5 DEF RelockGate, Relock, SpinInv
  <2>1. SpinInv' /\ ListInv'
    BY <1>5, SpinRelock DEF RelockGate
  <2>2. ModeInv'
    BY <1>5, <2>0 DEF RelockGate, Relock, Goto, ModeInv, SpinInv
  <2>3. StateInv'
    BY <1>5, <2>0, StateKept DEF RelockGate, Relock, Goto, Claims, SpinInv
  <2>4. Gate2Inv'
    BY <1>5 DEF RelockGate, Relock, Gate2Inv, rw
  <2> QED
    BY <2>1, <2>2, <2>3, <2>4
<1> QED
  BY <1>1, <1>2, <1>3, <1>4, <1>5

\* coLock: the writer waits for the flag, sets it, and waits for the readers.
LEMMA StepsWriter ==
    ASSUME IsFiniteSet(Coros), Conditions = Gates, SharedInv, NEW c \in Coros,
           Gate1Writer(c) \/ Gate2Writer(c)
    PROVE  SharedInv'
<1> USE DEF SharedInv
<1>0. /\ pc[c] \in Critical /\ at[c] = "none" /\ mode[c] = "none" /\ round' = round
      /\ readers' = readers /\ "gate1" \in Conditions /\ "gate2" \in Conditions
  BY DEF Gate1Writer, Gate2Writer, Critical, SpinInv, ModeInv, rw, Gates
<1>1. ASSUME pc[c] = "gate1Writer", Suspend(c, "gate1", "gate1Writer"), UNCHANGED <<rw, mode>>
      PROVE  SharedInv'
  <2>1. SpinInv' /\ ListInv' /\ awaiters'["gate2"] = awaiters["gate2"]
    BY <1>0, <1>1, SpinSuspend DEF Predicates
  <2>2. ModeInv'
    BY <1>0, <1>1 DEF Suspend, Goto, ModeInv, SpinInv
  <2>3. StateInv'
    BY <1>0, <1>1, StateKept DEF Suspend, Goto, Claims, SpinInv
  <2>4. Gate2Inv'
    BY <1>0, <2>1 DEF Gate2Inv
  <2> QED
    BY <2>1, <2>2, <2>3, <2>4
<1>2. ASSUME pc[c] = "gate2Writer" \/ (pc[c] = "gate1Writer" /\ ~writeEntered),
             readers # 0, Suspend(c, "gate2", "gate2Writer"), mode' = mode,
             writeEntered' = IF pc[c] = "gate1Writer" THEN TRUE ELSE writeEntered
      PROVE  SharedInv'
  <2>1. SpinInv' /\ ListInv'
    BY <1>0, <1>2, SpinSuspend DEF Predicates
  <2>2. ModeInv'
    BY <1>0, <1>2 DEF Suspend, Goto, ModeInv, SpinInv
  <2>3. StateInv'
    <3>1. Claims(c)' /\ \A d \in Coros : d # c => (Claims(d)' <=> Claims(d))
      BY <1>2 DEF Suspend, Goto, Claims, SpinInv
    <3>2. \A d \in Coros : d # c => ~Claims(d)
      <4>1. pc[c] = "gate2Writer" => Claims(c)
        BY DEF Claims
      <4> HIDE DEF Claims
      <4> QED
        BY <1>2, <4>1 DEF StateInv
    <3>3. \A d \in Coros : Claims(d)' <=> d = c
      BY <3>1, <3>2
    <3>4. writeEntered' = TRUE
      <4>1. pc[c] = "gate2Writer" => writeEntered
        BY DEF StateInv, Claims
      <4> QED
        BY <1>2, <4>1 DEF StateInv
    <3>5. Holding("shared")' = Holding("shared")
      BY <1>2 DEF Holding
    <3>6. \A d \in Coros : mode'[d] # "exclusive"
      BY <1>2, <1>0 DEF StateInv
    <3> HIDE DEF Claims
    <3> QED
      BY <1>0, <3>3, <3>4, <3>5, <3>6 DEF StateInv
  <2>4. Gate2Inv'
    BY <1>0, <1>2 DEF Gate2Inv
  <2> QED
    BY <2>1, <2>2, <2>3, <2>4
<1>3. ASSUME pc[c] = "gate2Writer" \/ (pc[c] = "gate1Writer" /\ ~writeEntered),
             readers = 0, Unlock(c, "idle"), Take(c, "exclusive"),
             writeEntered' = IF pc[c] = "gate1Writer" THEN TRUE ELSE writeEntered
      PROVE  SharedInv'
  <2>1. SpinInv' /\ ListInv'
    BY <1>0, <1>3, SpinUnlock
  <2>2. ModeInv'
    BY <1>0, <1>3 DEF Unlock, Goto, Take, ModeInv, SpinInv
  <2>3. StateInv'
    <3>1. Claims(c)' /\ \A d \in Coros : d # c => (Claims(d)' <=> Claims(d))
      BY <1>3 DEF Unlock, Goto, Take, Claims, SpinInv, ModeInv
    <3>2. \A d \in Coros : d # c => ~Claims(d)
      <4>1. pc[c] = "gate2Writer" => Claims(c)
        BY DEF Claims
      <4> HIDE DEF Claims
      <4> QED
        BY <1>3, <4>1 DEF StateInv
    <3>3. \A d \in Coros : Claims(d)' <=> d = c
      BY <3>1, <3>2
    <3>4. writeEntered' = TRUE
      <4>1. pc[c] = "gate2Writer" => writeEntered
        BY DEF StateInv, Claims
      <4> QED
        BY <1>3, <4>1 DEF StateInv
    <3>5. Holding("shared")' = Holding("shared")
      BY <1>0, <1>3, ReadersCounted
    <3> HIDE DEF Claims
    <3> QED
      BY <1>0, <1>3, <3>3, <3>4, <3>5 DEF StateInv
  <2>4. Gate2Inv'
    BY <1>0, <1>3 DEF Gate2Inv, Unlock
  <2> QED
    BY <2>1, <2>2, <2>3, <2>4
<1>4. writeEntered \in BOOLEAN
  BY DEF StateInv
<1>5. CASE Gate1Writer(c)
  <2>1. CASE writeEntered /\ Suspend(c, "gate1", "gate1Writer") /\ UNCHANGED <<rw, mode>>
    BY <1>1, <1>5, <2>1 DEF Gate1Writer
  <2>2. CASE /\ ~writeEntered /\ writeEntered' = TRUE
             /\ readers # 0 /\ Suspend(c, "gate2", "gate2Writer") /\ UNCHANGED mode
    BY <1>2, <1>5, <2>2 DEF Gate1Writer
  <2>3. CASE /\ ~writeEntered /\ writeEntered' = TRUE
             /\ readers = 0 /\ Unlock(c, "idle") /\ Take(c, "exclusive")
    BY <1>3, <1>5, <2>3 DEF Gate1Writer
  <2> QED
    BY <1>5, <2>1, <2>2, <2>3 DEF Gate1Writer
<1>6. CASE Gate2Writer(c)
  <2>1. writeEntered' = writeEntered /\ pc[c] = "gate2Writer"
    BY <1>6 DEF Gate2Writer, rw
  <2>2. CASE readers # 0 /\ Suspend(c, "gate2", "gate2Writer") /\ UNCHANGED mode
    BY <1>2, <2>1, <2>2
  <2>3. CASE readers = 0 /\ Unlock(c, "idle") /\ Take(c, "exclusive")
    BY <1>3, <2>1, <2>3
  <2> QED
    BY <1>6, <2>2, <2>3 DEF Gate2Writer
<1> QED
  BY <1>5, <1>6

\* coLockShared and the two tries, with the SpinLock.
LEMMA StepsReaderAndTries ==
    ASSUME IsFiniteSet(Coros), Conditions = Gates, SharedInv, NEW c \in Coros,
           Gate1Reader(c) \/ AllowRead(c) \/ AllowWrite(c)
    PROVE  SharedInv'
<1> USE DEF SharedInv
<1>0. /\ pc[c] \in Critical /\ at[c] = "none" /\ mode[c] = "none" /\ round' = round
      /\ pc[c] \in {"gate1Reader", "allowRead", "allowWrite"}
      /\ "gate1" \in Conditions /\ "gate2" \in Conditions
  BY DEF Gate1Reader, AllowRead, AllowWrite, Critical, SpinInv, ModeInv, Gates
<1>s. writeEntered \in BOOLEAN /\ readers \in 0 .. MaxReaders /\ MaxReaders \in Nat
  BY SharedMutexAssumption DEF StateInv
<1>1. ASSUME pc[c] = "gate1Reader", Suspend(c, "gate1", "gate1Reader"), UNCHANGED <<rw, mode>>
      PROVE  SharedInv'
  <2>1. SpinInv' /\ ListInv' /\ awaiters'["gate2"] = awaiters["gate2"]
    BY <1>0, <1>1, SpinSuspend DEF Predicates
  <2>2. ModeInv'
    BY <1>0, <1>1 DEF Suspend, Goto, ModeInv, SpinInv
  <2>3. StateInv'
    BY <1>0, <1>1, StateKept DEF Suspend, Goto, Claims, SpinInv
  <2>4. Gate2Inv'
    BY <1>1, <2>1 DEF Gate2Inv, rw
  <2> QED
    BY <2>1, <2>2, <2>3, <2>4
<1>2. ASSUME ~Full, readers' = readers + 1, Unlock(c, "idle"), Take(c, "shared"),
             writeEntered' = writeEntered
      PROVE  SharedInv'
  <2>1. SpinInv' /\ ListInv'
    BY <1>0, <1>2, SpinUnlock
  <2>2. ModeInv'
    BY <1>0, <1>2 DEF Unlock, Goto, Take, ModeInv, SpinInv
  <2>3. StateInv'
    <3>1. \A d \in Coros : ~Claims(d)
      BY <1>2 DEF Full, StateInv
    <3>2. \A d \in Coros : ~Claims(d)'
      BY <1>0, <1>2, <3>1 DEF Unlock, Goto, Take, Claims, SpinInv, ModeInv
    <3>3. \A d \in Coros : mode'[d] # "exclusive"
      BY <3>2 DEF Claims
    <3>4. Cardinality(Holding("shared")') = readers + 1
      BY <1>0, <1>2, ReadersCounted DEF StateInv
    <3>5. readers' \in 0 .. MaxReaders /\ ~writeEntered
      BY <1>s, <1>2 DEF Full
    <3> HIDE DEF Claims
    <3> QED
      BY <1>s, <1>2, <3>2, <3>3, <3>4, <3>5 DEF StateInv
  <2>4. Gate2Inv'
    BY <1>s, <1>2 DEF Gate2Inv
  <2> QED
    BY <2>1, <2>2, <2>3, <2>4
<1>3. ASSUME pc[c] # "gate2Writer", Unlock(c, "idle"), Take(c, "none"), UNCHANGED rw
      PROVE  SharedInv'
  <2>1. SpinInv' /\ ListInv'
    BY <1>0, <1>3, SpinUnlock
  <2>2. ModeInv' /\ mode' = mode
    BY <1>0, <1>3 DEF Unlock, Goto, Take, ModeInv, SpinInv
  <2>3. StateInv'
    BY <1>0, <1>3, <2>2, StateKept DEF Unlock, Goto, Claims, SpinInv
  <2>4. Gate2Inv'
    BY <1>3 DEF Gate2Inv, Unlock, rw
  <2> QED
    BY <2>1, <2>2, <2>3, <2>4
<1>4. ASSUME ~writeEntered, readers = 0, writeEntered' = TRUE, readers' = readers,
             Unlock(c, "idle"), Take(c, "exclusive")
      PROVE  SharedInv'
  <2>1. SpinInv' /\ ListInv'
    BY <1>0, <1>4, SpinUnlock
  <2>2. ModeInv'
    BY <1>0, <1>4 DEF Unlock, Goto, Take, ModeInv, SpinInv
  <2>3. StateInv'
    <3>1. \A d \in Coros : ~Claims(d)
      BY <1>4 DEF StateInv
    <3>2. \A d \in Coros : Claims(d)' <=> d = c
      BY <1>0, <1>4, <3>1 DEF Unlock, Goto, Take, Claims, SpinInv, ModeInv
    <3>3. Holding("shared")' = Holding("shared")
      BY <1>0, <1>4, ReadersCounted
    <3> HIDE DEF Claims
    <3> QED
      BY <1>4, <3>2, <3>3 DEF StateInv
  <2>4. Gate2Inv'
    BY <1>4 DEF Gate2Inv, Unlock
  <2> QED
    BY <2>1, <2>2, <2>3, <2>4
<1>5. CASE Gate1Reader(c)
  BY <1>1, <1>2, <1>5 DEF Gate1Reader
<1>6. CASE AllowRead(c)
  <2>1. CASE Full
    BY <1>3, <1>6, <2>1 DEF AllowRead, rw
  <2>2. CASE ~Full
    BY <1>2, <1>6, <2>2 DEF AllowRead
  <2> QED
    BY <2>1, <2>2
<1>7. CASE AllowWrite(c)
  <2>1. CASE ~writeEntered /\ readers = 0
    <3>1. writeEntered' = TRUE /\ Take(c, "exclusive")
      BY <1>7, <2>1 DEF AllowWrite
    <3> QED
      BY <1>4, <1>7, <2>1, <3>1 DEF AllowWrite
  <2>2. CASE ~(~writeEntered /\ readers = 0)
    <3>1. writeEntered' = writeEntered /\ Take(c, "none")
      BY <1>s, <1>7, <2>2 DEF AllowWrite
    <3> QED
      BY <1>3, <1>7, <3>1 DEF AllowWrite, rw
  <2> QED
    BY <2>1, <2>2
<1> QED
  BY <1>5, <1>6, <1>7

\* At gate2_ there is at most the one queued writer.
LEMMA Gate2One ==
    ASSUME Conditions = Gates, SharedInv
    PROVE  /\ awaiters["gate2"] \in Seq(Coros) /\ Len(awaiters["gate2"]) \in {0, 1}
           /\ awaiters["gate2"] # <<>> => writeEntered /\ Len(awaiters["gate2"]) = 1
<1> DEFINE s == awaiters["gate2"]
<1>1. /\ "gate2" \in Conditions /\ s \in Seq(Coros) /\ Distinct(s) /\ Len(s) \in Nat
      /\ s # <<>> <=> Len(s) # 0
  BY DEF SharedInv, SpinInv, ListInv, Gates
<1>2. \A i \in 1 .. Len(s) : s[i] \in Coros /\ Claims(s[i])
  <2> TAKE i \in 1 .. Len(s)
  <2>1. s[i] \in ToSet(s) /\ s[i] \in Coros
    BY <1>1 DEF ToSet
  <2>2. at[s[i]] = "gate2Writer"
    BY <1>1, <2>1 DEF SharedInv, ListInv, Predicates
  <2> QED
    BY <2>1, <2>2 DEF Claims
<1> HIDE DEF s
<1>3. Len(s) > 1 => 1 \in 1 .. Len(s) /\ 2 \in 1 .. Len(s)
  BY <1>1
<1>4. ~(Len(s) > 1)
  <2> SUFFICES ASSUME Len(s) > 1 PROVE FALSE
    OBVIOUS
  <2>1. s[1] = s[2]
    BY <1>2, <1>3 DEF SharedInv, StateInv
  <2> QED
    BY <1>1, <1>3, <2>1 DEF Distinct
<1>5. Len(s) # 0 => writeEntered
  <2>1. Len(s) # 0 => 1 \in 1 .. Len(s)
    BY <1>1
  <2> QED
    BY <1>2, <2>1 DEF SharedInv, StateInv
<1>a. Len(s) \in Nat
  BY <1>1
<1>b. Len(s) \in {0, 1}
  BY <1>a, <1>4
<1>6. Len(s) \in {0, 1} /\ (s # <<>> => Len(s) = 1)
  BY <1>1, <1>b
<1>7. s # <<>> => writeEntered
  BY <1>1, <1>5
<1> QED
  BY <1>1, <1>6, <1>7 DEF s

\* unlock and unlockShared, with the notification each makes.
LEMMA StepsUnlock ==
    ASSUME IsFiniteSet(Coros), Conditions = Gates, SharedInv, NEW c \in Coros,
           UnlockExclusive(c) \/ UnlockShared(c)
    PROVE  SharedInv'
<1> USE DEF SharedInv
<1>0. /\ pc[c] \in Critical /\ at[c] = "none" /\ round' = round /\ Take(c, "none")
      /\ "gate1" \in Conditions /\ "gate2" \in Conditions
  BY DEF UnlockExclusive, UnlockShared, Critical, SpinInv, Gates
<1>s. writeEntered \in BOOLEAN /\ readers \in 0 .. MaxReaders /\ MaxReaders \in Nat
  BY SharedMutexAssumption DEF StateInv
<1>l. \A v \in Conditions : awaiters[v] \in Seq(Coros)
  BY DEF SpinInv
<1>r. ASSUME NEW v \in Conditions, NEW n \in 0 .. Len(awaiters[v]),
             ResumeAndUnlock(c, v, n, "idle")
      PROVE  /\ SpinInv' /\ ListInv' /\ pc'[c] = "idle" /\ at' = at
             /\ \A d \in Coros : d # c =>
                  pc'[d] = pc[d] \/ (pc[d] = "suspended" /\ pc'[d] = "relock")
             /\ Len(awaiters'[v]) = Len(awaiters[v]) - n
             /\ \A w \in Conditions : w # v => awaiters'[w] = awaiters[w]
  BY <1>0, <1>r, SpinResume
<1>n. ASSUME NEW v \in Conditions, NotifyOne(c, v, "idle")
      PROVE  /\ SpinInv' /\ ListInv' /\ pc'[c] = "idle" /\ at' = at
             /\ \A d \in Coros : d # c =>
                  pc'[d] = pc[d] \/ (pc[d] = "suspended" /\ pc'[d] = "relock")
             /\ Len(awaiters'[v]) = IF awaiters[v] = <<>> THEN 0 ELSE Len(awaiters[v]) - 1
             /\ \A w \in Conditions : w # v => awaiters'[w] = awaiters[w]
  <2>1. PICK n \in 0 .. Len(awaiters[v]) :
          n = (IF awaiters[v] = <<>> THEN 0 ELSE 1) /\ ResumeAndUnlock(c, v, n, "idle")
    BY <1>l, <1>n DEF NotifyOne
  <2> QED
    BY <1>r, <1>l, <2>1
<1>m. ASSUME pc'[c] = "idle", SpinInv',
             \A d \in Coros : d # c =>
               pc'[d] = pc[d] \/ (pc[d] = "suspended" /\ pc'[d] = "relock")
      PROVE  ModeInv'
  <2>1. \A d \in Coros : mode'[d] = IF d = c THEN "none" ELSE mode[d]
    BY <1>0 DEF Take, ModeInv
  <2>2. mode' \in [Coros -> {"none", "shared", "exclusive"}]
    BY <1>0 DEF Take, ModeInv
  <2> QED
    BY <1>0, <1>m, <2>1, <2>2 DEF ModeInv
<1>1. CASE UnlockExclusive(c)
  <2>0. /\ pc[c] = "unlock" /\ writeEntered' = FALSE /\ readers' = 0
        /\ mode[c] = "exclusive" /\ readers = 0 /\ Claims(c)
    BY <1>1 DEF UnlockExclusive, ModeInv, StateInv, Claims
  <2>1. PICK n \in 0 .. Len(awaiters["gate1"]) :
          n = Len(awaiters["gate1"]) /\ ResumeAndUnlock(c, "gate1", n, "idle")
    BY <1>0, <1>l, <1>1 DEF UnlockExclusive, NotifyAll
  <2>2. /\ SpinInv' /\ ListInv' /\ pc'[c] = "idle" /\ at' = at
        /\ \A d \in Coros : d # c =>
             pc'[d] = pc[d] \/ (pc[d] = "suspended" /\ pc'[d] = "relock")
        /\ awaiters'["gate2"] = awaiters["gate2"]
    BY <1>0, <1>r, <2>1
  <2>3. ModeInv'
    BY <1>m, <2>2
  <2>4. StateInv'
    <3>1. \A d \in Coros : mode'[d] = IF d = c THEN "none" ELSE mode[d]
      BY <1>0 DEF Take, ModeInv
    <3>2. \A d \in Coros : d # c => ~Claims(d)
      BY <2>0 DEF StateInv
    <3>3. \A d \in Coros : ~Claims(d)'
      BY <1>0, <2>2, <3>1, <3>2 DEF Claims
    <3>4. \A d \in Coros : mode'[d] # "exclusive"
      BY <3>3 DEF Claims
    <3>5. Holding("shared")' = Holding("shared")
      BY <1>0, <2>0, ReadersCounted
    <3> HIDE DEF Claims
    <3> QED
      BY <1>s, <2>0, <3>3, <3>4, <3>5 DEF StateInv
  <2>5. Gate2Inv'
    BY <2>0, <2>2 DEF Gate2Inv
  <2> QED
    BY <2>2, <2>3, <2>4, <2>5
<1>2. CASE UnlockShared(c)
  <2>0. /\ pc[c] = "unlockShared" /\ writeEntered' = writeEntered /\ readers' = readers - 1
        /\ mode[c] = "shared"
    BY <1>2 DEF UnlockShared, ModeInv
  <2>1. Cardinality(Holding("shared")') = readers' /\ readers' \in Nat
    BY <1>0, <2>0, ReadersCounted DEF StateInv
  <2>2. readers # 0 /\ readers' \in 0 .. MaxReaders
    BY <1>s, <2>0, <2>1
  <2>3. ASSUME SpinInv', pc'[c] = "idle", at' = at,
               \A d \in Coros : d # c =>
                 pc'[d] = pc[d] \/ (pc[d] = "suspended" /\ pc'[d] = "relock")
        PROVE  ModeInv' /\ StateInv'
    <3>1. ModeInv'
      BY <1>m, <2>3
    <3>2. \A d \in Coros : mode'[d] = IF d = c THEN "none" ELSE mode[d]
      BY <1>0 DEF Take, ModeInv
    <3>3. \A d \in Coros : Claims(d)' <=> Claims(d)
      BY <1>0, <2>0, <2>3, <3>2 DEF Claims
    <3>4. \A d \in Coros : mode'[d] # "exclusive"
      BY <2>2, <3>2 DEF StateInv
    <3>5. (\E d \in Coros : Claims(d))' <=> \E d \in Coros : Claims(d)
      BY <3>3
    <3>6. \A d, e \in Coros : Claims(d)' /\ Claims(e)' => d = e
      BY <3>3 DEF StateInv
    <3> HIDE DEF Claims
    <3>7. StateInv'
      BY <1>s, <2>0, <2>1, <2>2, <3>4, <3>5, <3>6 DEF StateInv
    <3> QED
      BY <3>1, <3>7
  <2>4. /\ Len(awaiters["gate2"]) \in {0, 1}
        /\ awaiters["gate2"] # <<>> => writeEntered /\ Len(awaiters["gate2"]) = 1
    BY Gate2One
  <2>5. CASE writeEntered /\ readers' = 0 /\ NotifyOne(c, "gate2", "idle")
    <3>1. /\ SpinInv' /\ ListInv' /\ pc'[c] = "idle" /\ at' = at
          /\ \A d \in Coros : d # c =>
               pc'[d] = pc[d] \/ (pc[d] = "suspended" /\ pc'[d] = "relock")
          /\ Len(awaiters'["gate2"]) = IF awaiters["gate2"] = <<>> THEN 0
                                       ELSE Len(awaiters["gate2"]) - 1
      BY <1>0, <1>n, <2>5
    <3>2. awaiters'["gate2"] = <<>>
      <4>1. Len(awaiters'["gate2"]) = 0 /\ awaiters'["gate2"] \in Seq(Coros)
        BY <1>0, <2>4, <3>1 DEF SpinInv
      <4> QED
        BY <4>1
    <3> QED
      BY <2>3, <3>1, <3>2 DEF Gate2Inv
  <2>6. CASE ~writeEntered /\ readers = MaxReaders /\ NotifyOne(c, "gate1", "idle")
    <3>1. /\ SpinInv' /\ ListInv' /\ pc'[c] = "idle" /\ at' = at
          /\ \A d \in Coros : d # c =>
               pc'[d] = pc[d] \/ (pc[d] = "suspended" /\ pc'[d] = "relock")
          /\ awaiters'["gate2"] = awaiters["gate2"]
      BY <1>0, <1>n, <2>6
    <3> QED
      BY <2>3, <2>4, <2>6, <3>1 DEF Gate2Inv
  <2>7. CASE (IF writeEntered THEN readers' # 0 ELSE readers # MaxReaders) /\ Unlock(c, "idle")
    <3>1. SpinInv' /\ ListInv'
      BY <1>0, <2>7, SpinUnlock
    <3>2. /\ pc'[c] = "idle" /\ at' = at /\ awaiters' = awaiters
          /\ \A d \in Coros : d # c => pc'[d] = pc[d]
      BY <2>7 DEF Unlock, Goto, SpinInv
    <3>3. Gate2Inv'
      BY <2>4, <2>7, <3>2 DEF Gate2Inv
    <3> QED
      BY <2>3, <3>1, <3>2, <3>3
  <2> QED
    BY <1>2, <2>5, <2>6, <2>7 DEF UnlockShared
<1> QED
  BY <1>1, <1>2

\* Every step preserves the invariant.
LEMMA StepSharedInv ==
    ASSUME IsFiniteSet(Coros), Conditions = Gates, SharedInv, [Next]_vars
    PROVE  SharedInv'
<1>1. ASSUME NEW c \in Coros, Step(c) PROVE SharedInv'
  BY <1>1, StepsOutside, StepsWriter, StepsReaderAndTries, StepsUnlock DEF Step
<1>2. ASSUME NEW c \in Coros, NEW l \in {"lockExclusive", "lockShared", "tryExclusive", "tryShared"},
             Call(c, l)
      PROVE  SharedInv'
  BY <1>2, StepsOutside
<1>3. CASE UNCHANGED vars
  <2>1. UNCHANGED <<locked, awaiters, pc, at, writeEntered, readers, mode, round>>
    BY <1>3 DEF vars, syncVars
  <2>2. SpinInv' /\ ListInv' /\ ModeInv' /\ Gate2Inv'
    BY <2>1 DEF SharedInv, SpinInv, ListInv, ModeInv, Gate2Inv
  <2>3. StateInv'
    BY <2>1, StateKept DEF SharedInv, Claims, rw
  <2> QED
    BY <2>2, <2>3 DEF SharedInv
<1> QED
  BY <1>1, <1>2, <1>3 DEF Next

----
\* What the invariant says of the lock.
LEMMA SharedInvMeans ==
    ASSUME IsFiniteSet(Coros), Conditions = Gates, SharedInv
    PROVE  TypeOK /\ Exclusion
<1>1. TypeOK
  BY DEF SharedInv, SpinInv, ModeInv, StateInv, TypeOK, Outside
<1>2. Exclusion
  <2>1. ASSUME NEW c \in Coros, mode[c] = "exclusive"
        PROVE  Holding("shared") = {} /\ Cardinality(Holding("exclusive")) = 1
    <3>1. Cardinality(Holding("shared")) = 0 /\ IsFiniteSet(Holding("shared"))
      BY <2>1, FS_Subset DEF SharedInv, StateInv, Holding
    <3>2. Holding("shared") = {}
      BY <3>1, FS_EmptySet
    <3>3. Holding("exclusive") = {c}
      BY <2>1 DEF SharedInv, StateInv, Claims, Holding
    <3> QED
      BY <3>2, <3>3, FS_Singleton
  <2>2. writeEntered <=>
          Holding("exclusive") # {} \/ \E c \in Coros : "gate2Writer" \in {pc[c], at[c]}
    <3>1. (\E c \in Coros : Claims(c)) <=>
            Holding("exclusive") # {} \/ \E c \in Coros : "gate2Writer" \in {pc[c], at[c]}
      BY DEF Claims, Holding
    <3> QED
      BY <3>1 DEF SharedInv, StateInv
  <2>3. Holding("exclusive") # {} => \E c \in Coros : mode[c] = "exclusive"
    BY DEF Holding
  <2> QED
    BY <2>1, <2>2, <2>3 DEF SharedInv, StateInv, Exclusion
<1> QED
  BY <1>1, <1>2

\* SharedMutex: the invariant holds in every reachable state.
THEOREM SharedMutexInvariant ==
    ASSUME IsFiniteSet(Coros), Conditions = Gates
    PROVE  Spec => []SharedInv
<1>1. Init => SharedInv
  BY InitSharedInv
<1>2. SharedInv /\ [Next]_vars => SharedInv'
  BY StepSharedInv
<1> QED
  BY <1>1, <1>2, PTL DEF Spec

\* SharedMutex: every variable keeps its type; the count never exceeds max_readers.
THEOREM SharedMutexTypes ==
    ASSUME IsFiniteSet(Coros), Conditions = Gates
    PROVE  Spec => []TypeOK
<1>1. SharedInv => TypeOK
  BY SharedInvMeans
<1> QED
  BY <1>1, SharedMutexInvariant, PTL

\* SharedMutex: for every finite set of coroutines a writer has the lock alone, readers()
\* counts the readers, and the flag stands for one writer, inside or queued.
THEOREM SharedMutexExcludes ==
    ASSUME IsFiniteSet(Coros), Conditions = Gates
    PROVE  Spec => []Exclusion
<1>1. SharedInv => Exclusion
  BY SharedInvMeans
<1> QED
  BY <1>1, SharedMutexInvariant, PTL

\* No step of anybody takes a reader lock while a writer has set the flag.
LEMMA NoReaderAfterFlag ==
    ASSUME IsFiniteSet(Coros), Conditions = Gates, SharedInv, [Next]_vars, writeEntered
    PROVE  readers' <= readers
<1>0. readers \in 0 .. MaxReaders /\ MaxReaders \in Nat
  BY SharedMutexAssumption DEF SharedInv, StateInv
<1>1. ASSUME NEW c \in Coros, Step(c) PROVE readers' <= readers
  <2>1. ASSUME Gate1Reader(c) \/ AllowRead(c) PROVE readers' = readers
    BY <2>1 DEF Gate1Reader, AllowRead, Full, rw
  <2>2. ASSUME UnlockExclusive(c) \/ UnlockShared(c)
        PROVE  readers' = 0 \/ readers' = readers - 1
    BY <2>2 DEF UnlockExclusive, UnlockShared
  <2>3. ASSUME \/ ScopedLock(c) \/ TryScopedLock(c) \/ RelockGate(c) \/ Gate1Writer(c)
               \/ Gate2Writer(c) \/ AllowWrite(c) \/ CallUnlock(c)
        PROVE  readers' = readers
    BY <2>3 DEF ScopedLock, TryScopedLock, RelockGate, Gate1Writer, Gate2Writer,
                AllowWrite, CallUnlock, rw
  <2>4. readers' = readers \/ readers' = 0 \/ readers' = readers - 1
    BY <1>1, <2>1, <2>2, <2>3 DEF Step
  <2> QED
    BY <1>0, <2>4
<1>2. ASSUME NEW c \in Coros, NEW l, Call(c, l) PROVE readers' <= readers
  BY <1>0, <1>2 DEF Call, rw
<1>3. CASE UNCHANGED vars
  BY <1>0, <1>3 DEF vars
<1> QED
  BY <1>1, <1>2, <1>3 DEF Next

\* SharedMutex.h: "no more reader locks can be taken while the writer is queued".
THEOREM SharedMutexFavoursWriter ==
    ASSUME IsFiniteSet(Coros), Conditions = Gates
    PROVE  Spec => WriterPriority
<1>1. Init => SharedInv
  BY InitSharedInv
<1>2. SharedInv /\ [Next]_vars => SharedInv'
  BY StepSharedInv
<1>3. SharedInv /\ [Next]_vars => [writeEntered => readers' <= readers]_vars
  BY NoReaderAfterFlag
<1> QED
  BY <1>1, <1>2, <1>3, PTL DEF Spec, WriterPriority

\* With fewer coroutines than max_readers, whoever goes to gate1_ finds the flag set, and
\* the unlock that clears it empties gate1_.
LEMMA StepGate1Inv ==
    ASSUME IsFiniteSet(Coros), Cardinality(Coros) <= MaxReaders, Conditions = Gates,
           SharedInv, Gate1Inv, [Next]_vars
    PROVE  Gate1Inv'
<1> USE DEF SharedInv
<1>0. /\ "gate1" \in Conditions /\ "gate2" \in Conditions
      /\ \A v \in Conditions : awaiters[v] \in Seq(Coros)
  BY DEF SpinInv, Gates
<1>w. writeEntered \in BOOLEAN
  BY DEF StateInv
<1>1. ASSUME NEW c \in Coros, Gate1Reader(c) PROVE Gate1Inv'
  <2>1. mode[c] = "none"
    BY <1>1 DEF Gate1Reader, ModeInv
  <2>2. readers < MaxReaders
    <3>1. IsFiniteSet(Coros \ {c}) /\ Cardinality(Coros \ {c}) = Cardinality(Coros) - 1
      BY FS_RemoveElement
    <3>2. Holding("shared") \in SUBSET (Coros \ {c})
      BY <2>1 DEF Holding
    <3>3. Cardinality(Holding("shared")) <= Cardinality(Coros) - 1
      BY <3>1, <3>2, FS_Subset
    <3>4. Cardinality(Coros) \in Nat /\ readers \in Nat /\ MaxReaders \in Nat
      BY FS_CardinalityType, SharedMutexAssumption DEF StateInv
    <3> QED
      BY <3>3, <3>4 DEF StateInv
  <2>3. CASE Full /\ Suspend(c, "gate1", "gate1Reader") /\ UNCHANGED <<rw, mode>>
    <3>1. writeEntered
      BY <2>2, <2>3, SharedMutexAssumption DEF Full, StateInv
    <3> QED
      BY <2>3, <3>1 DEF Gate1Inv, rw
  <2>4. CASE /\ ~Full /\ readers' = readers + 1
             /\ Unlock(c, "idle") /\ Take(c, "shared") /\ UNCHANGED writeEntered
    BY <2>4 DEF Gate1Inv, Unlock
  <2> QED
    BY <1>1, <2>3, <2>4 DEF Gate1Reader
<1>2. ASSUME NEW c \in Coros, Gate1Writer(c) PROVE Gate1Inv'
  <2>1. writeEntered'
    BY <1>w, <1>2 DEF Gate1Writer, rw
  <2> QED
    BY <2>1 DEF Gate1Inv
<1>3. ASSUME NEW c \in Coros, Gate2Writer(c) PROVE Gate1Inv'
  <2>1. writeEntered
    BY <1>3 DEF Gate2Writer, StateInv, Claims
  <2> QED
    BY <1>3, <2>1 DEF Gate2Writer, Gate1Inv, rw
<1>4. ASSUME NEW c \in Coros, UnlockExclusive(c) PROVE Gate1Inv'
  <2>0. pc[c] \in Critical
    BY <1>4 DEF UnlockExclusive, Critical
  <2>1. PICK n \in 0 .. Len(awaiters["gate1"]) :
          n = Len(awaiters["gate1"]) /\ ResumeAndUnlock(c, "gate1", n, "idle")
    BY <1>0, <1>4 DEF UnlockExclusive, NotifyAll
  <2>2. SpinInv' /\ Len(awaiters'["gate1"]) = Len(awaiters["gate1"]) - n
    BY <1>0, <2>0, <2>1, SpinResume
  <2>3. Len(awaiters'["gate1"]) = 0 /\ awaiters'["gate1"] \in Seq(Coros)
    BY <1>0, <2>1, <2>2 DEF SpinInv
  <2> QED
    BY <2>3 DEF Gate1Inv
<1>5. ASSUME NEW c \in Coros, UnlockShared(c) PROVE Gate1Inv'
  <2>0. pc[c] \in Critical /\ writeEntered' = writeEntered
    BY <1>5 DEF UnlockShared, Critical
  <2>1. CASE writeEntered
    BY <2>0, <2>1 DEF Gate1Inv
  <2>2. CASE ~writeEntered /\ NotifyOne(c, "gate1", "idle")
    <3>1. awaiters["gate1"] = <<>>
      BY <2>2 DEF Gate1Inv
    <3>2. Len(awaiters["gate1"]) = 0
      BY <3>1
    <3>3. PICK n \in 0 .. Len(awaiters["gate1"]) : n = 0 /\ ResumeAndUnlock(c, "gate1", n, "idle")
      BY <2>2, <3>1, <3>2 DEF NotifyOne
    <3>4. SpinInv' /\ Len(awaiters'["gate1"]) = Len(awaiters["gate1"]) - n
      BY <1>0, <2>0, <3>3, SpinResume
    <3>5. Len(awaiters'["gate1"]) = 0 /\ awaiters'["gate1"] \in Seq(Coros)
      BY <1>0, <3>2, <3>3, <3>4 DEF SpinInv
    <3> QED
      BY <3>5 DEF Gate1Inv
  <2>3. CASE Unlock(c, "idle")
    BY <2>0, <2>3 DEF Gate1Inv, Unlock
  <2> QED
    BY <1>5, <2>1, <2>2, <2>3 DEF UnlockShared
<1>6. ASSUME NEW c \in Coros, AllowWrite(c) \/ AllowRead(c) PROVE Gate1Inv'
  <2>1. writeEntered => writeEntered'
    BY <1>6 DEF AllowWrite, AllowRead
  <2> QED
    BY <1>6, <2>1 DEF AllowWrite, AllowRead, Unlock, Gate1Inv
<1>7. ASSUME NEW c \in Coros, ScopedLock(c) \/ TryScopedLock(c) \/ RelockGate(c) \/ CallUnlock(c)
      PROVE  Gate1Inv'
  BY <1>7 DEF ScopedLock, TryScopedLock, RelockGate, CallUnlock, CoLock, Relock, Gate1Inv, rw
<1>8. ASSUME NEW c \in Coros, NEW l, Call(c, l) PROVE Gate1Inv'
  BY <1>8 DEF Call, Gate1Inv, rw
<1>9. CASE UNCHANGED vars
  BY <1>9 DEF vars, syncVars, Gate1Inv
<1> QED
  BY <1>1, <1>2, <1>3, <1>4, <1>5, <1>6, <1>7, <1>8, <1>9 DEF Next, Step

\* unlock, unlockShared: with no more coroutines than max_readers (2^31 - 1 in the code)
\* nobody waits at a gate without somebody who will wake it up.
THEOREM SharedMutexWakes ==
    ASSUME IsFiniteSet(Coros), Cardinality(Coros) <= MaxReaders, Conditions = Gates
    PROVE  Spec => []SomebodyWakes
<1>1. Init => SharedInv /\ Gate1Inv
  BY InitSharedInv
<1>2. SharedInv /\ Gate1Inv /\ [Next]_vars => SharedInv' /\ Gate1Inv'
  BY StepSharedInv, StepGate1Inv
<1>3. SharedInv /\ Gate1Inv => SomebodyWakes
  <2> SUFFICES ASSUME SharedInv, Gate1Inv PROVE SomebodyWakes
    OBVIOUS
  <2>1. awaiters["gate2"] # <<>> => writeEntered /\ Len(awaiters["gate2"]) = 1
    BY Gate2One
  <2>2. awaiters["gate2"] # <<>> => readers > 0
    BY SharedMutexAssumption DEF SharedInv, StateInv, Gate2Inv
  <2> QED
    BY <2>1, <2>2 DEF SomebodyWakes, Gate1Inv
<1> QED
  BY <1>1, <1>2, <1>3, PTL DEF Spec
====
