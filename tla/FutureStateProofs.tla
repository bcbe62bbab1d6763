---- MODULE FutureStateProofs ----
(* The continuation of a Future is called at most once, and with a result, for every *)
(* set of producers and values.                                                      *)
EXTENDS FutureState, FiniteSetTheorems, TLAPS

\* A thread with one of these labels is on its way to call the continuation.
CallLabels == {"sched", "submit", "nullExecutor", "run"}
Calling(t) == pc[t] \in CallLabels
Both == {"result", "continuation"}

\* _promiseRef counts the Promise copies that have not begun to be destroyed.
Held == {p \in Producers : promise[p] = "held"}
PromiseCount ==
    promiseRef = Cardinality(Held) + Parked + (IF pc[Consumer] = "setup" THEN 1 ELSE 0)

\* One thread at a time is inside setResult(): the caller's contract for setValue, and
\* for ~Promise because the last copy is alone.
Breaking(p) == pc[p] = "lastPromise" \/ (InSetResult(p) /\ promise[p] = "dying")
OneSetter ==
    /\ \A p \in Producers :
          /\ InSetResult(p) => promise[p] \in {"held", "dying"}
          /\ pc[p] \in {"lastPromise", "detach"} => promise[p] = "dying"
    /\ \A p \in Producers : Breaking(p) =>
          /\ pc[Consumer] # "setup"
          /\ \A q \in Producers : promise[q] # "held"
          /\ \A q \in Producers : InSetResult(q) \/ Breaking(q) => q = p
    /\ \A p, q \in Producers : InSetResult(p) /\ InSetResult(q) => p = q

\* Before the two sides have met nobody is near the continuation.
NotMet ==
    state # "DONE" =>
        /\ delivered = <<>> /\ task = "none" /\ continuationRef = 0
        /\ \A t \in Threads : ~Calling(t) /\ pc[t] # "deref"
        /\ pc[Worker] = "idle"

\* The right to call the continuation is held once: by a thread or by the closure.
OneCall ==
    /\ \A t, u \in Threads : Calling(t) /\ Calling(u) => t = u
    /\ \A t \in Threads : Calling(t) => delivered = <<>> /\ task # "queued"
    /\ task = "queued" => delivered = <<>> /\ pc[Worker] = "idle"
    /\ task = "none" => pc[Worker] = "idle"
    /\ \A t \in Threads \ {Worker} : Calling(t) => task = "none"

\* Until it is called the continuation is kept by the guards that _continuationRef counts.
Guarded ==
    /\ \A t \in Threads \ {Worker} : Calling(t) =>
          /\ \A u \in Threads : pc[u] # "deref"
          /\ pc[t] = "sched" => continuationRef = 0
          /\ pc[t] = "run" => continuationRef = 1
          /\ pc[t] \in {"submit", "nullExecutor"} => continuationRef = 2
    /\ task = "queued" \/ pc[Worker] = "run" =>
          /\ \A t, u \in Threads : pc[t] = "deref" /\ pc[u] = "deref" => t = u
          /\ (\E t \in Threads : pc[t] = "deref") => continuationRef = 2
          /\ (\A t \in Threads : pc[t] # "deref") => continuationRef = 1
    /\ \A t \in Threads : pc[t] = "deref" /\ delivered = <<>> =>
          task = "queued" \/ pc[Worker] = "run"

\* What each side has written before the other one can read it.
Written ==
    /\ state = "DONE" /\ delivered = <<>> => tryValue \in Results /\ continuation = "set"
    /\ state = "ONLY_RESULT" => tryValue \in Results
    /\ state = "ONLY_CONTINUATION" => continuation = "set"
    /\ pc[Consumer] \in {"scLoad", "casStart", "casDone"} => continuation = "set"
    /\ \A p \in Producers : InSetResult(p) /\ state # "DONE" => tryValue \in Results

\* Where _state can be while a thread is inside setResult() or setContinuation().
Meeting ==
    /\ pc[Consumer] \in {"setup", "hold", "waitSet", "scLoad", "casStart", "casDone"} =>
          state \in {"START", "ONLY_RESULT"}
    /\ pc[Consumer] = "casDone" => state = "ONLY_RESULT"
    /\ \A p \in Producers :
          /\ pc[p] = "casStart" => state \in {"START", "ONLY_CONTINUATION"}
          /\ pc[p] = "casDone" => state = "ONLY_CONTINUATION"
    /\ \A t \in Threads : pc[t] = "casDone" => loaded[t] = state

\* Where compare_exchange acquires, the thread that calls sees both sides' writes.
Synchronised ==
    ~WeakMemory =>
        /\ \A t \in Threads : pc[t] = "casDone" \/ Calling(t) => visible[t] = Both
        /\ task = "queued" => visible[Worker] = Both

Delivery == ~WeakMemory => DeliveredSound
AtMostOnce == Len(delivered) <= 1

ProtocolInv ==
    /\ TypeOK /\ PromiseCount /\ OneSetter /\ NotMet /\ OneCall /\ Guarded
    /\ Written /\ Meeting /\ Synchronised /\ Delivery /\ AtMostOnce

----
(* Facts the cases share *)

\* The uint8_t counters: the values that occur around a call of the continuation.
LEMMA RefFacts ==
    /\ \A r \in 0 .. RefMod - 1 : /\ Inc(r, 1) \in 0 .. RefMod - 1
                                  /\ Inc(r, 2) \in 0 .. RefMod - 1
                                  /\ Dec(r) \in 0 .. RefMod - 1
    /\ Inc(0, 1) = 1 /\ Inc(0, 2) = 2 /\ Dec(2) = 1
BY DEF Inc, Dec, RefMod

\* The three kinds of thread are different threads.
LEMMA ThreadFacts ==
    /\ Consumer \in Threads /\ Worker \in Threads /\ Consumer # Worker
    /\ \A p \in Producers : p \in Threads /\ p # Consumer /\ p # Worker
    /\ \A t \in Threads : t \in Producers \/ t = Consumer \/ t = Worker
BY ProducersAssumption DEF Threads

\* A step that moves no thread to or from the call, or past it, keeps the right to call.
LEMMA CallFrame ==
    ASSUME NotMet, OneCall, Guarded,
           UNCHANGED <<task, delivered, continuationRef>>,
           \A t \in Threads : pc'[t] \in CallLabels \cup {"deref"}
                                 \/ pc[t] \in CallLabels \cup {"deref"}
                              => pc'[t] = pc[t],
           pc'[Worker] = "idle" <=> pc[Worker] = "idle",
           state' # "DONE" => state # "DONE"
    PROVE  NotMet' /\ OneCall' /\ Guarded'
<1> USE ThreadFacts
<1>1. \A t \in Threads : (pc'[t] \in CallLabels <=> pc[t] \in CallLabels)
                         /\ (pc'[t] = "deref" <=> pc[t] = "deref")
                         /\ (pc[t] \in CallLabels => pc'[t] = pc[t])
  BY DEF CallLabels
<1>2. pc'[Worker] = "run" <=> pc[Worker] = "run"
  BY DEF CallLabels
<1>3. NotMet'
  BY <1>1 DEF NotMet, Calling
<1>4. OneCall'
  BY <1>1 DEF OneCall, Calling
<1>5. Guarded'
  BY <1>1, <1>2 DEF Guarded, Calling
<1> QED
  BY <1>3, <1>4, <1>5

\* A step after which no more threads are inside setResult() than before.
LEMMA SetterFrame ==
    ASSUME OneSetter, promise' = promise,
           \A p \in Producers :
              /\ InSetResult(p)' => InSetResult(p)
              /\ pc'[p] = "lastPromise" => pc[p] = "lastPromise"
              /\ pc'[p] = "detach" => pc[p] = "detach" \/ promise[p] = "dying",
           pc'[Consumer] = "setup" => pc[Consumer] = "setup"
    PROVE  OneSetter'
<1>1. \A p \in Producers : Breaking(p)' => Breaking(p)
  BY DEF Breaking
<1> QED
  BY <1>1 DEF OneSetter

\* A step that neither copies nor destroys a Promise.
LEMMA CountFrame ==
    ASSUME PromiseCount, promise' = promise, promiseRef' = promiseRef,
           pc'[Consumer] = "setup" <=> pc[Consumer] = "setup"
    PROVE  PromiseCount'
BY DEF PromiseCount, Held

\* Held copies are finitely many.
LEMMA HeldFinite == IsFiniteSet(Held) /\ Cardinality(Held) \in Nat
BY ProducersAssumption, FS_Subset, FS_CardinalityType DEF Held

----
(* One lemma per action: it preserves the invariant *)

\* Future::via only sets _executor.
LEMMA StepVia ==
    ASSUME ProtocolInv, Via
    PROVE  ProtocolInv'
<1> USE ThreadFacts DEF ProtocolInv
<1>un. UNCHANGED <<state, tryValue, continuation, attached, promiseRef,
                 continuationRef, context, forceSched, deleted, promise, loaded,
                 visible, calls, waiting, task, delivered>>
  BY DEF Via, object, refs, setup, threads, DetachOne, DerefContinuation
<1>pc. pc' = pc
  BY DEF Via
<1>sp. executor' = TRUE
  BY DEF Via
<1>1. TypeOK'
  BY <1>un, <1>pc, <1>sp, RefFacts DEF TypeOK, Results, DetachOne, DerefContinuation, Acquire
<1>2. PromiseCount'
  BY <1>un, <1>pc, <1>sp, CountFrame
<1>3. OneSetter'
  BY <1>un, <1>pc, <1>sp, SetterFrame DEF InSetResult
<1>4. NotMet' /\ OneCall' /\ Guarded'
  BY <1>un, <1>pc, <1>sp, CallFrame DEF CallLabels
<1>5. Written'
  BY <1>un, <1>pc, <1>sp DEF Written, InSetResult
<1>6. Meeting'
  BY <1>un, <1>pc, <1>sp DEF Meeting
<1>7. Synchronised'
  BY <1>un, <1>pc, <1>sp DEF Synchronised, Calling, CallLabels
<1>8. Delivery'
  BY <1>un DEF Delivery, DeliveredSound
<1>9. AtMostOnce'
  BY <1>un DEF AtMostOnce
<1> QED
  BY <1>1, <1>2, <1>3, <1>4, <1>5, <1>6, <1>7, <1>8, <1>9

\* Promise::forceSched only sets _forceSched.
LEMMA StepSetForceSched ==
    ASSUME ProtocolInv, SetForceSched
    PROVE  ProtocolInv'
<1> USE ThreadFacts DEF ProtocolInv
<1>un. UNCHANGED <<state, tryValue, continuation, attached, promiseRef,
                 continuationRef, executor, context, deleted, promise, loaded,
                 visible, calls, waiting, task, delivered>>
  BY DEF SetForceSched, object, refs, setup, threads, DetachOne, DerefContinuation
<1>pc. pc' = pc
  BY DEF SetForceSched
<1>sp. forceSched' = TRUE
  BY DEF SetForceSched
<1>1. TypeOK'
  BY <1>un, <1>pc, <1>sp, RefFacts DEF TypeOK, Results, DetachOne, DerefContinuation, Acquire
<1>2. PromiseCount'
  BY <1>un, <1>pc, <1>sp, CountFrame
<1>3. OneSetter'
  BY <1>un, <1>pc, <1>sp, SetterFrame DEF InSetResult
<1>4. NotMet' /\ OneCall' /\ Guarded'
  BY <1>un, <1>pc, <1>sp, CallFrame DEF CallLabels
<1>5. Written'
  BY <1>un, <1>pc, <1>sp DEF Written, InSetResult
<1>6. Meeting'
  BY <1>un, <1>pc, <1>sp DEF Meeting
<1>7. Synchronised'
  BY <1>un, <1>pc, <1>sp DEF Synchronised, Calling, CallLabels
<1>8. Delivery'
  BY <1>un DEF Delivery, DeliveredSound
<1>9. AtMostOnce'
  BY <1>un DEF AtMostOnce
<1> QED
  BY <1>1, <1>2, <1>3, <1>4, <1>5, <1>6, <1>7, <1>8, <1>9

\* Promise::checkout only sets _context.
LEMMA StepCheckout ==
    ASSUME ProtocolInv, Checkout
    PROVE  ProtocolInv'
<1> USE ThreadFacts DEF ProtocolInv
<1>un. UNCHANGED <<state, tryValue, continuation, attached, promiseRef,
                 continuationRef, executor, forceSched, deleted, promise,
                 loaded, visible, calls, waiting, task, delivered>>
  BY DEF Checkout, object, refs, setup, threads, DetachOne, DerefContinuation
<1>pc. pc' = pc
  BY DEF Checkout
<1>sp. context' = TRUE
  BY DEF Checkout
<1>1. TypeOK'
  BY <1>un, <1>pc, <1>sp, RefFacts DEF TypeOK, Results, DetachOne, DerefContinuation, Acquire
<1>2. PromiseCount'
  BY <1>un, <1>pc, <1>sp, CountFrame
<1>3. OneSetter'
  BY <1>un, <1>pc, <1>sp, SetterFrame DEF InSetResult
<1>4. NotMet' /\ OneCall' /\ Guarded'
  BY <1>un, <1>pc, <1>sp, CallFrame DEF CallLabels
<1>5. Written'
  BY <1>un, <1>pc, <1>sp DEF Written, InSetResult
<1>6. Meeting'
  BY <1>un, <1>pc, <1>sp DEF Meeting
<1>7. Synchronised'
  BY <1>un, <1>pc, <1>sp DEF Synchronised, Calling, CallLabels
<1>8. Delivery'
  BY <1>un DEF Delivery, DeliveredSound
<1>9. AtMostOnce'
  BY <1>un DEF AtMostOnce
<1> QED
  BY <1>1, <1>2, <1>3, <1>4, <1>5, <1>6, <1>7, <1>8, <1>9

\* HandOut moves the Promise to its first producer.
LEMMA StepHandOut ==
    ASSUME ProtocolInv, NEW p \in Producers, HandOut(p)
    PROVE  ProtocolInv'
<1> USE ThreadFacts DEF ProtocolInv
<1>un. UNCHANGED <<state, tryValue, continuation, attached, promiseRef,
                 continuationRef, executor, context, forceSched, deleted,
                 loaded, visible, calls, waiting, task, delivered>>
  BY DEF HandOut, object, refs, setup, threads, DetachOne, DerefContinuation
<1>pc. /\ pc[Consumer] \in {"setup"}
       /\ \A u \in Threads : pc'[u] = IF u = Consumer THEN "hold" ELSE pc[u]
  BY DEF HandOut, Goto, TypeOK
<1>sp. promise[p] = "none" /\ promise' = [promise EXCEPT ![p] = "held"]
  BY DEF HandOut
<1>ty. /\ pc' \in [Threads -> ProducerLabels \cup ConsumerLabels \cup WorkerLabels]
       /\ \A r \in Producers : pc'[r] \in ProducerLabels
       /\ pc'[Consumer] \in ConsumerLabels /\ pc'[Worker] \in WorkerLabels
  BY <1>pc DEF HandOut, Goto, TypeOK, Scheduling, ProducerLabels, ConsumerLabels, WorkerLabels
<1>1. TypeOK'
  BY <1>un, <1>pc, <1>sp, <1>ty, RefFacts DEF TypeOK, Results, DetachOne, DerefContinuation, Acquire
<1>2. PromiseCount'
  <2>1. Held' = Held \cup {p} /\ p \notin Held
    BY <1>sp DEF Held, TypeOK
  <2>2. Cardinality(Held') = Cardinality(Held) + 1
    BY <2>1, HeldFinite, FS_AddElement
  <2> QED
    BY <2>2, <1>pc, <1>un, HeldFinite, BoundsAssumption DEF PromiseCount
<1>3. OneSetter'
  <2>1. \A q \in Producers : ~Breaking(q) /\ pc'[q] = pc[q]
    BY <1>pc DEF OneSetter
  <2>2. \A q \in Producers : q # p => promise'[q] = promise[q]
    BY <1>sp DEF TypeOK
  <2>3. promise'[p] = "held" /\ ~InSetResult(p) /\ pc[p] \notin {"lastPromise", "detach"}
    BY <1>sp DEF TypeOK, OneSetter
  <2>4. \A q \in Producers : ~Breaking(q)'
    BY <2>1, <2>2, <2>3 DEF Breaking, InSetResult
  <2> QED
    BY <2>1, <2>2, <2>3, <2>4 DEF OneSetter, InSetResult
<1>4. NotMet' /\ OneCall' /\ Guarded'
  BY <1>un, <1>pc, <1>sp, CallFrame DEF CallLabels
<1>5. Written'
  BY <1>un, <1>pc, <1>sp DEF Written, InSetResult
<1>6. Meeting'
  BY <1>un, <1>pc, <1>sp DEF Meeting
<1>7. Synchronised'
  BY <1>un, <1>pc, <1>sp DEF Synchronised, Calling, CallLabels
<1>8. Delivery'
  BY <1>un DEF Delivery, DeliveredSound
<1>9. AtMostOnce'
  BY <1>un DEF AtMostOnce
<1> QED
  BY <1>1, <1>2, <1>3, <1>4, <1>5, <1>6, <1>7, <1>8, <1>9

\* A copy of the Promise.
LEMMA StepCopyPromise ==
    ASSUME ProtocolInv, NEW p \in Producers, NEW q \in Producers, CopyPromise(p, q)
    PROVE  ProtocolInv'
<1> USE ThreadFacts DEF ProtocolInv
<1>un. UNCHANGED <<state, tryValue, continuation, continuationRef, executor,
                 context, forceSched, deleted, loaded, visible, calls, waiting,
                 task, delivered>>
  BY DEF CopyPromise, object, refs, setup, threads, DetachOne, DerefContinuation
<1>pc. pc' = pc
  BY DEF CopyPromise
<1>sp. /\ promise[p] = "held" /\ promise[q] = "none" /\ promise' = [promise EXCEPT ![q] = "held"]
        /\ promiseRef' = promiseRef + 1 /\ attached' = Inc(attached, 1)
  BY DEF CopyPromise
<1>1. TypeOK'
  <2>1. attached' \in 0 .. RefMod - 1
    BY <1>sp, RefFacts DEF TypeOK
  <2>2. promise' \in [Producers -> {"none", "held", "dying", "gone"}] /\ promiseRef' \in Nat
    BY <1>sp DEF TypeOK
  <2> QED
    BY <1>pc, <1>un, <2>1, <2>2 DEF TypeOK
<1>2. PromiseCount'
  <2>1. Held' = Held \cup {q} /\ q \notin Held
    BY <1>sp DEF Held, TypeOK
  <2>2. Cardinality(Held') = Cardinality(Held) + 1
    BY <2>1, HeldFinite, FS_AddElement
  <2> QED
    BY <2>2, <1>pc, <1>un, <1>sp, HeldFinite, BoundsAssumption DEF PromiseCount
<1>3. OneSetter'
  <2>1. \A r \in Producers : ~Breaking(r)
    BY <1>sp DEF OneSetter
  <2>2. \A r \in Producers : r # q => promise'[r] = promise[r]
    BY <1>sp DEF TypeOK
  <2>3. promise'[q] = "held" /\ ~InSetResult(q) /\ pc[q] \notin {"lastPromise", "detach"}
    BY <1>sp DEF TypeOK, OneSetter
  <2>4. \A r \in Producers : ~Breaking(r)'
    BY <1>pc, <2>1, <2>2, <2>3 DEF Breaking, InSetResult
  <2> QED
    BY <1>pc, <2>1, <2>2, <2>3, <2>4 DEF OneSetter, InSetResult
<1>4. NotMet' /\ OneCall' /\ Guarded'
  BY <1>un, <1>pc, <1>sp, CallFrame DEF CallLabels
<1>5. Written'
  BY <1>un, <1>pc, <1>sp DEF Written, InSetResult
<1>6. Meeting'
  BY <1>un, <1>pc, <1>sp DEF Meeting
<1>7. Synchronised'
  BY <1>un, <1>pc, <1>sp DEF Synchronised, Calling, CallLabels
<1>8. Delivery'
  BY <1>un DEF Delivery, DeliveredSound
<1>9. AtMostOnce'
  BY <1>un DEF AtMostOnce
<1> QED
  BY <1>1, <1>2, <1>3, <1>4, <1>5, <1>6, <1>7, <1>8, <1>9

\* setValue and setException write the result, or throw when there is one.
LEMMA StepSetValue ==
    ASSUME ProtocolInv, NEW p \in Producers, NEW v \in Values, SetValue(p, v)
    PROVE  ProtocolInv'
<1> USE ThreadFacts DEF ProtocolInv
<1>un. UNCHANGED <<state, continuation, attached, promiseRef, continuationRef,
                 executor, context, forceSched, deleted, promise, loaded,
                 visible, waiting, task, delivered>>
  BY DEF SetValue, object, refs, setup, threads, DetachOne, DerefContinuation
<1>pc. /\ pc[p] = "idle" /\ pc'[p] \in {"idle", "srLoad"}
       /\ \A u \in Threads : u # p => pc'[u] = pc[u]
  BY DEF SetValue, Goto, TypeOK
<1>sp. /\ promise[p] = "held"
       /\ \A q \in Producers : ~InSetResult(q)
       /\ calls[p] < MaxCalls
       /\ calls' = [calls EXCEPT ![p] = @ + 1]
       /\ tryValue' \in {tryValue, v}
       /\ pc'[p] = "srLoad" => tryValue' = v
       /\ pc'[p] # "srLoad" => tryValue' = tryValue
  BY DEF SetValue, Goto, TypeOK, Scheduling, ProducerLabels
<1>ty. /\ pc' \in [Threads -> ProducerLabels \cup ConsumerLabels \cup WorkerLabels]
       /\ \A r \in Producers : pc'[r] \in ProducerLabels
       /\ pc'[Consumer] \in ConsumerLabels /\ pc'[Worker] \in WorkerLabels
  BY <1>pc DEF SetValue, Goto, TypeOK, Scheduling, ProducerLabels
<1>1. TypeOK'
  <2>1. calls' \in [Producers -> 0 .. MaxCalls]
    BY <1>sp, BoundsAssumption DEF TypeOK
  <2>2. tryValue' \in Results \cup {"nothing", "moved"}
    BY <1>sp DEF TypeOK, Results
  <2> QED
    BY <1>pc, <1>un, <1>ty, <2>1, <2>2 DEF TypeOK
<1>2. PromiseCount'
  BY <1>un, <1>pc, <1>sp, CountFrame
<1>3. OneSetter'
  <2>1. \A q \in Producers : ~Breaking(q) /\ ~InSetResult(q)
    BY <1>sp DEF OneSetter
  <2>2. \A q \in Producers : q # p => ~InSetResult(q)' /\ ~Breaking(q)'
    BY <1>pc, <1>un, <2>1, ThreadFacts DEF Breaking, InSetResult
  <2>3. ~Breaking(p)' /\ pc'[p] \notin {"lastPromise", "detach"}
    BY <1>pc, <1>un, <1>sp DEF Breaking, InSetResult
  <2>4. \A q \in Producers : pc'[q] \in {"lastPromise", "detach"} => pc[q] \in {"lastPromise", "detach"}
    BY <1>pc, <2>3, ThreadFacts
  <2> QED
    BY <1>un, <1>sp, <2>2, <2>3, <2>4 DEF OneSetter
<1>4. NotMet' /\ OneCall' /\ Guarded'
  <2>1. \A u \in Threads : pc'[u] \in CallLabels \cup {"deref"} \/ pc[u] \in CallLabels \cup {"deref"}
                           => pc'[u] = pc[u]
    BY <1>pc DEF CallLabels
  <2> QED
    BY <1>pc, <1>un, <2>1, CallFrame
<1>5. Written'
  <2>1. v \in Results
    BY DEF Results
  <2>2. \A q \in Producers : q # p => ~InSetResult(q)'
    BY <1>pc, <1>sp DEF InSetResult
  <2>3. InSetResult(p)' => tryValue' = v
    BY <1>pc, <1>sp DEF InSetResult
  <2> QED
    BY <1>pc, <1>un, <1>sp, <2>1, <2>2, <2>3 DEF Written
<1>6. Meeting'
  BY <1>un, <1>pc, <1>sp DEF Meeting
<1>7. Synchronised'
  BY <1>un, <1>pc, <1>sp DEF Synchronised, Calling, CallLabels
<1>8. Delivery'
  BY <1>un DEF Delivery, DeliveredSound
<1>9. AtMostOnce'
  BY <1>un DEF AtMostOnce
<1> QED
  BY <1>1, <1>2, <1>3, <1>4, <1>5, <1>6, <1>7, <1>8, <1>9

\* ~Promise gives up its count, and learns whether it was the last copy.
LEMMA StepDetachPromise ==
    ASSUME ProtocolInv, NEW p \in Producers, DetachPromise(p)
    PROVE  ProtocolInv'
<1> USE ThreadFacts DEF ProtocolInv
<1>un. UNCHANGED <<state, tryValue, continuation, attached, continuationRef,
                 executor, context, forceSched, deleted, loaded, visible, calls,
                 waiting, task, delivered>>
  BY DEF DetachPromise, object, refs, setup, threads, DetachOne, DerefContinuation
<1>pc. /\ pc[p] \in {"idle"}
       /\ \A u \in Threads : pc'[u] = IF u = p THEN IF promiseRef = 1 THEN "lastPromise" ELSE "detach" ELSE pc[u]
  BY DEF DetachPromise, Goto, TypeOK
<1>sp. promise[p] = "held" /\ promise' = [promise EXCEPT ![p] = "dying"] /\ promiseRef' = promiseRef - 1
  BY DEF DetachPromise
<1>h. /\ Held' = Held \ {p} /\ p \in Held
      /\ Cardinality(Held') \in Nat /\ Cardinality(Held) = Cardinality(Held') + 1
      /\ promiseRef = 1 => Held' = {} /\ pc[Consumer] # "setup"
      /\ promiseRef - 1 \in Nat
      /\ promiseRef - 1 = Cardinality(Held') + Parked + (IF pc[Consumer] = "setup" THEN 1 ELSE 0)
  <2>1. Held' = Held \ {p} /\ p \in Held
    BY <1>sp DEF Held, TypeOK
  <2>2. Cardinality(Held') = Cardinality(Held) - 1
    BY <2>1, HeldFinite, FS_RemoveElement
  <2>3. IsFiniteSet(Held') /\ Cardinality(Held') \in Nat
    BY <2>1, HeldFinite, FS_RemoveElement, FS_CardinalityType
  <2> DEFINE n == Cardinality(Held')  s == IF pc[Consumer] = "setup" THEN 1 ELSE 0
  <2>4. /\ n \in Nat /\ s \in {0, 1} /\ Parked \in Nat /\ promiseRef \in Nat
        /\ Cardinality(Held) = n + 1
    BY <2>2, <2>3, HeldFinite, BoundsAssumption DEF TypeOK
  <2>5. promiseRef = Cardinality(Held) + Parked + s
    BY DEF PromiseCount
  <2> HIDE DEF n, s
  <2>6. promiseRef - 1 = n + Parked + s
    BY <2>4, <2>5
  <2>7. promiseRef = 1 => n = 0 /\ s = 0
    BY <2>4, <2>6
  <2>8. promiseRef - 1 \in Nat
    BY <2>4, <2>6
  <2>9. n = 0 => Held' = {}
    BY <2>3, FS_EmptySet DEF n
  <2>10. s = 0 => pc[Consumer] # "setup"
    BY DEF s
  <2>11. promiseRef - 1 = Cardinality(Held') + Parked + (IF pc[Consumer] = "setup" THEN 1 ELSE 0)
    BY <2>6 DEF n, s
  <2>12. Cardinality(Held) = Cardinality(Held') + 1
    BY <2>4 DEF n
  <2> QED
    BY <2>1, <2>3, <2>7, <2>8, <2>9, <2>10, <2>11, <2>12
<1>ty. /\ pc' \in [Threads -> ProducerLabels \cup ConsumerLabels \cup WorkerLabels]
       /\ \A r \in Producers : pc'[r] \in ProducerLabels
       /\ pc'[Consumer] \in ConsumerLabels /\ pc'[Worker] \in WorkerLabels
  BY <1>pc DEF DetachPromise, Goto, TypeOK, Scheduling, ProducerLabels, ConsumerLabels, WorkerLabels
<1>1. TypeOK'
  BY <1>pc, <1>un, <1>sp, <1>ty, <1>h DEF TypeOK
<1>2. PromiseCount'
  <2>1. pc'[Consumer] = pc[Consumer]
    BY <1>pc
  <2> QED
    BY <2>1, <1>h, <1>sp DEF PromiseCount
<1>3. OneSetter'
  <2>1. \A q \in Producers : ~Breaking(q)
    BY <1>sp DEF OneSetter
  <2>2. /\ \A q \in Producers : q # p => promise'[q] = promise[q] /\ pc'[q] = pc[q]
        /\ promise'[p] = "dying" /\ pc'[p] \in {"lastPromise", "detach"}
    BY <1>pc, <1>sp, ThreadFacts DEF TypeOK
  <2>3. \A q \in Producers : q # p => ~Breaking(q)'
    BY <2>1, <2>2 DEF Breaking, InSetResult
  <2>4. ~InSetResult(p)' /\ \A q \in Producers : q # p => (InSetResult(q)' <=> InSetResult(q))
    BY <2>2 DEF InSetResult
  <2>5. ASSUME promiseRef = 1
        PROVE  /\ pc'[Consumer] # "setup"
               /\ \A q \in Producers : promise'[q] # "held"
               /\ \A q \in Producers : ~InSetResult(q)'
    <3>1. \A q \in Producers : promise'[q] # "held"
      BY <2>5, <1>h DEF Held
    <3>2. \A q \in Producers : q # p => ~InSetResult(q)
      BY <2>1, <2>2, <3>1 DEF Breaking, OneSetter
    <3> QED
      BY <2>4, <2>5, <3>1, <3>2, <1>h, <1>pc, ThreadFacts
  <2>6. Breaking(p)' => promiseRef = 1
    BY <1>pc, <2>4 DEF Breaking
  <2> QED
    BY <2>2, <2>3, <2>4, <2>5, <2>6 DEF OneSetter
<1>4. NotMet' /\ OneCall' /\ Guarded'
  BY <1>un, <1>pc, <1>sp, CallFrame DEF CallLabels
<1>5. Written'
  BY <1>un, <1>pc, <1>sp DEF Written, InSetResult
<1>6. Meeting'
  BY <1>un, <1>pc, <1>sp DEF Meeting
<1>7. Synchronised'
  BY <1>un, <1>pc, <1>sp DEF Synchronised, Calling, CallLabels
<1>8. Delivery'
  BY <1>un DEF Delivery, DeliveredSound
<1>9. AtMostOnce'
  BY <1>un DEF AtMostOnce
<1> QED
  BY <1>1, <1>2, <1>3, <1>4, <1>5, <1>6, <1>7, <1>8, <1>9

\* The last copy breaks the promise unless it has a result.
LEMMA StepBreakPromise ==
    ASSUME ProtocolInv, NEW p \in Producers, BreakPromise(p)
    PROVE  ProtocolInv'
<1> USE ThreadFacts DEF ProtocolInv
<1>un. UNCHANGED <<state, continuation, attached, promiseRef, continuationRef,
                 executor, context, forceSched, deleted, promise, loaded,
                 visible, calls, waiting, task, delivered>>
  BY DEF BreakPromise, object, refs, setup, threads, DetachOne, DerefContinuation
<1>pc. /\ pc[p] \in {"lastPromise"}
       /\ \A u \in Threads : pc'[u] = IF u = p THEN IF HasResult THEN "detach" ELSE "srLoad" ELSE pc[u]
  BY DEF BreakPromise, Goto, TypeOK
<1>sp. tryValue' = IF HasResult THEN tryValue ELSE "broken"
  BY DEF BreakPromise
<1>ty. /\ pc' \in [Threads -> ProducerLabels \cup ConsumerLabels \cup WorkerLabels]
       /\ \A r \in Producers : pc'[r] \in ProducerLabels
       /\ pc'[Consumer] \in ConsumerLabels /\ pc'[Worker] \in WorkerLabels
  BY <1>pc DEF BreakPromise, Goto, TypeOK, Scheduling, ProducerLabels, ConsumerLabels, WorkerLabels
<1>1. TypeOK'
  BY <1>un, <1>pc, <1>sp, <1>ty, RefFacts DEF TypeOK, Results, DetachOne, DerefContinuation, Acquire
<1>2. PromiseCount'
  BY <1>un, <1>pc, <1>sp, CountFrame
<1>3. OneSetter'
  <2>1. Breaking(p) /\ promise[p] = "dying"
    BY <1>pc DEF Breaking, OneSetter
  <2>2. \A q \in Producers : q # p => ~InSetResult(q) /\ ~Breaking(q)
    BY <2>1 DEF OneSetter
  <2>3. \A q \in Producers : q # p => ~InSetResult(q)' /\ ~Breaking(q)' /\ pc'[q] = pc[q]
    BY <1>pc, <1>un, <2>2, ThreadFacts DEF Breaking, InSetResult
  <2> QED
    BY <1>pc, <1>un, <2>1, <2>3, ThreadFacts DEF OneSetter
<1>4. NotMet' /\ OneCall' /\ Guarded'
  BY <1>un, <1>pc, <1>sp, CallFrame DEF CallLabels
<1>5. Written'
  <2>1. ~HasResult => tryValue' \in Results
    BY <1>sp DEF Results
  <2>2. HasResult => tryValue' = tryValue /\ \A q \in Producers : InSetResult(q)' => InSetResult(q)
    BY <1>pc, <1>sp DEF InSetResult
  <2> QED
    BY <1>pc, <1>un, <2>1, <2>2 DEF Written, HasResult
<1>6. Meeting'
  BY <1>un, <1>pc, <1>sp DEF Meeting, HasResult
<1>7. Synchronised'
  BY <1>un, <1>pc, <1>sp DEF Synchronised, Calling, CallLabels
<1>8. Delivery'
  BY <1>un DEF Delivery, DeliveredSound
<1>9. AtMostOnce'
  BY <1>un DEF AtMostOnce
<1> QED
  BY <1>1, <1>2, <1>3, <1>4, <1>5, <1>6, <1>7, <1>8, <1>9

\* setContinuation constructs the continuation.
LEMMA StepThen ==
    ASSUME ProtocolInv, Then
    PROVE  ProtocolInv'
<1> USE ThreadFacts DEF ProtocolInv
<1>un. UNCHANGED <<state, tryValue, attached, promiseRef, continuationRef,
                 executor, context, forceSched, deleted, promise, loaded,
                 visible, calls, waiting, task, delivered>>
  BY DEF Then, object, refs, setup, threads, DetachOne, DerefContinuation
<1>pc. /\ pc[Consumer] \in {"hold"}
       /\ \A u \in Threads : pc'[u] = IF u = Consumer THEN "scLoad" ELSE pc[u]
  BY DEF Then, Goto, TypeOK
<1>sp. continuation' = "set"
  BY DEF Then
<1>ty. /\ pc' \in [Threads -> ProducerLabels \cup ConsumerLabels \cup WorkerLabels]
       /\ \A r \in Producers : pc'[r] \in ProducerLabels
       /\ pc'[Consumer] \in ConsumerLabels /\ pc'[Worker] \in WorkerLabels
  BY <1>pc DEF Then, Goto, TypeOK, Scheduling, ProducerLabels, ConsumerLabels, WorkerLabels
<1>1. TypeOK'
  BY <1>un, <1>pc, <1>sp, <1>ty, RefFacts DEF TypeOK, Results, DetachOne, DerefContinuation, Acquire
<1>2. PromiseCount'
  BY <1>un, <1>pc, <1>sp, CountFrame
<1>3. OneSetter'
  BY <1>un, <1>pc, <1>sp, SetterFrame DEF InSetResult
<1>4. NotMet' /\ OneCall' /\ Guarded'
  BY <1>un, <1>pc, <1>sp, CallFrame DEF CallLabels
<1>5. Written'
  BY <1>un, <1>pc, <1>sp DEF Written, InSetResult
<1>6. Meeting'
  BY <1>un, <1>pc, <1>sp DEF Meeting
<1>7. Synchronised'
  BY <1>un, <1>pc, <1>sp DEF Synchronised, Calling, CallLabels
<1>8. Delivery'
  BY <1>un DEF Delivery, DeliveredSound
<1>9. AtMostOnce'
  BY <1>un DEF AtMostOnce
<1> QED
  BY <1>1, <1>2, <1>3, <1>4, <1>5, <1>6, <1>7, <1>8, <1>9

\* wait() looks for a result.
LEMMA StepWaitCheck ==
    ASSUME ProtocolInv, WaitCheck
    PROVE  ProtocolInv'
<1> USE ThreadFacts DEF ProtocolInv
<1>un. UNCHANGED <<state, tryValue, continuation, attached, promiseRef,
                 continuationRef, executor, context, forceSched, deleted,
                 promise, loaded, visible, calls, waiting, task, delivered>>
  BY DEF WaitCheck, object, refs, setup, threads, DetachOne, DerefContinuation
<1>pc. /\ pc[Consumer] \in {"hold"}
       /\ \A u \in Threads : pc'[u] = IF u = Consumer THEN IF HasResult THEN "dropFuture" ELSE "waitSet" ELSE pc[u]
  BY DEF WaitCheck, Goto, TypeOK
<1>ty. /\ pc' \in [Threads -> ProducerLabels \cup ConsumerLabels \cup WorkerLabels]
       /\ \A r \in Producers : pc'[r] \in ProducerLabels
       /\ pc'[Consumer] \in ConsumerLabels /\ pc'[Worker] \in WorkerLabels
  BY <1>pc DEF WaitCheck, Goto, TypeOK, Scheduling, ProducerLabels, ConsumerLabels, WorkerLabels
<1>1. TypeOK'
  BY <1>un, <1>pc, <1>ty, RefFacts DEF TypeOK, Results, DetachOne, DerefContinuation, Acquire
<1>2. PromiseCount'
  BY <1>un, <1>pc, CountFrame
<1>3. OneSetter'
  BY <1>un, <1>pc, SetterFrame DEF InSetResult
<1>4. NotMet' /\ OneCall' /\ Guarded'
  BY <1>un, <1>pc, CallFrame DEF CallLabels
<1>5. Written'
  BY <1>un, <1>pc DEF Written, InSetResult
<1>6. Meeting'
  BY <1>un, <1>pc DEF Meeting
<1>7. Synchronised'
  BY <1>un, <1>pc DEF Synchronised, Calling, CallLabels
<1>8. Delivery'
  BY <1>un DEF Delivery, DeliveredSound
<1>9. AtMostOnce'
  BY <1>un DEF AtMostOnce
<1> QED
  BY <1>1, <1>2, <1>3, <1>4, <1>5, <1>6, <1>7, <1>8, <1>9

\* wait() sets its own continuation.
LEMMA StepWaitSet ==
    ASSUME ProtocolInv, WaitSet
    PROVE  ProtocolInv'
<1> USE ThreadFacts DEF ProtocolInv
<1>un. UNCHANGED <<state, tryValue, attached, promiseRef, continuationRef,
                 context, forceSched, deleted, promise, loaded, visible, calls,
                 task, delivered>>
  BY DEF WaitSet, object, refs, setup, threads, DetachOne, DerefContinuation
<1>pc. /\ pc[Consumer] \in {"waitSet"}
       /\ \A u \in Threads : pc'[u] = IF u = Consumer THEN "scLoad" ELSE pc[u]
  BY DEF WaitSet, Goto, TypeOK
<1>sp. continuation' = "set" /\ executor' = FALSE /\ waiting' = TRUE
  BY DEF WaitSet
<1>ty. /\ pc' \in [Threads -> ProducerLabels \cup ConsumerLabels \cup WorkerLabels]
       /\ \A r \in Producers : pc'[r] \in ProducerLabels
       /\ pc'[Consumer] \in ConsumerLabels /\ pc'[Worker] \in WorkerLabels
  BY <1>pc DEF WaitSet, Goto, TypeOK, Scheduling, ProducerLabels, ConsumerLabels, WorkerLabels
<1>1. TypeOK'
  BY <1>un, <1>pc, <1>sp, <1>ty, RefFacts DEF TypeOK, Results, DetachOne, DerefContinuation, Acquire
<1>2. PromiseCount'
  BY <1>un, <1>pc, <1>sp, CountFrame
<1>3. OneSetter'
  BY <1>un, <1>pc, <1>sp, SetterFrame DEF InSetResult
<1>4. NotMet' /\ OneCall' /\ Guarded'
  BY <1>un, <1>pc, <1>sp, CallFrame DEF CallLabels
<1>5. Written'
  BY <1>un, <1>pc, <1>sp DEF Written, InSetResult
<1>6. Meeting'
  BY <1>un, <1>pc, <1>sp DEF Meeting
<1>7. Synchronised'
  BY <1>un, <1>pc, <1>sp DEF Synchronised, Calling, CallLabels
<1>8. Delivery'
  BY <1>un DEF Delivery, DeliveredSound
<1>9. AtMostOnce'
  BY <1>un DEF AtMostOnce
<1> QED
  BY <1>1, <1>2, <1>3, <1>4, <1>5, <1>6, <1>7, <1>8, <1>9

\* The switch on the acquire load of _state.
LEMMA StepLoadState ==
    ASSUME ProtocolInv, NEW t \in Threads, LoadState(t)
    PROVE  ProtocolInv'
<1> USE ThreadFacts DEF ProtocolInv
<1>un. UNCHANGED <<state, tryValue, continuation, attached, promiseRef,
                 continuationRef, executor, context, forceSched, deleted,
                 promise, calls, waiting, task, delivered>>
  BY DEF LoadState, object, refs, setup, threads, DetachOne, DerefContinuation
<1>pc. /\ pc[t] \in {"srLoad", "scLoad"}
       /\ \A u \in Threads : u # t => pc'[u] = pc[u]
       /\ \/ pc'[t] = "casStart" /\ state = "START"
          \/ pc'[t] = "casDone" /\ state = Other(t)
          \/ pc'[t] = Return(t) /\ state # "START" /\ state # Other(t)
  BY DEF LoadState, Goto, TypeOK
<1>sp. /\ loaded' = [loaded EXCEPT ![t] = state]
        /\ visible' = IF state = Other(t) THEN Acquire(t) ELSE visible
  BY DEF LoadState
<1>k. t \in Producers \/ t = Consumer
  BY <1>pc DEF TypeOK, WorkerLabels
<1>r. /\ Return(Consumer) = "returned"
      /\ \A p \in Producers : Return(p) = IF promise[p] = "dying" THEN "detach" ELSE "idle"
  BY DEF Return
<1>o. /\ Other(Consumer) = "ONLY_RESULT"
      /\ \A p \in Producers : Other(p) = "ONLY_CONTINUATION"
  BY DEF Other
<1>c. /\ t = Consumer => pc[t] = "scLoad" /\ state \in {"START", "ONLY_RESULT"}
      /\ t \in Producers => pc[t] = "srLoad"
  BY <1>pc, <1>k DEF TypeOK, Scheduling, ProducerLabels, ConsumerLabels, Meeting
<1>n. /\ t = Consumer => pc'[t] \in {"casStart", "casDone"}
      /\ t \in Producers => pc'[t] \in {"casStart", "casDone", "detach", "idle"}
      /\ t \in Producers /\ pc'[t] = "detach" => promise[t] = "dying"
  BY <1>pc, <1>r, <1>o, <1>c
<1>ty. /\ pc' \in [Threads -> ProducerLabels \cup ConsumerLabels \cup WorkerLabels]
       /\ \A r \in Producers : pc'[r] \in ProducerLabels
       /\ pc'[Consumer] \in ConsumerLabels /\ pc'[Worker] \in WorkerLabels
  BY <1>pc, <1>k, <1>n DEF LoadState, Goto, TypeOK, Scheduling, ProducerLabels, ConsumerLabels
<1>1. TypeOK'
  <2>1. loaded' \in [Threads -> {"START", "ONLY_RESULT", "ONLY_CONTINUATION", "DONE"}]
    BY <1>sp DEF TypeOK
  <2>2. visible' \in [Threads -> SUBSET {"result", "continuation"}]
    BY <1>sp DEF TypeOK, Acquire
  <2> QED
    BY <1>un, <1>ty, <2>1, <2>2 DEF TypeOK
<1>2. PromiseCount'
  BY <1>pc, <1>un, <1>k, <1>n, <1>c, CountFrame
<1>3. OneSetter'
  <2>1. \A p \in Producers :
           /\ InSetResult(p)' => InSetResult(p)
           /\ pc'[p] = "lastPromise" => pc[p] = "lastPromise"
           /\ pc'[p] = "detach" => pc[p] = "detach" \/ promise[p] = "dying"
    BY <1>pc, <1>n, <1>c DEF InSetResult
  <2>2. pc'[Consumer] = "setup" => pc[Consumer] = "setup"
    BY <1>pc, <1>n
  <2> QED
    BY <1>un, <2>1, <2>2, SetterFrame
<1>4. NotMet' /\ OneCall' /\ Guarded'
  <2>1. \A u \in Threads : pc'[u] \in CallLabels \cup {"deref"} \/ pc[u] \in CallLabels \cup {"deref"}
                           => pc'[u] = pc[u]
    BY <1>pc, <1>n, <1>k DEF CallLabels
  <2>2. pc'[Worker] = pc[Worker]
    BY <1>pc, <1>k
  <2> QED
    BY <1>un, <2>1, <2>2, CallFrame
<1>5. Written'
  <2>1. \A p \in Producers : InSetResult(p)' => InSetResult(p)
    BY <1>pc, <1>n, <1>c DEF InSetResult
  <2>2. pc'[Consumer] \in {"scLoad", "casStart", "casDone"} => pc[Consumer] \in {"scLoad", "casStart", "casDone"}
    BY <1>pc, <1>c
  <2> QED
    BY <1>un, <2>1, <2>2 DEF Written
<1>6. Meeting'
  <2>1. pc'[t] = "casStart" => state = "START"
    BY <1>pc, <1>o, <1>k, <1>r
  <2>2. pc'[t] = "casDone" => state = Other(t)
    BY <1>pc, <1>o, <1>k, <1>r
  <2>3. loaded'[t] = state /\ \A u \in Threads : u # t => loaded'[u] = loaded[u]
    BY <1>sp DEF TypeOK
  <2>4. pc'[Consumer] \in {"setup", "hold", "waitSet", "scLoad", "casStart", "casDone"} =>
          pc[Consumer] \in {"setup", "hold", "waitSet", "scLoad", "casStart", "casDone"}
    BY <1>pc, <1>c
  <2> QED
    BY <1>pc, <1>un, <1>o, <2>1, <2>2, <2>3, <2>4 DEF Meeting
<1>7. Synchronised'
  <2>1. pc'[t] = "casDone" => visible'[t] = Both
    BY <1>pc, <1>sp, <1>o, <1>k, <1>r DEF Acquire, Both, TypeOK
  <2>2. ~Calling(t)'
    BY <1>n, <1>k DEF Calling, CallLabels
  <2>3. \A u \in Threads : u # t => visible'[u] = visible[u] /\ pc'[u] = pc[u]
    BY <1>pc, <1>sp DEF Acquire, TypeOK
  <2>4. Worker # t
    BY <1>k
  <2> QED
    BY <1>un, <2>1, <2>2, <2>3, <2>4 DEF Synchronised, Calling
<1>8. Delivery'
  BY <1>un DEF Delivery, DeliveredSound
<1>9. AtMostOnce'
  BY <1>un DEF AtMostOnce
<1> QED
  BY <1>1, <1>2, <1>3, <1>4, <1>5, <1>6, <1>7, <1>8, <1>9

\* The compare_exchange from START.
LEMMA StepCasStart ==
    ASSUME ProtocolInv, NEW t \in Threads, CasStart(t)
    PROVE  ProtocolInv'
<1> USE ThreadFacts DEF ProtocolInv
<1>un. UNCHANGED <<tryValue, continuation, attached, promiseRef, continuationRef,
                 executor, context, forceSched, deleted, promise, calls, waiting,
                 task, delivered>>
  BY DEF CasStart, refs, setup
<1>pc. /\ pc[t] = "casStart"
       /\ \A u \in Threads : u # t => pc'[u] = pc[u]
       /\ \/ /\ state = "START" /\ pc'[t] = Return(t) /\ state' = Own(t)
             /\ UNCHANGED <<loaded, visible>>
          \/ /\ state # "START" /\ pc'[t] = "casDone" /\ state' = state
             /\ loaded' = [loaded EXCEPT ![t] = state]
             /\ visible' = IF WeakMemory THEN visible ELSE Acquire(t)
  BY DEF CasStart, Goto, TypeOK
<1>sp. state # "DONE" /\ state' # "DONE"
  BY <1>pc DEF Meeting, TypeOK, WorkerLabels, Own
<1>k. t \in Producers \/ t = Consumer
  BY <1>pc DEF TypeOK, WorkerLabels
<1>r. /\ Return(Consumer) = "returned"
      /\ \A p \in Producers : Return(p) = IF promise[p] = "dying" THEN "detach" ELSE "idle"
  BY DEF Return
<1>o. /\ Other(Consumer) = "ONLY_RESULT" /\ Own(Consumer) = "ONLY_CONTINUATION"
      /\ \A p \in Producers : Other(p) = "ONLY_CONTINUATION" /\ Own(p) = "ONLY_RESULT"
  BY DEF Other, Own
<1>m. state # "START" => state = Other(t)
  BY <1>pc, <1>k, <1>o DEF Meeting
<1>n. /\ t = Consumer => pc'[t] \in {"returned", "casDone"}
      /\ t \in Producers => pc'[t] \in {"casDone", "detach", "idle"}
      /\ t \in Producers /\ pc'[t] = "detach" => promise[t] = "dying"
  BY <1>pc, <1>r
<1>ty. /\ pc' \in [Threads -> ProducerLabels \cup ConsumerLabels \cup WorkerLabels]
       /\ \A r \in Producers : pc'[r] \in ProducerLabels
       /\ pc'[Consumer] \in ConsumerLabels /\ pc'[Worker] \in WorkerLabels
  BY <1>pc, <1>k, <1>n DEF CasStart, Goto, TypeOK, Scheduling, ProducerLabels, ConsumerLabels
<1>1. TypeOK'
  <2>1. loaded' \in [Threads -> {"START", "ONLY_RESULT", "ONLY_CONTINUATION", "DONE"}]
    BY <1>pc DEF TypeOK
  <2>2. visible' \in [Threads -> SUBSET {"result", "continuation"}]
    BY <1>pc DEF TypeOK, Acquire
  <2>3. state' \in {"START", "ONLY_RESULT", "ONLY_CONTINUATION", "DONE"}
    BY <1>pc, <1>k, <1>o DEF TypeOK
  <2> QED
    BY <1>un, <1>ty, <2>1, <2>2, <2>3 DEF TypeOK
<1>2. PromiseCount'
  BY <1>pc, <1>un, <1>k, <1>n, CountFrame
<1>3. OneSetter'
  <2>1. \A p \in Producers :
           /\ InSetResult(p)' => InSetResult(p)
           /\ pc'[p] = "lastPromise" => pc[p] = "lastPromise"
           /\ pc'[p] = "detach" => pc[p] = "detach" \/ promise[p] = "dying"
    BY <1>pc, <1>n DEF InSetResult
  <2>2. pc'[Consumer] = "setup" => pc[Consumer] = "setup"
    BY <1>pc, <1>n
  <2> QED
    BY <1>un, <2>1, <2>2, SetterFrame
<1>4. NotMet' /\ OneCall' /\ Guarded'
  <2>1. \A u \in Threads : pc'[u] \in CallLabels \cup {"deref"} \/ pc[u] \in CallLabels \cup {"deref"}
                           => pc'[u] = pc[u]
    BY <1>pc, <1>n, <1>k DEF CallLabels
  <2>2. pc'[Worker] = pc[Worker]
    BY <1>pc, <1>k
  <2> QED
    BY <1>un, <1>sp, <2>1, <2>2, CallFrame
<1>5. Written'
  <2>1. \A p \in Producers : InSetResult(p)' => InSetResult(p)
    BY <1>pc, <1>n DEF InSetResult
  <2>2. pc'[Consumer] \in {"scLoad", "casStart", "casDone"} => pc[Consumer] \in {"scLoad", "casStart", "casDone"}
    BY <1>pc
  <2>3. state' = "ONLY_RESULT" => tryValue \in Results
    BY <1>pc, <1>k, <1>o, <1>sp DEF Written, InSetResult
  <2>4. state' = "ONLY_CONTINUATION" => continuation = "set"
    BY <1>pc, <1>k, <1>o DEF Written
  <2> QED
    BY <1>un, <1>sp, <2>1, <2>2, <2>3, <2>4 DEF Written
<1>6. Meeting'
  <2>1. CASE state = "START"
    <3>1. t = Consumer => /\ state' = "ONLY_CONTINUATION" /\ pc'[t] = "returned"
                          /\ \A p \in Producers : pc'[p] = pc[p]
      BY <1>pc, <2>1, <1>o, <1>r
    <3>2. t \in Producers => /\ state' = "ONLY_RESULT" /\ pc'[Consumer] = pc[Consumer]
                             /\ pc'[t] \in {"detach", "idle"}
      BY <1>pc, <2>1, <1>o, <1>r
    <3>3. \A p \in Producers : pc[p] = "casStart" => t = Consumer \/ p = t
      BY <1>pc, <1>k DEF OneSetter, InSetResult
    <3>4. \A u \in Threads : pc'[u] # "casDone"
      BY <1>pc, <2>1, <1>k, <3>1, <3>2 DEF Meeting, TypeOK, WorkerLabels
    <3> QED
      BY <1>pc, <1>k, <2>1, <3>1, <3>2, <3>3, <3>4 DEF Meeting
  <2>2. CASE state # "START"
    <3>1. /\ state' = state /\ pc'[t] = "casDone" /\ state = Other(t)
          /\ loaded'[t] = state /\ \A u \in Threads : u # t => loaded'[u] = loaded[u]
      BY <1>pc, <2>2, <1>m DEF TypeOK
    <3> QED
      BY <1>pc, <1>k, <1>o, <3>1 DEF Meeting
  <2> QED
    BY <2>1, <2>2
<1>7. Synchronised'
  <2>1. ~WeakMemory /\ pc'[t] = "casDone" => visible'[t] = Both
    BY <1>pc, <1>k, <1>r DEF Acquire, Both, TypeOK
  <2>2. ~Calling(t)'
    BY <1>n, <1>k DEF Calling, CallLabels
  <2>3. \A u \in Threads : u # t => visible'[u] = visible[u] /\ pc'[u] = pc[u]
    BY <1>pc DEF Acquire, TypeOK
  <2>4. Worker # t
    BY <1>k
  <2> QED
    BY <1>un, <2>1, <2>2, <2>3, <2>4 DEF Synchronised, Calling
<1>8. Delivery'
  BY <1>un DEF Delivery, DeliveredSound
<1>9. AtMostOnce'
  BY <1>un DEF AtMostOnce
<1> QED
  BY <1>1, <1>2, <1>3, <1>4, <1>5, <1>6, <1>7, <1>8, <1>9

\* The compare_exchange to DONE always succeeds.
LEMMA StepCasDone ==
    ASSUME ProtocolInv, NEW t \in Threads, CasDone(t)
    PROVE  ProtocolInv'
<1> USE ThreadFacts DEF ProtocolInv
<1>d. state = loaded[t]
  BY DEF CasDone, Meeting
<1>un. UNCHANGED <<tryValue, continuation, attached, promiseRef, continuationRef,
                 executor, context, forceSched, deleted, promise, loaded, visible,
                 calls, waiting, task, delivered>>
  BY DEF CasDone, refs, setup, threads
<1>pc. /\ pc[t] \in {"casDone"}
       /\ \A u \in Threads : pc'[u] = IF u = t THEN "sched" ELSE pc[u]
  BY <1>d DEF CasDone, Goto, TypeOK
<1>sp. state' = "DONE"
  BY <1>d DEF CasDone
<1>k. /\ t \in Producers \/ t = Consumer
      /\ t \in Producers => state = "ONLY_CONTINUATION"
      /\ t = Consumer => state = "ONLY_RESULT"
  BY <1>pc DEF TypeOK, WorkerLabels, Meeting
<1>n. /\ delivered = <<>> /\ task = "none" /\ continuationRef = 0 /\ pc[Worker] = "idle"
      /\ \A u \in Threads : ~Calling(u) /\ pc[u] # "deref"
  BY <1>k DEF NotMet
<1>ty. /\ pc' \in [Threads -> ProducerLabels \cup ConsumerLabels \cup WorkerLabels]
       /\ \A r \in Producers : pc'[r] \in ProducerLabels
       /\ pc'[Consumer] \in ConsumerLabels /\ pc'[Worker] \in WorkerLabels
  BY <1>pc DEF CasDone, Goto, TypeOK, Scheduling, ProducerLabels, ConsumerLabels, WorkerLabels
<1>1. TypeOK'
  BY <1>un, <1>pc, <1>sp, <1>ty, RefFacts DEF TypeOK, Results, DetachOne, DerefContinuation, Acquire
<1>2. PromiseCount'
  BY <1>un, <1>pc, <1>sp, CountFrame
<1>3. OneSetter'
  BY <1>un, <1>pc, <1>sp, SetterFrame DEF InSetResult
<1>4. NotMet' /\ OneCall' /\ Guarded'
  <2>1. \A u \in Threads : (Calling(u)' <=> u = t) /\ pc'[u] # "deref"
    BY <1>pc, <1>n DEF Calling, CallLabels
  <2>2. pc'[Worker] = "idle" /\ t # Worker /\ pc'[t] = "sched"
    BY <1>pc, <1>k, <1>n
  <2>3. NotMet'
    BY <1>sp DEF NotMet
  <2>4. OneCall'
    BY <1>un, <1>n, <2>1, <2>2 DEF OneCall
  <2>5. Guarded'
    BY <1>un, <1>n, <2>1, <2>2 DEF Guarded
  <2> QED
    BY <2>3, <2>4, <2>5
<1>5. Written'
  <2>1. tryValue \in Results /\ continuation = "set"
    BY <1>pc, <1>k DEF Written, InSetResult
  <2> QED
    BY <1>un, <1>sp, <2>1 DEF Written
<1>6. Meeting'
  <2>1. pc'[Consumer] \notin {"setup", "hold", "waitSet", "scLoad", "casStart", "casDone"}
    BY <1>pc, <1>k DEF Meeting, TypeOK
  <2>2. \A p \in Producers : pc'[p] \notin {"casStart", "casDone"}
    BY <1>pc, <1>k DEF Meeting, OneSetter, InSetResult
  <2>3. pc'[Worker] # "casDone"
    BY <1>ty DEF WorkerLabels
  <2> QED
    BY <1>pc, <2>1, <2>2, <2>3 DEF Meeting
<1>7. Synchronised'
  BY <1>un, <1>pc, <1>sp DEF Synchronised, Calling, CallLabels
<1>8. Delivery'
  BY <1>un DEF Delivery, DeliveredSound
<1>9. AtMostOnce'
  BY <1>un DEF AtMostOnce
<1> QED
  BY <1>1, <1>2, <1>3, <1>4, <1>5, <1>6, <1>7, <1>8, <1>9

\* The in-place call takes one guard.
LEMMA StepScheduleInplace ==
    ASSUME ProtocolInv, NEW t \in Threads, ScheduleInplace(t)
    PROVE  ProtocolInv'
<1> USE ThreadFacts DEF ProtocolInv
<1>un. UNCHANGED <<state, tryValue, continuation, promiseRef, executor, context,
                 forceSched, deleted, promise, loaded, visible, calls, waiting,
                 task, delivered>>
  BY DEF ScheduleInplace, object, refs, setup, threads, DetachOne, DerefContinuation
<1>pc. /\ pc[t] \in {"sched"}
       /\ \A u \in Threads : pc'[u] = IF u = t THEN "run" ELSE pc[u]
  BY DEF ScheduleInplace, Goto, TypeOK
<1>sp. attached' = Inc(attached, 1) /\ continuationRef' = Inc(continuationRef, 1)
  BY DEF ScheduleInplace
<1>c. /\ t # Worker /\ Calling(t)
  BY <1>pc DEF TypeOK, WorkerLabels, Calling, CallLabels
<1>n. /\ state = "DONE" /\ delivered = <<>> /\ task = "none" /\ pc[Worker] = "idle"
      /\ \A u \in Threads : pc[u] # "deref" /\ (Calling(u) => u = t)
      /\ continuationRef = 0
  BY <1>pc, <1>c DEF NotMet, OneCall, Guarded
<1>ty. /\ pc' \in [Threads -> ProducerLabels \cup ConsumerLabels \cup WorkerLabels]
       /\ \A r \in Producers : pc'[r] \in ProducerLabels
       /\ pc'[Consumer] \in ConsumerLabels /\ pc'[Worker] \in WorkerLabels
  BY <1>pc DEF ScheduleInplace, Goto, TypeOK, Scheduling, ProducerLabels, ConsumerLabels, WorkerLabels
<1>1. TypeOK'
  BY <1>un, <1>pc, <1>sp, <1>ty, RefFacts DEF TypeOK, Results, DetachOne, DerefContinuation, Acquire
<1>2. PromiseCount'
  BY <1>un, <1>pc, <1>sp, CountFrame
<1>3. OneSetter'
  BY <1>un, <1>pc, <1>sp, SetterFrame DEF InSetResult
<1>4. NotMet' /\ OneCall' /\ Guarded'
  <2>1. \A u \in Threads : (Calling(u)' <=> u = t) /\ pc'[u] # "deref"
    BY <1>pc, <1>n DEF Calling, CallLabels
  <2>2. pc'[Worker] = "idle" /\ pc'[t] \in {"run"}
    BY <1>pc, <1>c, <1>n
  <2>3. continuationRef' = 1
    BY <1>sp, <1>n, RefFacts
  <2>4. NotMet'
    BY <1>n, <1>un DEF NotMet
  <2>5. OneCall'
    BY <1>un, <1>n, <1>c, <2>1, <2>2 DEF OneCall
  <2>6. Guarded'
    BY <1>un, <1>n, <1>c, <2>1, <2>2, <2>3 DEF Guarded
  <2> QED
    BY <2>4, <2>5, <2>6
<1>5. Written'
  BY <1>un, <1>pc, <1>sp DEF Written, InSetResult
<1>6. Meeting'
  BY <1>un, <1>pc, <1>sp DEF Meeting
<1>7. Synchronised'
  BY <1>un, <1>pc, <1>sp DEF Synchronised, Calling, CallLabels
<1>8. Delivery'
  BY <1>un DEF Delivery, DeliveredSound
<1>9. AtMostOnce'
  BY <1>un DEF AtMostOnce
<1> QED
  BY <1>1, <1>2, <1>3, <1>4, <1>5, <1>6, <1>7, <1>8, <1>9

\* The executor's path takes two guards.
LEMMA StepScheduleSubmit ==
    ASSUME ProtocolInv, NEW t \in Threads, ScheduleSubmit(t)
    PROVE  ProtocolInv'
<1> USE ThreadFacts DEF ProtocolInv
<1>un. UNCHANGED <<state, tryValue, continuation, promiseRef, executor, context,
                 forceSched, deleted, promise, loaded, visible, calls, waiting,
                 task, delivered>>
  BY DEF ScheduleSubmit, object, refs, setup, threads, DetachOne, DerefContinuation
<1>pc. /\ pc[t] \in {"sched"}
       /\ \A u \in Threads : pc'[u] = IF u = t THEN IF executor THEN "submit" ELSE "nullExecutor" ELSE pc[u]
  BY DEF ScheduleSubmit, Goto, TypeOK
<1>sp. attached' = Inc(attached, 2) /\ continuationRef' = Inc(continuationRef, 2)
  BY DEF ScheduleSubmit
<1>c. /\ t # Worker /\ Calling(t)
  BY <1>pc DEF TypeOK, WorkerLabels, Calling, CallLabels
<1>n. /\ state = "DONE" /\ delivered = <<>> /\ task = "none" /\ pc[Worker] = "idle"
      /\ \A u \in Threads : pc[u] # "deref" /\ (Calling(u) => u = t)
      /\ continuationRef = 0
  BY <1>pc, <1>c DEF NotMet, OneCall, Guarded
<1>ty. /\ pc' \in [Threads -> ProducerLabels \cup ConsumerLabels \cup WorkerLabels]
       /\ \A r \in Producers : pc'[r] \in ProducerLabels
       /\ pc'[Consumer] \in ConsumerLabels /\ pc'[Worker] \in WorkerLabels
  BY <1>pc DEF ScheduleSubmit, Goto, TypeOK, Scheduling, ProducerLabels, ConsumerLabels, WorkerLabels
<1>1. TypeOK'
  BY <1>un, <1>pc, <1>sp, <1>ty, RefFacts DEF TypeOK, Results, DetachOne, DerefContinuation, Acquire
<1>2. PromiseCount'
  BY <1>un, <1>pc, <1>sp, CountFrame
<1>3. OneSetter'
  BY <1>un, <1>pc, <1>sp, SetterFrame DEF InSetResult
<1>4. NotMet' /\ OneCall' /\ Guarded'
  <2>1. \A u \in Threads : (Calling(u)' <=> u = t) /\ pc'[u] # "deref"
    BY <1>pc, <1>n DEF Calling, CallLabels
  <2>2. pc'[Worker] = "idle" /\ pc'[t] \in {"submit", "nullExecutor"}
    BY <1>pc, <1>c, <1>n
  <2>3. continuationRef' = 2
    BY <1>sp, <1>n, RefFacts
  <2>4. NotMet'
    BY <1>n, <1>un DEF NotMet
  <2>5. OneCall'
    BY <1>un, <1>n, <1>c, <2>1, <2>2 DEF OneCall
  <2>6. Guarded'
    BY <1>un, <1>n, <1>c, <2>1, <2>2, <2>3 DEF Guarded
  <2> QED
    BY <2>4, <2>5, <2>6
<1>5. Written'
  BY <1>un, <1>pc, <1>sp DEF Written, InSetResult
<1>6. Meeting'
  BY <1>un, <1>pc, <1>sp DEF Meeting
<1>7. Synchronised'
  BY <1>un, <1>pc, <1>sp DEF Synchronised, Calling, CallLabels
<1>8. Delivery'
  BY <1>un DEF Delivery, DeliveredSound
<1>9. AtMostOnce'
  BY <1>un DEF AtMostOnce
<1> QED
  BY <1>1, <1>2, <1>3, <1>4, <1>5, <1>6, <1>7, <1>8, <1>9

\* The executor takes the closure.
LEMMA StepAccepted ==
    ASSUME ProtocolInv, NEW t \in Threads, Accepted(t)
    PROVE  ProtocolInv'
<1> USE ThreadFacts DEF ProtocolInv
<1>un. UNCHANGED <<state, tryValue, continuation, attached, promiseRef,
                 continuationRef, executor, context, forceSched, deleted,
                 promise, loaded, calls, waiting, delivered>>
  BY DEF Accepted, object, refs, setup, threads, DetachOne, DerefContinuation
<1>pc. /\ pc[t] \in {"submit"}
       /\ \A u \in Threads : pc'[u] = IF u = t THEN "deref" ELSE pc[u]
  BY DEF Accepted, Goto, TypeOK
<1>sp. task' = "queued" /\ visible' = [visible EXCEPT ![Worker] = visible[t]]
  BY DEF Accepted
<1>c. /\ t # Worker /\ Calling(t)
  BY <1>pc DEF TypeOK, WorkerLabels, Calling, CallLabels
<1>n. /\ state = "DONE" /\ delivered = <<>> /\ task = "none" /\ pc[Worker] = "idle"
      /\ \A u \in Threads : pc[u] # "deref" /\ (Calling(u) => u = t)
      /\ continuationRef = 2
  BY <1>pc, <1>c DEF NotMet, OneCall, Guarded
<1>ty. /\ pc' \in [Threads -> ProducerLabels \cup ConsumerLabels \cup WorkerLabels]
       /\ \A r \in Producers : pc'[r] \in ProducerLabels
       /\ pc'[Consumer] \in ConsumerLabels /\ pc'[Worker] \in WorkerLabels
  BY <1>pc DEF Accepted, Goto, TypeOK, Scheduling, ProducerLabels, ConsumerLabels, WorkerLabels
<1>1. TypeOK'
  BY <1>un, <1>pc, <1>sp, <1>ty, RefFacts DEF TypeOK, Results, DetachOne, DerefContinuation, Acquire
<1>2. PromiseCount'
  BY <1>un, <1>pc, <1>sp, CountFrame
<1>3. OneSetter'
  BY <1>un, <1>pc, <1>sp, SetterFrame DEF InSetResult
<1>4. NotMet' /\ OneCall' /\ Guarded'
  <2>1. \A u \in Threads : ~Calling(u)' /\ (pc'[u] = "deref" <=> u = t)
    BY <1>pc, <1>n DEF Calling, CallLabels
  <2>2. pc'[Worker] = "idle"
    BY <1>pc, <1>c, <1>n
  <2>4. NotMet'
    BY <1>n, <1>un DEF NotMet
  <2>5. OneCall'
    BY <1>un, <1>sp, <1>n, <2>1, <2>2 DEF OneCall
  <2>6. Guarded'
    BY <1>un, <1>sp, <1>n, <2>1, <2>2 DEF Guarded
  <2> QED
    BY <2>4, <2>5, <2>6
<1>5. Written'
  BY <1>un, <1>pc, <1>sp DEF Written, InSetResult
<1>6. Meeting'
  BY <1>un, <1>pc, <1>sp DEF Meeting
<1>7. Synchronised'
  <2>1. ~WeakMemory => visible[t] = Both
    BY <1>c DEF Synchronised
  <2>2. visible'[Worker] = visible[t] /\ \A u \in Threads : u # Worker => visible'[u] = visible[u]
    BY <1>sp DEF TypeOK
  <2>3. \A u \in Threads : (pc'[u] = "casDone" \/ Calling(u)') => u # Worker /\ pc[u] = "casDone"
    BY <1>pc, <1>c, <1>n DEF Calling, CallLabels
  <2> QED
    BY <2>1, <2>2, <2>3 DEF Synchronised
<1>8. Delivery'
  BY <1>un DEF Delivery, DeliveredSound
<1>9. AtMostOnce'
  BY <1>un DEF AtMostOnce
<1> QED
  BY <1>1, <1>2, <1>3, <1>4, <1>5, <1>6, <1>7, <1>8, <1>9

\* The executor refuses the closure.
LEMMA StepRejected ==
    ASSUME ProtocolInv, NEW t \in Threads, Rejected(t)
    PROVE  ProtocolInv'
<1> USE ThreadFacts DEF ProtocolInv
<1>un. UNCHANGED <<state, tryValue, promiseRef, executor, context, forceSched,
                 promise, loaded, visible, calls, waiting, task, delivered>>
  BY DEF Rejected, object, refs, setup, threads, DetachOne, DerefContinuation
<1>pc. /\ pc[t] \in {"submit"}
       /\ \A u \in Threads : pc'[u] = IF u = t THEN "run" ELSE pc[u]
  BY DEF Rejected, Goto, TypeOK
<1>sp. /\ DetachOne /\ DerefContinuation
  BY DEF Rejected
<1>c. /\ t # Worker /\ Calling(t)
  BY <1>pc DEF TypeOK, WorkerLabels, Calling, CallLabels
<1>n. /\ state = "DONE" /\ delivered = <<>> /\ task = "none" /\ pc[Worker] = "idle"
      /\ \A u \in Threads : pc[u] # "deref" /\ (Calling(u) => u = t)
      /\ continuationRef = 2
  BY <1>pc, <1>c DEF NotMet, OneCall, Guarded
<1>ty. /\ pc' \in [Threads -> ProducerLabels \cup ConsumerLabels \cup WorkerLabels]
       /\ \A r \in Producers : pc'[r] \in ProducerLabels
       /\ pc'[Consumer] \in ConsumerLabels /\ pc'[Worker] \in WorkerLabels
  BY <1>pc DEF Rejected, Goto, TypeOK, Scheduling, ProducerLabels, ConsumerLabels, WorkerLabels
<1>1. TypeOK'
  BY <1>un, <1>pc, <1>sp, <1>ty, RefFacts DEF TypeOK, Results, DetachOne, DerefContinuation, Acquire
<1>2. PromiseCount'
  BY <1>un, <1>pc, <1>sp, CountFrame
<1>3. OneSetter'
  BY <1>un, <1>pc, <1>sp, SetterFrame DEF InSetResult
<1>4. NotMet' /\ OneCall' /\ Guarded'
  <2>1. \A u \in Threads : (Calling(u)' <=> u = t) /\ pc'[u] # "deref"
    BY <1>pc, <1>n DEF Calling, CallLabels
  <2>2. pc'[Worker] = "idle" /\ pc'[t] \in {"run"}
    BY <1>pc, <1>c, <1>n
  <2>3. continuationRef' = 1
    BY <1>sp, <1>n, RefFacts, <1>n DEF DerefContinuation
  <2>4. NotMet'
    BY <1>n, <1>un DEF NotMet
  <2>5. OneCall'
    BY <1>un, <1>n, <1>c, <2>1, <2>2 DEF OneCall
  <2>6. Guarded'
    BY <1>un, <1>n, <1>c, <2>1, <2>2, <2>3 DEF Guarded
  <2> QED
    BY <2>4, <2>5, <2>6
<1>5. Written'
  <2>1. continuation' = continuation
    BY <1>sp, <1>n DEF DerefContinuation
  <2> QED
    BY <1>un, <1>pc, <2>1 DEF Written, InSetResult
<1>6. Meeting'
  BY <1>un, <1>pc, <1>sp DEF Meeting
<1>7. Synchronised'
  BY <1>un, <1>pc, <1>sp DEF Synchronised, Calling, CallLabels
<1>8. Delivery'
  BY <1>un DEF Delivery, DeliveredSound
<1>9. AtMostOnce'
  BY <1>un DEF AtMostOnce
<1> QED
  BY <1>1, <1>2, <1>3, <1>4, <1>5, <1>6, <1>7, <1>8, <1>9

\* A thread of the executor takes the closure.
LEMMA StepWorkerTakes ==
    ASSUME ProtocolInv, WorkerTakes
    PROVE  ProtocolInv'
<1> USE ThreadFacts DEF ProtocolInv
<1>un. UNCHANGED <<state, tryValue, continuation, attached, promiseRef,
                 continuationRef, executor, context, forceSched, deleted,
                 promise, loaded, visible, calls, waiting, delivered>>
  BY DEF WorkerTakes, object, refs, setup, threads, DetachOne, DerefContinuation
<1>pc. /\ pc[Worker] \in {"idle"}
       /\ \A u \in Threads : pc'[u] = IF u = Worker THEN "run" ELSE pc[u]
  BY DEF WorkerTakes, Goto, TypeOK
<1>sp. task = "queued" /\ task' = "taken"
  BY DEF WorkerTakes
<1>n. /\ state = "DONE" /\ delivered = <<>> /\ \A u \in Threads : ~Calling(u)
  BY <1>sp DEF NotMet, OneCall
<1>ty. /\ pc' \in [Threads -> ProducerLabels \cup ConsumerLabels \cup WorkerLabels]
       /\ \A r \in Producers : pc'[r] \in ProducerLabels
       /\ pc'[Consumer] \in ConsumerLabels /\ pc'[Worker] \in WorkerLabels
  BY <1>pc DEF WorkerTakes, Goto, TypeOK, Scheduling, ProducerLabels, ConsumerLabels, WorkerLabels
<1>1. TypeOK'
  BY <1>un, <1>pc, <1>sp, <1>ty, RefFacts DEF TypeOK, Results, DetachOne, DerefContinuation, Acquire
<1>2. PromiseCount'
  BY <1>un, <1>pc, <1>sp, CountFrame
<1>3. OneSetter'
  BY <1>un, <1>pc, <1>sp, SetterFrame DEF InSetResult
<1>4. NotMet' /\ OneCall' /\ Guarded'
  <2>1. \A u \in Threads : (Calling(u)' <=> u = Worker) /\ (pc'[u] = "deref" <=> pc[u] = "deref")
    BY <1>pc, <1>n DEF Calling, CallLabels
  <2>2. pc'[Worker] = "run"
    BY <1>pc
  <2>4. NotMet'
    BY <1>n, <1>un DEF NotMet
  <2>5. OneCall'
    BY <1>un, <1>sp, <1>n, <2>1, <2>2 DEF OneCall
  <2>6. Guarded'
    BY <1>un, <1>sp, <1>n, <2>1, <2>2 DEF Guarded
  <2> QED
    BY <2>4, <2>5, <2>6
<1>5. Written'
  BY <1>un, <1>pc, <1>sp DEF Written, InSetResult
<1>6. Meeting'
  BY <1>un, <1>pc, <1>sp DEF Meeting
<1>7. Synchronised'
  BY <1>un, <1>pc, <1>sp DEF Synchronised, Calling, CallLabels
<1>8. Delivery'
  BY <1>un DEF Delivery, DeliveredSound
<1>9. AtMostOnce'
  BY <1>un DEF AtMostOnce
<1> QED
  BY <1>1, <1>2, <1>3, <1>4, <1>5, <1>6, <1>7, <1>8, <1>9

\* The call itself.
LEMMA StepRunContinuation ==
    ASSUME ProtocolInv, NEW t \in Threads, RunContinuation(t)
    PROVE  ProtocolInv'
<1> USE ThreadFacts DEF ProtocolInv
<1>un. UNCHANGED <<state, continuation, attached, promiseRef, continuationRef,
                 executor, context, forceSched, deleted, promise, loaded, visible,
                 calls, waiting, task>>
  BY DEF RunContinuation, refs, setup, threads
<1>pc. /\ pc[t] \in {"run"}
       /\ \A u \in Threads : pc'[u] = IF u = t THEN "deref" ELSE pc[u]
  BY DEF RunContinuation, Goto, TypeOK
<1>n. /\ state = "DONE" /\ delivered = <<>> /\ task # "queued" /\ Calling(t)
      /\ \A u \in Threads : Calling(u) => u = t
  BY <1>pc DEF NotMet, OneCall, Calling, CallLabels
<1>v. tryValue' = "moved" /\ tryValue \in Results /\ continuation = "set"
  BY <1>n DEF RunContinuation, Written
<1>d. PICK c \in Seen(t, "continuation", continuation, "none"),
           v \in Seen(t, "result", tryValue, "nothing") :
           delivered' = Append(delivered, [cont |-> c, value |-> v])
  BY DEF RunContinuation
<1>e. delivered' = <<[cont |-> c, value |-> v]>>
  BY <1>d, <1>n
<1>f. /\ c \in {"none", "set"} /\ v \in Results \cup {"nothing"}
      /\ ~WeakMemory => c = "set" /\ v \in Results
  BY <1>d, <1>v, <1>n DEF Seen, Synchronised, Both
<1>ty. /\ pc' \in [Threads -> ProducerLabels \cup ConsumerLabels \cup WorkerLabels]
       /\ \A r \in Producers : pc'[r] \in ProducerLabels
       /\ pc'[Consumer] \in ConsumerLabels /\ pc'[Worker] \in WorkerLabels
  BY <1>pc DEF RunContinuation, Goto, TypeOK, Scheduling, ProducerLabels, ConsumerLabels, WorkerLabels
<1>1. TypeOK'
  <2>1. delivered' \in Seq([cont : {"none", "set", "destroyed"},
                            value : Results \cup {"nothing", "moved"}])
    BY <1>e, <1>f
  <2> QED
    BY <1>un, <1>ty, <1>v, <2>1 DEF TypeOK
<1>2. PromiseCount'
  BY <1>un, <1>pc, CountFrame
<1>3. OneSetter'
  BY <1>un, <1>pc, SetterFrame DEF InSetResult
<1>4. NotMet' /\ OneCall' /\ Guarded'
  <2>1. \A u \in Threads : ~Calling(u)'
    BY <1>pc, <1>n DEF Calling, CallLabels
  <2>2. delivered' # <<>>
    BY <1>e
  <2>3. (pc'[Worker] = "idle" <=> pc[Worker] = "idle") /\ pc'[Worker] # "run"
    BY <1>pc, <1>n DEF Calling, CallLabels
  <2>4. NotMet'
    BY <1>n, <1>un DEF NotMet
  <2>5. OneCall'
    BY <1>un, <1>n, <2>1, <2>3 DEF OneCall
  <2>6. Guarded'
    BY <1>un, <1>n, <2>1, <2>2, <2>3 DEF Guarded
  <2> QED
    BY <2>4, <2>5, <2>6
<1>5. Written'
  <2>1. delivered' # <<>>
    BY <1>e
  <2> QED
    BY <1>un, <1>pc, <1>n, <2>1 DEF Written
<1>6. Meeting'
  BY <1>un, <1>pc DEF Meeting
<1>7. Synchronised'
  BY <1>un, <1>pc DEF Synchronised, Calling, CallLabels
<1>8. Delivery'
  BY <1>e, <1>f DEF Delivery, DeliveredSound
<1>9. AtMostOnce'
  BY <1>e DEF AtMostOnce
<1> QED
  BY <1>1, <1>2, <1>3, <1>4, <1>5, <1>6, <1>7, <1>8, <1>9

\* A guard is destroyed: derefContinuation().
LEMMA StepDerefGuard ==
    ASSUME ProtocolInv, NEW t \in Threads, DerefGuard(t)
    PROVE  ProtocolInv'
<1> USE ThreadFacts DEF ProtocolInv
<1>un. UNCHANGED <<state, tryValue, attached, promiseRef, executor, context,
                 forceSched, deleted, promise, loaded, visible, calls, waiting,
                 task, delivered>>
  BY DEF DerefGuard, object, refs, setup, threads, DetachOne, DerefContinuation
<1>pc. /\ pc[t] \in {"deref"}
       /\ \A u \in Threads : pc'[u] = IF u = t THEN "dropGuard" ELSE pc[u]
  BY DEF DerefGuard, Goto, TypeOK
<1>sp. DerefContinuation
  BY DEF DerefGuard
<1>n. /\ state = "DONE" /\ \A u \in Threads : Calling(u) => u # t /\ u = Worker
  BY <1>pc DEF NotMet, Guarded, Calling, CallLabels
<1>g. delivered = <<>> => /\ task = "queued" \/ pc[Worker] = "run"
                          /\ continuationRef = 2
                          /\ \A u \in Threads : pc[u] = "deref" => u = t
  BY <1>pc DEF Guarded
<1>s. delivered = <<>> => continuation' = continuation /\ continuationRef' = 1
  BY <1>sp, <1>g, RefFacts DEF DerefContinuation
<1>ty. /\ pc' \in [Threads -> ProducerLabels \cup ConsumerLabels \cup WorkerLabels]
       /\ \A r \in Producers : pc'[r] \in ProducerLabels
       /\ pc'[Consumer] \in ConsumerLabels /\ pc'[Worker] \in WorkerLabels
  BY <1>pc DEF DerefGuard, Goto, TypeOK, Scheduling, ProducerLabels, ConsumerLabels, WorkerLabels
<1>1. TypeOK'
  BY <1>un, <1>pc, <1>sp, <1>ty, RefFacts DEF TypeOK, Results, DetachOne, DerefContinuation, Acquire
<1>2. PromiseCount'
  BY <1>un, <1>pc, <1>sp, CountFrame
<1>3. OneSetter'
  BY <1>un, <1>pc, <1>sp, SetterFrame DEF InSetResult
<1>4. NotMet' /\ OneCall' /\ Guarded'
  <2>1. \A u \in Threads : (Calling(u)' <=> Calling(u)) /\ (pc'[u] = "deref" <=> pc[u] = "deref" /\ u # t)
    BY <1>pc DEF Calling, CallLabels
  <2>2. /\ pc'[Worker] = "idle" <=> pc[Worker] = "idle"
        /\ pc'[Worker] = "run" <=> pc[Worker] = "run"
    BY <1>pc
  <2>3. task = "queued" \/ pc[Worker] = "run" => delivered = <<>>
    BY DEF OneCall, Calling, CallLabels
  <2>4. NotMet'
    BY <1>n, <1>un DEF NotMet
  <2>5. OneCall'
    BY <1>un, <2>1, <2>2 DEF OneCall
  <2>6. Guarded'
    BY <1>un, <1>n, <1>g, <1>s, <2>1, <2>2, <2>3 DEF Guarded
  <2> QED
    BY <2>4, <2>5, <2>6
<1>5. Written'
  BY <1>un, <1>pc, <1>n, <1>s DEF Written, InSetResult, Meeting
<1>6. Meeting'
  BY <1>un, <1>pc, <1>sp DEF Meeting
<1>7. Synchronised'
  BY <1>un, <1>pc, <1>sp DEF Synchronised, Calling, CallLabels
<1>8. Delivery'
  BY <1>un DEF Delivery, DeliveredSound
<1>9. AtMostOnce'
  BY <1>un DEF AtMostOnce
<1> QED
  BY <1>1, <1>2, <1>3, <1>4, <1>5, <1>6, <1>7, <1>8, <1>9

\* A guard is destroyed: detachOne().
LEMMA StepDropGuard ==
    ASSUME ProtocolInv, NEW t \in Threads, DropGuard(t)
    PROVE  ProtocolInv'
<1> USE ThreadFacts DEF ProtocolInv
<1>un. UNCHANGED <<state, tryValue, continuation, promiseRef, continuationRef,
                 executor, context, forceSched, promise, loaded, visible, calls,
                 waiting, task, delivered>>
  BY DEF DropGuard, object, refs, setup, threads, DetachOne, DerefContinuation
<1>pc. /\ pc[t] = "dropGuard" /\ pc'[t] = Return(t)
       /\ \A u \in Threads : u # t => pc'[u] = pc[u]
  BY DEF DropGuard, Goto, TypeOK
<1>sp. DetachOne
  BY DEF DropGuard
<1>r. /\ Return(Consumer) = "returned" /\ Return(Worker) = "done"
      /\ \A p \in Producers : Return(p) = IF promise[p] = "dying" THEN "detach" ELSE "idle"
  BY DEF Return
<1>n. /\ t = Consumer => pc'[t] = "returned"
      /\ t = Worker => pc'[t] = "done"
      /\ t \in Producers => pc'[t] \in {"detach", "idle"}
      /\ t \in Producers /\ pc'[t] = "detach" => promise[t] = "dying"
  BY <1>pc, <1>r
<1>ty. /\ pc' \in [Threads -> ProducerLabels \cup ConsumerLabels \cup WorkerLabels]
       /\ \A r \in Producers : pc'[r] \in ProducerLabels
       /\ pc'[Consumer] \in ConsumerLabels /\ pc'[Worker] \in WorkerLabels
  BY <1>pc, <1>n DEF DropGuard, Goto, TypeOK, Scheduling, ProducerLabels, ConsumerLabels, WorkerLabels
<1>1. TypeOK'
  BY <1>un, <1>pc, <1>sp, <1>ty, RefFacts DEF TypeOK, Results, DetachOne, DerefContinuation, Acquire
<1>2. PromiseCount'
  BY <1>pc, <1>un, <1>n, CountFrame
<1>3. OneSetter'
  <2>1. \A p \in Producers :
           /\ InSetResult(p)' => InSetResult(p)
           /\ pc'[p] = "lastPromise" => pc[p] = "lastPromise"
           /\ pc'[p] = "detach" => pc[p] = "detach" \/ promise[p] = "dying"
    BY <1>pc, <1>n DEF InSetResult
  <2>2. pc'[Consumer] = "setup" => pc[Consumer] = "setup"
    BY <1>pc, <1>n
  <2> QED
    BY <1>un, <2>1, <2>2, SetterFrame
<1>4. NotMet' /\ OneCall' /\ Guarded'
  <2>1. \A u \in Threads : pc'[u] \in CallLabels \cup {"deref"} \/ pc[u] \in CallLabels \cup {"deref"}
                           => pc'[u] = pc[u]
    BY <1>pc, <1>n DEF CallLabels
  <2>2. pc'[Worker] = "idle" <=> pc[Worker] = "idle"
    BY <1>pc, <1>n
  <2> QED
    BY <1>un, <2>1, <2>2, CallFrame
<1>5. Written'
  <2>1. \A p \in Producers : InSetResult(p)' => InSetResult(p)
    BY <1>pc, <1>n DEF InSetResult
  <2>2. pc'[Consumer] \in {"scLoad", "casStart", "casDone"} => pc[Consumer] \in {"scLoad", "casStart", "casDone"}
    BY <1>pc, <1>n
  <2> QED
    BY <1>un, <2>1, <2>2 DEF Written
<1>6. Meeting'
  <2>1. \A u \in Threads : u = t => pc'[u] \in {"returned", "done", "detach", "idle"}
    BY <1>n
  <2> QED
    BY <1>pc, <1>un, <2>1 DEF Meeting
<1>7. Synchronised'
  <2>1. \A u \in Threads : u = t => pc'[u] \in {"returned", "done", "detach", "idle"}
    BY <1>n
  <2> QED
    BY <1>pc, <1>un, <2>1 DEF Synchronised, Calling, CallLabels
<1>8. Delivery'
  BY <1>un DEF Delivery, DeliveredSound
<1>9. AtMostOnce'
  BY <1>un DEF AtMostOnce
<1> QED
  BY <1>1, <1>2, <1>3, <1>4, <1>5, <1>6, <1>7, <1>8, <1>9

\* The end of ~Promise.
LEMMA StepDropPromise ==
    ASSUME ProtocolInv, NEW p \in Producers, DropPromise(p)
    PROVE  ProtocolInv'
<1> USE ThreadFacts DEF ProtocolInv
<1>un. UNCHANGED <<state, tryValue, continuation, promiseRef, continuationRef,
                 executor, context, forceSched, loaded, visible, calls, waiting,
                 task, delivered>>
  BY DEF DropPromise, object, refs, setup, threads, DetachOne, DerefContinuation
<1>pc. /\ pc[p] \in {"detach"}
       /\ \A u \in Threads : pc'[u] = IF u = p THEN "done" ELSE pc[u]
  BY DEF DropPromise, Goto, TypeOK
<1>sp. promise' = [promise EXCEPT ![p] = "gone"] /\ DetachOne
  BY DEF DropPromise
<1>h. promise[p] = "dying"
  BY <1>pc DEF OneSetter
<1>ty. /\ pc' \in [Threads -> ProducerLabels \cup ConsumerLabels \cup WorkerLabels]
       /\ \A r \in Producers : pc'[r] \in ProducerLabels
       /\ pc'[Consumer] \in ConsumerLabels /\ pc'[Worker] \in WorkerLabels
  BY <1>pc DEF DropPromise, Goto, TypeOK, Scheduling, ProducerLabels, ConsumerLabels, WorkerLabels
<1>1. TypeOK'
  BY <1>un, <1>pc, <1>sp, <1>ty, RefFacts DEF TypeOK, Results, DetachOne, DerefContinuation, Acquire
<1>2. PromiseCount'
  <2>1. Held' = Held
    BY <1>sp, <1>h DEF Held, TypeOK
  <2> QED
    BY <2>1, <1>pc, <1>un DEF PromiseCount
<1>3. OneSetter'
  <2>1. /\ \A q \in Producers : q # p => promise'[q] = promise[q] /\ pc'[q] = pc[q]
        /\ promise'[p] = "gone" /\ pc'[p] = "done"
    BY <1>pc, <1>sp DEF TypeOK
  <2>2. \A q \in Producers : (InSetResult(q)' => InSetResult(q)) /\ (Breaking(q)' => Breaking(q))
    BY <2>1 DEF InSetResult, Breaking
  <2>3. \A q \in Producers : promise'[q] = "held" => promise[q] = "held"
    BY <2>1
  <2>4. \A q \in Producers : InSetResult(q)' => q # p
    BY <2>1 DEF InSetResult
  <2>5. pc'[Consumer] = pc[Consumer]
    BY <1>pc
  <2> QED
    BY <2>1, <2>2, <2>3, <2>4, <2>5 DEF OneSetter
<1>4. NotMet' /\ OneCall' /\ Guarded'
  BY <1>un, <1>pc, <1>sp, CallFrame DEF CallLabels
<1>5. Written'
  BY <1>un, <1>pc, <1>sp DEF Written, InSetResult
<1>6. Meeting'
  BY <1>un, <1>pc, <1>sp DEF Meeting
<1>7. Synchronised'
  BY <1>un, <1>pc, <1>sp DEF Synchronised, Calling, CallLabels
<1>8. Delivery'
  BY <1>un DEF Delivery, DeliveredSound
<1>9. AtMostOnce'
  BY <1>un DEF AtMostOnce
<1> QED
  BY <1>1, <1>2, <1>3, <1>4, <1>5, <1>6, <1>7, <1>8, <1>9

\* wait() returns.
LEMMA StepWaitDone ==
    ASSUME ProtocolInv, WaitDone
    PROVE  ProtocolInv'
<1> USE ThreadFacts DEF ProtocolInv
<1>un. UNCHANGED <<state, tryValue, continuation, attached, promiseRef,
                 continuationRef, executor, context, forceSched, deleted,
                 promise, loaded, visible, calls, waiting, task, delivered>>
  BY DEF WaitDone, object, refs, setup, threads, DetachOne, DerefContinuation
<1>pc. /\ pc[Consumer] \in {"returned"}
       /\ \A u \in Threads : pc'[u] = IF u = Consumer THEN "dropFuture" ELSE pc[u]
  BY DEF WaitDone, Goto, TypeOK
<1>ty. /\ pc' \in [Threads -> ProducerLabels \cup ConsumerLabels \cup WorkerLabels]
       /\ \A r \in Producers : pc'[r] \in ProducerLabels
       /\ pc'[Consumer] \in ConsumerLabels /\ pc'[Worker] \in WorkerLabels
  BY <1>pc DEF WaitDone, Goto, TypeOK, Scheduling, ProducerLabels, ConsumerLabels, WorkerLabels
<1>1. TypeOK'
  BY <1>un, <1>pc, <1>ty, RefFacts DEF TypeOK, Results, DetachOne, DerefContinuation, Acquire
<1>2. PromiseCount'
  BY <1>un, <1>pc, CountFrame
<1>3. OneSetter'
  BY <1>un, <1>pc, SetterFrame DEF InSetResult
<1>4. NotMet' /\ OneCall' /\ Guarded'
  BY <1>un, <1>pc, CallFrame DEF CallLabels
<1>5. Written'
  BY <1>un, <1>pc DEF Written, InSetResult
<1>6. Meeting'
  BY <1>un, <1>pc DEF Meeting
<1>7. Synchronised'
  BY <1>un, <1>pc DEF Synchronised, Calling, CallLabels
<1>8. Delivery'
  BY <1>un DEF Delivery, DeliveredSound
<1>9. AtMostOnce'
  BY <1>un DEF AtMostOnce
<1> QED
  BY <1>1, <1>2, <1>3, <1>4, <1>5, <1>6, <1>7, <1>8, <1>9

\* ~Future.
LEMMA StepDropFuture ==
    ASSUME ProtocolInv, DropFuture
    PROVE  ProtocolInv'
<1> USE ThreadFacts DEF ProtocolInv
<1>un. UNCHANGED <<state, tryValue, continuation, promiseRef, continuationRef,
                 executor, context, forceSched, promise, loaded, visible, calls,
                 waiting, task, delivered>>
  BY DEF DropFuture, object, refs, setup, threads, DetachOne, DerefContinuation
<1>pc. /\ pc[Consumer] \in {"hold", "dropFuture"}
       /\ \A u \in Threads : pc'[u] = IF u = Consumer THEN "done" ELSE pc[u]
  BY DEF DropFuture, Goto, TypeOK
<1>sp. DetachOne
  BY DEF DropFuture
<1>ty. /\ pc' \in [Threads -> ProducerLabels \cup ConsumerLabels \cup WorkerLabels]
       /\ \A r \in Producers : pc'[r] \in ProducerLabels
       /\ pc'[Consumer] \in ConsumerLabels /\ pc'[Worker] \in WorkerLabels
  BY <1>pc DEF DropFuture, Goto, TypeOK, Scheduling, ProducerLabels, ConsumerLabels, WorkerLabels
<1>1. TypeOK'
  BY <1>un, <1>pc, <1>sp, <1>ty, RefFacts DEF TypeOK, Results, DetachOne, DerefContinuation, Acquire
<1>2. PromiseCount'
  BY <1>un, <1>pc, <1>sp, CountFrame
<1>3. OneSetter'
  BY <1>un, <1>pc, <1>sp, SetterFrame DEF InSetResult
<1>4. NotMet' /\ OneCall' /\ Guarded'
  BY <1>un, <1>pc, <1>sp, CallFrame DEF CallLabels
<1>5. Written'
  BY <1>un, <1>pc, <1>sp DEF Written, InSetResult
<1>6. Meeting'
  BY <1>un, <1>pc, <1>sp DEF Meeting
<1>7. Synchronised'
  BY <1>un, <1>pc, <1>sp DEF Synchronised, Calling, CallLabels
<1>8. Delivery'
  BY <1>un DEF Delivery, DeliveredSound
<1>9. AtMostOnce'
  BY <1>un DEF AtMostOnce
<1> QED
  BY <1>1, <1>2, <1>3, <1>4, <1>5, <1>6, <1>7, <1>8, <1>9

----
\* No continuation, no result, one Promise and one Future: the invariant holds at first.
LEMMA InitProtocol == Init => ProtocolInv
<1> SUFFICES ASSUME Init PROVE ProtocolInv
  OBVIOUS
<1> USE ThreadFacts DEF Init
<1>1. \A t \in Threads : pc[t] = IF t = Consumer THEN "setup" ELSE "idle"
  OBVIOUS
<1>2. TypeOK
  <2>1. pc \in [Threads -> ProducerLabels \cup ConsumerLabels \cup WorkerLabels]
    BY DEF ProducerLabels, ConsumerLabels, WorkerLabels
  <2>2. /\ \A p \in Producers : pc[p] \in ProducerLabels
        /\ pc[Consumer] \in ConsumerLabels /\ pc[Worker] \in WorkerLabels
    BY <1>1 DEF ProducerLabels, ConsumerLabels, WorkerLabels
  <2>3. visible \in [Threads -> SUBSET {"result", "continuation"}]
    OBVIOUS
  <2>4. attached \in 0 .. RefMod - 1
    <3>1. attached = 2 + Parked /\ Parked \in Nat
      BY BoundsAssumption
    <3> HIDE DEF Init
    <3> QED
      BY <3>1, ParkedAssumption DEF RefMod
  <2>5. delivered \in Seq([cont : {"none", "set", "destroyed"},
                           value : Results \cup {"nothing", "moved"}])
    OBVIOUS
  <2>6. calls \in [Producers -> 0 .. MaxCalls] /\ promiseRef \in Nat
    BY BoundsAssumption
  <2>7. continuationRef \in 0 .. RefMod - 1
    BY DEF RefMod
  <2>8. {executor, context, forceSched, deleted, waiting} \subseteq BOOLEAN
    OBVIOUS
  <2> QED
    BY <2>1, <2>2, <2>3, <2>4, <2>5, <2>6, <2>7, <2>8 DEF TypeOK
<1>3. PromiseCount
  <2>1. Held = {}
    BY DEF Held
  <2>2. Cardinality(Held) = 0
    BY <2>1, FS_EmptySet
  <2> QED
    BY <1>1, <2>2, BoundsAssumption DEF PromiseCount
<1>4. OneSetter
  BY <1>1 DEF OneSetter, Breaking, InSetResult
<1>5. NotMet /\ OneCall /\ Guarded
  BY <1>1 DEF NotMet, OneCall, Guarded, Calling, CallLabels
<1>6. Written /\ Meeting /\ Synchronised
  BY <1>1 DEF Written, Meeting, Synchronised, Calling, CallLabels, InSetResult
<1>7. Delivery /\ AtMostOnce
  BY DEF Delivery, AtMostOnce, DeliveredSound
<1> QED
  BY <1>2, <1>3, <1>4, <1>5, <1>6, <1>7 DEF ProtocolInv

\* Every step preserves the invariant.
LEMMA StepProtocol == ProtocolInv /\ [Next]_vars => ProtocolInv'
<1> SUFFICES ASSUME ProtocolInv, [Next]_vars PROVE ProtocolInv'
  OBVIOUS
<1>1. ASSUME NEW p \in Producers, ProducerStep(p)
      PROVE  ProtocolInv'
  BY <1>1, StepDetachPromise, StepBreakPromise, StepDropPromise, StepSetValue,
     StepCopyPromise DEF ProducerStep
<1>2. ASSUME ConsumerStep
      PROVE  ProtocolInv'
  BY <1>2, StepVia, StepSetForceSched, StepCheckout, StepHandOut, StepThen,
     StepWaitCheck, StepWaitSet, StepWaitDone, StepDropFuture DEF ConsumerStep
<1>3. ASSUME NEW t \in Threads, ThreadStep(t)
      PROVE  ProtocolInv'
  BY <1>3, StepLoadState, StepCasStart, StepCasDone, StepScheduleInplace,
     StepScheduleSubmit, StepAccepted, StepRejected, StepRunContinuation,
     StepDerefGuard, StepDropGuard DEF ThreadStep
<1>4. CASE UNCHANGED vars
  <2>1. /\ UNCHANGED <<state, tryValue, continuation, attached, promiseRef,
                       continuationRef, executor, context, forceSched, deleted>>
        /\ UNCHANGED <<promise, pc, loaded, visible, calls, waiting, task, delivered>>
    BY <1>4 DEF vars, object, threads
  <2>2. TypeOK' /\ PromiseCount' /\ OneSetter'
    BY <2>1 DEF ProtocolInv, TypeOK, PromiseCount, Held, OneSetter, Breaking, InSetResult
  <2>3. NotMet' /\ OneCall' /\ Guarded'
    BY <2>1 DEF ProtocolInv, NotMet, OneCall, Guarded, Calling
  <2>4. Written' /\ Meeting' /\ Synchronised' /\ Delivery' /\ AtMostOnce'
    BY <2>1 DEF ProtocolInv, Written, Meeting, Synchronised, Delivery, AtMostOnce,
       DeliveredSound, InSetResult, Calling
  <2> QED
    BY <2>2, <2>3, <2>4 DEF ProtocolInv
<1> QED
  BY <1>1, <1>2, <1>3, <1>4, StepWorkerTakes DEF Next, Terminated

\* The protocol invariant holds in every reachable state.
THEOREM FutureProtocol == Spec => []ProtocolInv
BY InitProtocol, StepProtocol, PTL DEF Spec

\* FutureState: the variables keep their types; in particular _promiseRef never wraps
\* below zero.
THEOREM FutureTypes == Spec => []TypeOK
<1>1. ProtocolInv => TypeOK
  BY DEF ProtocolInv
<1> QED
  BY <1>1, FutureProtocol, PTL

\* scheduleContinuation: on any machine the continuation is called at most once.
THEOREM FutureCallsOnce == Spec => []AtMostOnce
<1>1. ProtocolInv => AtMostOnce
  BY DEF ProtocolInv
<1> QED
  BY <1>1, FutureProtocol, PTL

\* Where compare_exchange acquires, the call finds the continuation and a result.
THEOREM FutureDelivers == ~WeakMemory => (Spec => []DeliveredSound)
<1>1. ~WeakMemory /\ ProtocolInv => DeliveredSound
  BY DEF ProtocolInv, Delivery
<1>2. CASE WeakMemory
  BY <1>2
<1>3. CASE ~WeakMemory
  <2>1. ProtocolInv => DeliveredSound
    BY <1>1, <1>3
  <2> QED
    BY <2>1, FutureProtocol, PTL
<1> QED
  BY <1>2, <1>3

\* setResult and setContinuation: the assertion on the fall-through holds.
THEOREM FutureFallthrough == Spec => []FallthroughAssertHolds
<1>1. ProtocolInv => FallthroughAssertHolds
  <2> SUFFICES ASSUME ProtocolInv, NEW t \in Threads, pc[t] = "casDone"
               PROVE  state = Other(t) /\ loaded[t] = state
    BY DEF FallthroughAssertHolds
  <2>1. t \in Producers \/ t = Consumer
    BY ThreadFacts DEF ProtocolInv, TypeOK, WorkerLabels
  <2> QED
    BY <2>1, ThreadFacts DEF ProtocolInv, Meeting, Other
<1> QED
  BY <1>1, FutureProtocol, PTL

----
(* FutureState implements OneShot *)

\* A step that keeps _state, the call and a published result is no step of OneShot.
LEMMA OneShotKept ==
    ASSUME state' = state, delivered' = delivered, tryValue' = tryValue \/ ~HasResult
    PROVE  UNCHANGED Promised!oneShotVars
<1>1. HasResult' <=> HasResult
  BY DEF HasResult
<1>2. Published' = Published
  BY <1>1 DEF Published
<1>3. (state \in {"ONLY_CONTINUATION", "DONE"})' = (state \in {"ONLY_CONTINUATION", "DONE"})
  OBVIOUS
<1>4. (IF delivered = <<>> THEN "nothing" ELSE delivered[1].value)' =
        (IF delivered = <<>> THEN "nothing" ELSE delivered[1].value)
  OBVIOUS
<1> QED
  BY <1>2, <1>3, <1>4 DEF Promised!oneShotVars

\* The step that publishes a result, and the one that publishes a continuation.
LEMMA OneShotMeets ==
    ASSUME delivered = <<>>, delivered' = <<>>, tryValue' = tryValue,
           \/ state = "START" /\ state' \in {"ONLY_CONTINUATION", "ONLY_RESULT"}
           \/ state \in {"ONLY_CONTINUATION", "ONLY_RESULT"} /\ state' = "DONE",
           tryValue \in Results \/ (state = "START" /\ state' = "ONLY_CONTINUATION")
    PROVE  Promised!Next
<1>1. Published = (IF state \in {"ONLY_RESULT", "DONE"} THEN tryValue ELSE "nothing")
  BY DEF Published, HasResult
<1>2. Published' = (IF state' \in {"ONLY_RESULT", "DONE"} THEN tryValue ELSE "nothing")
  BY DEF Published, HasResult
<1> DEFINE out == IF delivered = <<>> THEN "nothing" ELSE delivered[1].value
<1>3. out' = out
  OBVIOUS
<1>4. CASE state = "START" /\ state' = "ONLY_CONTINUATION"
  <2>1. Promised!Attach
    BY <1>1, <1>2, <1>3, <1>4 DEF Promised!Attach
  <2> QED
    BY <2>1 DEF Promised!Next
<1>5. CASE state = "ONLY_RESULT" /\ state' = "DONE"
  <2>1. Promised!Attach
    BY <1>1, <1>2, <1>3, <1>5 DEF Promised!Attach
  <2> QED
    BY <2>1 DEF Promised!Next
<1>6. CASE (state = "START" /\ state' = "ONLY_RESULT") \/ (state = "ONLY_CONTINUATION" /\ state' = "DONE")
  <2>1. tryValue \in Results
    BY <1>6
  <2>2. (state \in {"ONLY_CONTINUATION", "DONE"})' = (state \in {"ONLY_CONTINUATION", "DONE"})
    BY <1>6
  <2>3. Promised!Resolve(tryValue)
    BY <1>1, <1>2, <1>3, <1>6, <2>2 DEF Promised!Resolve
  <2> QED
    BY <2>1, <2>3 DEF Promised!Next
<1> QED
  BY <1>4, <1>5, <1>6

\* Every step is a step of OneShot or none: the accesses of _state that succeed resolve
\* and attach, and the call delivers.
LEMMA StepOneShot ==
    ASSUME ChecksResult, ~WeakMemory, ProtocolInv, [Next]_vars
    PROVE  [Promised!Next]_(Promised!oneShotVars)
<1> USE ThreadFacts DEF ProtocolInv
<1> SUFFICES ASSUME ~(UNCHANGED Promised!oneShotVars) PROVE Promised!Next
  OBVIOUS
<1>0. ~(state' = state /\ delivered' = delivered /\ (tryValue' = tryValue \/ ~HasResult))
  BY OneShotKept
<1>1. ASSUME NEW p \in Producers, ProducerStep(p) PROVE FALSE
  BY <1>0, <1>1 DEF ProducerStep, DetachPromise, BreakPromise, DropPromise, SetValue,
                    CopyPromise
<1>2. ASSUME ConsumerStep PROVE FALSE
  BY <1>0, <1>2 DEF ConsumerStep, Via, SetForceSched, Checkout, HandOut, Then, WaitCheck,
                    WaitSet, WaitDone, DropFuture, object
<1>3. ASSUME WorkerTakes \/ UNCHANGED vars PROVE FALSE
  BY <1>0, <1>3 DEF WorkerTakes, vars, object
<1>4. ASSUME NEW t \in Threads, ThreadStep(t) PROVE Promised!Next
  <2>1. ASSUME LoadState(t) \/ ScheduleInplace(t) \/ ScheduleSubmit(t) \/ Accepted(t)
               \/ Rejected(t) \/ DerefGuard(t) \/ DropGuard(t)
        PROVE  FALSE
    BY <1>0, <2>1 DEF LoadState, ScheduleInplace, ScheduleSubmit, Accepted, Rejected,
                      DerefGuard, DropGuard, object
  <2>2. CASE CasStart(t)
    <3>1. state = "START" /\ state' = Own(t) /\ tryValue' = tryValue /\ delivered' = delivered
      BY <1>0, <2>2 DEF CasStart
    <3>2. delivered = <<>>
      BY <3>1 DEF NotMet
    <3>3. t \in Producers \/ t = Consumer
      BY <2>2 DEF CasStart, TypeOK, WorkerLabels
    <3>4. t \in Producers => tryValue \in Results /\ state' = "ONLY_RESULT"
      BY <2>2, <3>1 DEF CasStart, Written, InSetResult, Own
    <3>5. t = Consumer => state' = "ONLY_CONTINUATION"
      BY <3>1 DEF Own
    <3> QED
      BY <3>1, <3>2, <3>3, <3>4, <3>5, OneShotMeets
  <2>3. CASE CasDone(t)
    <3>1. pc[t] = "casDone" /\ state' = "DONE" /\ tryValue' = tryValue /\ delivered' = delivered
      BY <1>0, <2>3 DEF CasDone
    <3>2. t \in Producers \/ t = Consumer
      BY <3>1 DEF TypeOK, WorkerLabels
    <3>3. /\ t \in Producers => state = "ONLY_CONTINUATION"
          /\ t = Consumer => state = "ONLY_RESULT"
      BY <3>1 DEF Meeting
    <3>4. delivered = <<>>
      BY <3>2, <3>3 DEF NotMet
    <3>5. tryValue \in Results
      BY <3>1, <3>2, <3>3 DEF Written, InSetResult
    <3> QED
      BY <3>1, <3>2, <3>3, <3>4, <3>5, OneShotMeets
  <2>4. CASE RunContinuation(t)
    <3>1. Calling(t) /\ pc[t] = "run" /\ state' = state
      BY <2>4 DEF RunContinuation, Calling, CallLabels
    <3>2. delivered = <<>> /\ state = "DONE"
      BY <3>1 DEF OneCall, NotMet
    <3>3. visible[t] = Both
      BY <3>1 DEF Synchronised
    <3>4. PICK c : delivered' = Append(delivered, [cont |-> c, value |-> tryValue])
      BY <2>4, <3>3 DEF RunContinuation, Seen, Both
    <3>5. delivered' # <<>> /\ delivered'[1].value = tryValue
      BY <3>2, <3>4
    <3>6. tryValue \in Results /\ tryValue # "nothing"
      BY <3>2, ValuesAssumption DEF Written, Results
    <3>7. Published = tryValue /\ Published' = tryValue
      BY <3>1, <3>2, <3>5 DEF Published, HasResult
    <3>8. Promised!Deliver
      BY <3>1, <3>2, <3>5, <3>6, <3>7 DEF Promised!Deliver
    <3> QED
      BY <3>8 DEF Promised!Next
  <2> QED
    BY <1>4, <2>1, <2>2, <2>3, <2>4 DEF ThreadStep
<1> QED
  BY <1>1, <1>2, <1>3, <1>4 DEF Next, Terminated

\* Promise and Future: for every set of producers and values the pair is resolved once,
\* attached once, and the call receives that result, where compare_exchange acquires and
\* setResult() has its first logicAssert.
THEOREM FutureImplementsOneShot ==
    ASSUME ChecksResult, ~WeakMemory PROVE Spec => Promised!Safety
<1>1. Init => Promised!Init
  BY DEF Init, Promised!Init, Published, HasResult
<1>2. ProtocolInv /\ [Next]_vars => [Promised!Next]_(Promised!oneShotVars)
  BY StepOneShot
<1> QED
  BY <1>1, <1>2, FutureProtocol, PTL DEF Spec, Promised!Safety

----
(* The reference counts: nothing is used after it was destroyed, and nothing is leaked *)

\* The ContinuationReferences: of the threads in scheduleContinuation() or running the
\* closure, and of the closure while it is queued.
GuardLabels == {"submit", "nullExecutor", "run", "deref", "dropGuard"}
HasGuard(t, kind) ==
    \/ kind = "first" /\ pc[t] \in GuardLabels
    \/ kind = "second" /\ pc[t] \in {"submit", "nullExecutor"}
    \/ kind = "closure" /\ t = Worker /\ task = "queued"
GuardRefs == {r \in Threads \X {"first", "second", "closure"} : HasGuard(r[1], r[2])}

\* The references of the handles: the promise before and after it was handed out, the
\* future, and the copies that were stored away.
HandleCount ==
    Cardinality(PromisesLive) + (IF pc[Consumer] = "setup" THEN 1 ELSE 0)
    + (IF pc[Consumer] = "done" THEN 0 ELSE 1) + Parked

\* _attached counts exactly the references there are.
RefCount ==
    /\ attached = HandleCount + Cardinality(GuardRefs)
    /\ deleted <=> attached = 0
    /\ Cardinality(GuardRefs) <= 2

\* No ContinuationReference exists before the one call of the continuation is decided.
NoGuardYet ==
    /\ state # "DONE" => GuardRefs = {}
    /\ \A t \in Threads : pc[t] = "sched" => GuardRefs = {}

\* A producer works on a Promise that it has.
BusyHolds ==
    \A p \in Producers : pc[p] \notin {"idle", "done"} => promise[p] \in {"held", "dying"}

DestroyedLate == continuation = "destroyed" => delivered # <<>>

RefInv == RefCount /\ NoGuardYet /\ BusyHolds /\ DestroyedLate

\* The uint8_t _attached does not wrap: at most 251 copies of one Promise.
NoWrap == Cardinality(Producers) + Parked + 4 < RefMod

\* The counters in the range that NoWrap leaves them.
LEMMA CountFacts ==
    /\ \A r \in Nat : r + 1 < RefMod => Inc(r, 1) = r + 1
    /\ \A r \in Nat : r + 2 < RefMod => Inc(r, 2) = r + 2
    /\ \A r \in 1 .. RefMod - 1 : Dec(r) = r - 1
BY DEF Inc, Dec, RefMod

LEMMA GuardsFinite == IsFiniteSet(GuardRefs) /\ Cardinality(GuardRefs) \in Nat
<1>1. IsFiniteSet({"first", "second", "closure"})
  <2>1. IsFiniteSet({"first"})
    BY FS_Singleton
  <2>2. IsFiniteSet({"first"} \cup {"second"})
    BY <2>1, FS_AddElement
  <2>3. IsFiniteSet(({"first"} \cup {"second"}) \cup {"closure"})
    BY <2>2, FS_AddElement
  <2>4. ({"first"} \cup {"second"}) \cup {"closure"} = {"first", "second", "closure"}
    OBVIOUS
  <2> QED
    BY <2>3, <2>4
<1>2. IsFiniteSet(Threads)
  <2>1. IsFiniteSet((Producers \cup {Consumer}) \cup {Worker})
    BY ProducersAssumption, FS_AddElement
  <2>2. (Producers \cup {Consumer}) \cup {Worker} = Threads
    BY DEF Threads
  <2> QED
    BY <2>1, <2>2
<1>3. IsFiniteSet(Threads \X {"first", "second", "closure"})
  BY <1>1, <1>2, FS_Product
<1>4. GuardRefs \subseteq Threads \X {"first", "second", "closure"}
  BY DEF GuardRefs
<1>5. IsFiniteSet(GuardRefs)
  BY <1>3, <1>4, FS_Subset
<1> QED
  BY <1>5, FS_CardinalityType

LEMMA LiveFinite ==
    /\ IsFiniteSet(PromisesLive) /\ Cardinality(PromisesLive) \in Nat
    /\ Cardinality(PromisesLive) <= Cardinality(Producers)
<1>1. PromisesLive \subseteq Producers
  BY DEF PromisesLive
<1>2. IsFiniteSet(PromisesLive) /\ Cardinality(PromisesLive) <= Cardinality(Producers)
  BY <1>1, ProducersAssumption, FS_Subset
<1> QED
  BY <1>2, FS_CardinalityType

\* HandleCount is a number that leaves room for the guards.
LEMMA HandleFacts ==
    ASSUME NoWrap
    PROVE  HandleCount \in Nat /\ HandleCount + 2 < RefMod
<1>1. Cardinality(Producers) \in Nat
  BY ProducersAssumption, FS_CardinalityType
<1> QED
  BY <1>1, LiveFinite, BoundsAssumption DEF HandleCount, NoWrap, RefMod

\* A step that takes and drops no reference.
LEMMA RefFrame ==
    ASSUME RefCount, UNCHANGED <<attached, deleted>>, PromisesLive' = PromisesLive,
           GuardRefs' = GuardRefs,
           pc'[Consumer] = "setup" <=> pc[Consumer] = "setup",
           pc'[Consumer] = "done" <=> pc[Consumer] = "done"
    PROVE  RefCount'
BY DEF RefCount, HandleCount

\* A step that moves no thread to or from a ContinuationReference.
LEMMA GuardFrame ==
    ASSUME task' = "queued" <=> task = "queued",
           \A t \in Threads : pc'[t] # pc[t] =>
              \/ pc'[t] \notin GuardLabels /\ pc[t] \notin GuardLabels
              \/ pc'[t] \in {"run", "deref", "dropGuard"} /\ pc[t] \in {"run", "deref", "dropGuard"}
    PROVE  GuardRefs' = GuardRefs
<1>1. \A t \in Threads : \A k \in {"first", "second", "closure"} :
         HasGuard(t, k)' <=> HasGuard(t, k)
  BY DEF HasGuard, GuardLabels
<1> QED
  BY <1>1 DEF GuardRefs

\* A step that takes n references while there is one.
LEMMA RefTaken ==
    ASSUME NoWrap, TypeOK, RefCount, NEW n \in {1, 2},
           attached # 0, attached' = Inc(attached, n), deleted' = deleted,
           HandleCount' + Cardinality(GuardRefs') = HandleCount + Cardinality(GuardRefs) + n,
           HandleCount' \in Nat, HandleCount' + 2 < RefMod,
           Cardinality(GuardRefs') \in Nat, Cardinality(GuardRefs') <= 2
    PROVE  RefCount'
<1>1. attached \in Nat /\ attached # 0 /\ attached = HandleCount + Cardinality(GuardRefs)
  <2>1. attached \in 0 .. RefMod - 1
    BY DEF TypeOK
  <2>2. attached \in Nat
    BY <2>1 DEF RefMod
  <2> QED
    BY <2>2 DEF RefCount
<1>2. HandleCount \in Nat /\ Cardinality(GuardRefs) \in Nat
  BY HandleFacts, GuardsFinite
<1>3. attached + n < RefMod
  <2> DEFINE h == HandleCount'
             g == Cardinality(GuardRefs')
  <2>1. h \in Nat /\ h + 2 < RefMod /\ g \in Nat /\ g <= 2 /\ h + g = attached + n
    BY <1>1, <1>2
  <2> HIDE DEF h, g
  <2> QED
    BY <2>1, <1>1 DEF RefMod
<1>4. attached' = attached + n
  BY <1>1, <1>3, CountFacts
<1>5. attached' = HandleCount' + Cardinality(GuardRefs') /\ attached' # 0
  <2>1. attached' = HandleCount' + Cardinality(GuardRefs')
    BY <1>1, <1>4
  <2>2. \A a \in Nat : a + n # 0
    OBVIOUS
  <2> QED
    BY <2>1, <2>2, <1>1, <1>4
<1>6. deleted' <=> attached' = 0
  BY <1>1, <1>5 DEF RefCount
<1> QED
  BY <1>5, <1>6 DEF RefCount

\* A step that drops one of the references there are.
LEMMA RefDropped ==
    ASSUME NoWrap, TypeOK, RefCount, DetachOne,
           HandleCount + Cardinality(GuardRefs) = HandleCount' + Cardinality(GuardRefs') + 1,
           HandleCount' \in Nat, Cardinality(GuardRefs') \in Nat, Cardinality(GuardRefs') <= 2
    PROVE  RefCount'
<1>1. attached \in 0 .. RefMod - 1 /\ attached = HandleCount + Cardinality(GuardRefs)
  BY DEF TypeOK, RefCount
<1>2. attached \in 1 .. RefMod - 1
  <2> DEFINE h == HandleCount'
             g == Cardinality(GuardRefs')
  <2>1. h \in Nat /\ g \in Nat /\ attached = h + g + 1
    BY <1>1
  <2> HIDE DEF h, g
  <2> QED
    BY <2>1, <1>1 DEF RefMod
<1>3. attached' = attached - 1
  BY <1>2, CountFacts DEF DetachOne
<1>4. attached' = HandleCount' + Cardinality(GuardRefs')
  <2> DEFINE h == HandleCount'
             g == Cardinality(GuardRefs')
  <2>1. h \in Nat /\ g \in Nat /\ attached = h + g + 1
    BY <1>1
  <2> HIDE DEF h, g
  <2>2. attached' = h + g
    BY <2>1, <1>3
  <2> QED
    BY <2>2 DEF h, g
<1>5. attached # 0 /\ (attached = 1 <=> attached' = 0)
  BY <1>2, <1>3 DEF RefMod
<1>6. ~deleted /\ deleted' = (deleted \/ attached = 1)
  BY <1>5 DEF RefCount, DetachOne
<1>7. deleted' <=> attached' = 0
  BY <1>5, <1>6
<1> QED
  BY <1>4, <1>7 DEF RefCount

\* What a step of thread t does that takes and drops no reference.
KeepsRefs(t) ==
    /\ attached' = attached /\ deleted' = deleted /\ task' = task
    /\ PromisesLive' = PromisesLive
    /\ \A u \in Threads : u # t => pc'[u] = pc[u]
    /\ \/ pc'[t] = pc[t]
       \/ pc'[t] \notin GuardLabels /\ pc[t] \notin GuardLabels
       \/ {pc'[t], pc[t]} \subseteq {"run", "deref", "dropGuard"}
    /\ t = Consumer => /\ pc'[t] = "setup" <=> pc[t] = "setup"
                       /\ pc'[t] = "done" <=> pc[t] = "done"
    /\ state' # "DONE" => state # "DONE"
    /\ pc'[t] = "sched" => pc[t] = "sched" \/ state # "DONE"
    /\ t \in Producers /\ pc'[t] \notin {"idle", "done"} =>
          pc[t] \notin {"idle", "done"} \/ promise[t] \in {"held", "dying"}
    /\ continuation' = "destroyed" => continuation = "destroyed" \/ delivered # <<>>
    /\ delivered # <<>> => delivered' # <<>>

LEMMA StepKeepsRefs ==
    ASSUME RefInv, NEW t \in Threads, KeepsRefs(t)
    PROVE  RefInv'
<1>0. \A u \in Threads : pc'[u] # pc[u] =>
              \/ pc'[u] \notin GuardLabels /\ pc[u] \notin GuardLabels
              \/ pc'[u] \in {"run", "deref", "dropGuard"} /\ pc[u] \in {"run", "deref", "dropGuard"}
  BY DEF KeepsRefs
<1>1. GuardRefs' = GuardRefs
  BY <1>0, GuardFrame DEF KeepsRefs
<1>2. pc'[Consumer] = "setup" <=> pc[Consumer] = "setup"
  BY ThreadFacts DEF KeepsRefs
<1>3. pc'[Consumer] = "done" <=> pc[Consumer] = "done"
  BY ThreadFacts DEF KeepsRefs
<1>4. RefCount'
  BY <1>1, <1>2, <1>3, RefFrame DEF RefInv, KeepsRefs
<1>5. NoGuardYet'
  <2>1. state' # "DONE" => GuardRefs' = {}
    BY <1>1 DEF RefInv, NoGuardYet, KeepsRefs
  <2>2. \A u \in Threads : pc'[u] = "sched" => GuardRefs' = {}
    BY <1>1 DEF RefInv, NoGuardYet, KeepsRefs
  <2> QED
    BY <2>1, <2>2 DEF NoGuardYet
<1>6. BusyHolds'
  <2>1. \A p \in Producers : promise[p] \in {"held", "dying"} => promise'[p] \in {"held", "dying"}
    BY DEF PromisesLive, KeepsRefs
  <2> QED
    BY <2>1, ThreadFacts DEF RefInv, BusyHolds, KeepsRefs
<1>7. DestroyedLate'
  BY DEF RefInv, DestroyedLate, KeepsRefs
<1> QED
  BY <1>4, <1>5, <1>6, <1>7 DEF RefInv

\* The set-up and the future's own steps.
LEMMA ConsumerKeepsRefs ==
    ASSUME ProtocolInv, Via \/ SetForceSched \/ Checkout \/ Then \/ WaitCheck \/ WaitSet \/ WaitDone
    PROVE  KeepsRefs(Consumer)
<1> USE ThreadFacts DEF ProtocolInv
<1>1. /\ UNCHANGED <<attached, deleted, task, promise, state, delivered>>
      /\ continuation' \in {continuation, "set"}
  BY DEF Via, SetForceSched, Checkout, Then, WaitCheck, WaitSet, WaitDone, refs, threads, object
<1>2. PromisesLive' = PromisesLive
  BY <1>1 DEF PromisesLive
<1>3. /\ \A u \in Threads : u # Consumer => pc'[u] = pc[u]
      /\ \/ pc' = pc
         \/ /\ pc[Consumer] \in {"hold", "waitSet", "returned"}
            /\ pc'[Consumer] \in {"scLoad", "dropFuture", "waitSet"}
  BY DEF Via, SetForceSched, Checkout, Then, WaitCheck, WaitSet, WaitDone, Goto, TypeOK
<1> QED
  BY <1>1, <1>2, <1>3 DEF KeepsRefs, GuardLabels

\* The producer's steps up to the meeting with the future.
LEMMA ProducerKeepsRefs ==
    ASSUME ProtocolInv, NEW p \in Producers,
           DetachPromise(p) \/ BreakPromise(p) \/ \E v \in Values : SetValue(p, v)
    PROVE  KeepsRefs(p)
<1> USE ThreadFacts DEF ProtocolInv
<1>1. UNCHANGED <<attached, deleted, task, state, delivered, continuation>>
  BY DEF DetachPromise, BreakPromise, SetValue, refs
<1>2. PromisesLive' = PromisesLive
  BY DEF PromisesLive, DetachPromise, BreakPromise, SetValue, threads, TypeOK
<1>3. /\ \A u \in Threads : u # p => pc'[u] = pc[u]
      /\ \/ pc' = pc
         \/ /\ pc[p] \in {"idle", "lastPromise"}
            /\ pc'[p] \in {"lastPromise", "detach", "srLoad"}
  BY DEF DetachPromise, BreakPromise, SetValue, Goto, TypeOK
<1>4. promise[p] \in {"held", "dying"}
  BY DEF DetachPromise, BreakPromise, SetValue, OneSetter
<1> QED
  BY <1>1, <1>2, <1>3, <1>4 DEF KeepsRefs, GuardLabels

\* The meeting, the call and the first half of ~ContinuationReference.
LEMMA MeetingKeepsRefs ==
    ASSUME ProtocolInv, RefInv, NEW t \in Threads,
           LoadState(t) \/ CasStart(t) \/ CasDone(t) \/ RunContinuation(t) \/ DerefGuard(t)
    PROVE  KeepsRefs(t)
<1> USE ThreadFacts DEF ProtocolInv
<1>1. UNCHANGED <<attached, deleted, task, promise>>
  BY DEF LoadState, CasStart, CasDone, RunContinuation, DerefGuard, refs, threads, object
<1>2. PromisesLive' = PromisesLive
  BY <1>1 DEF PromisesLive
<1>3. /\ \A u \in Threads : u # t => pc'[u] = pc[u]
      /\ pc[t] \in {"srLoad", "scLoad", "casStart", "casDone", "run", "deref"}
  BY DEF LoadState, CasStart, CasDone, RunContinuation, DerefGuard, Goto, TypeOK
<1>4. t # Worker \/ pc[t] \in {"run", "deref"}
  BY <1>3 DEF TypeOK, WorkerLabels
<1>5. t # Worker => Return(t) \in {"returned", "detach", "idle"}
  BY DEF Return
<1>6. /\ pc[t] \in {"srLoad", "scLoad", "casStart", "casDone"} =>
           pc'[t] \in {"casStart", "casDone", "sched", "returned", "detach", "idle"}
      /\ pc[t] = "run" => pc'[t] = "deref"
      /\ pc[t] = "deref" => pc'[t] = "dropGuard"
  <2>1. CASE LoadState(t)
    <3>1. pc'[t] \in {"casStart", "casDone", Return(t)}
      BY <2>1, Zenon DEF LoadState, Goto, TypeOK
    <3> QED
      BY <2>1, <3>1, <1>4, <1>5 DEF LoadState
  <2>2. CASE CasStart(t)
    BY <2>2, <1>4, <1>5 DEF CasStart, Goto, TypeOK
  <2>3. CASE CasDone(t)
    BY <2>3, <1>4, <1>5 DEF CasDone, Goto, TypeOK
  <2>4. CASE RunContinuation(t) \/ DerefGuard(t)
    BY <2>4 DEF RunContinuation, DerefGuard, Goto, TypeOK
  <2> QED
    BY <2>1, <2>2, <2>3, <2>4
<1>7. state' # "DONE" => state # "DONE"
  <2>1. pc[t] \in {"casStart", "casDone"} => state # "DONE"
    BY <1>4 DEF Meeting
  <2> QED
    BY <2>1 DEF LoadState, CasStart, CasDone, RunContinuation, DerefGuard, object
<1>8. pc'[t] = "sched" => state # "DONE"
  <2>1. pc'[t] = "sched" => CasDone(t) \/ LoadState(t) \/ CasStart(t)
    BY <1>6 DEF RunContinuation, DerefGuard
  <2>2. CASE CasDone(t)
    BY <2>2, <1>4 DEF CasDone, Meeting
  <2>3. CASE LoadState(t)
    <3>1. pc'[t] \in {"casStart", "casDone", Return(t)}
      BY <2>3, Zenon DEF LoadState, Goto, TypeOK
    <3>2. t # Worker
      BY <1>4, <2>3 DEF LoadState
    <3> QED
      BY <3>1, <3>2, <1>5
  <2>4. CASE CasStart(t)
    <3>1. pc'[t] \in {"casDone", Return(t)}
      BY <2>4 DEF CasStart, Goto, TypeOK
    <3>2. t # Worker
      BY <1>4, <2>4 DEF CasStart
    <3> QED
      BY <3>1, <3>2, <1>5
  <2> QED
    BY <2>1, <2>2, <2>3, <2>4
<1>9. continuation' = "destroyed" => continuation = "destroyed" \/ delivered # <<>>
  <2>1. CASE DerefGuard(t)
    <3>1. delivered = <<>> => continuationRef = 2
      BY <2>1 DEF DerefGuard, Guarded
    <3> QED
      BY <2>1, <3>1 DEF DerefGuard, DerefContinuation
  <2> QED
    BY <2>1 DEF LoadState, CasStart, CasDone, RunContinuation, refs, object
<1>10. delivered # <<>> => delivered' # <<>>
  <2>1. CASE RunContinuation(t)
    <3>1. Calling(t)
      BY <2>1 DEF RunContinuation, Calling, CallLabels
    <3> QED
      BY <3>1 DEF OneCall
  <2> QED
    BY <2>1 DEF LoadState, CasStart, CasDone, DerefGuard
<1>11. t = Consumer => pc[t] # "setup" /\ pc'[t] # "setup" /\ pc[t] # "done" /\ pc'[t] # "done"
  BY <1>3, <1>6
<1>12. \/ pc'[t] \notin GuardLabels /\ pc[t] \notin GuardLabels
       \/ {pc'[t], pc[t]} \subseteq {"run", "deref", "dropGuard"}
  BY <1>3, <1>6 DEF GuardLabels
<1> QED
  BY <1>1, <1>2, <1>3, <1>7, <1>8, <1>9, <1>10, <1>11, <1>12 DEF KeepsRefs

\* PromisesLive over a step that gives a Promise to p, and over one that destroys p's.
LEMMA LiveGrows ==
    ASSUME TypeOK, NEW p \in Producers, promise[p] = "none",
           promise' = [promise EXCEPT ![p] = "held"]
    PROVE  Cardinality(PromisesLive') = Cardinality(PromisesLive) + 1
<1>1. PromisesLive' = PromisesLive \cup {p} /\ p \notin PromisesLive
  BY DEF PromisesLive, TypeOK
<1> QED
  BY <1>1, LiveFinite, FS_AddElement

LEMMA LiveShrinks ==
    ASSUME TypeOK, NEW p \in Producers, promise[p] = "dying",
           promise' = [promise EXCEPT ![p] = "gone"]
    PROVE  /\ Cardinality(PromisesLive') \in Nat
           /\ Cardinality(PromisesLive) = Cardinality(PromisesLive') + 1
<1>1. PromisesLive' = PromisesLive \ {p} /\ p \in PromisesLive
  BY DEF PromisesLive, TypeOK
<1>2. /\ Cardinality(PromisesLive') = Cardinality(PromisesLive) - 1
      /\ IsFiniteSet(PromisesLive')
  BY <1>1, LiveFinite, FS_RemoveElement
<1>3. Cardinality(PromisesLive') \in Nat
  BY <1>2, FS_CardinalityType
<1> QED
  BY <1>2, <1>3, LiveFinite

\* The same for the handles after a step, whatever the step.
LEMMA HandleFactsNext ==
    ASSUME NoWrap
    PROVE  HandleCount' \in Nat /\ HandleCount' + 2 < RefMod
<1>1. Cardinality(Producers) \in Nat
  BY ProducersAssumption, FS_CardinalityType
<1>2. PromisesLive' \subseteq Producers
  BY DEF PromisesLive
<1>3. IsFiniteSet(PromisesLive') /\ Cardinality(PromisesLive') <= Cardinality(Producers)
  BY <1>2, ProducersAssumption, FS_Subset
<1>4. Cardinality(PromisesLive') \in Nat
  BY <1>3, FS_CardinalityType
<1> QED
  BY <1>1, <1>3, <1>4, BoundsAssumption DEF HandleCount, NoWrap, RefMod

\* The first producer's Promise and the copies.
LEMMA StepRefPromises ==
    ASSUME NoWrap, ProtocolInv, RefInv, NEW p \in Producers,
           HandOut(p) \/ \E q \in Producers : CopyPromise(q, p)
    PROVE  RefInv'
<1> USE ThreadFacts DEF ProtocolInv, RefInv
<1>1. promise[p] = "none" /\ promise' = [promise EXCEPT ![p] = "held"]
  BY DEF HandOut, CopyPromise
<1>2. UNCHANGED <<deleted, task, state, delivered, continuation>>
  BY DEF HandOut, CopyPromise, object
<1>3. \A u \in Threads : pc'[u] # pc[u] =>
          u = Consumer /\ pc[u] = "setup" /\ pc'[u] = "hold"
  BY DEF HandOut, CopyPromise, Goto, TypeOK
<1>4. GuardRefs' = GuardRefs
  BY <1>2, <1>3, GuardFrame DEF GuardLabels
<1>5. RefCount'
  <2>1. Cardinality(PromisesLive') = Cardinality(PromisesLive) + 1
    BY <1>1, LiveGrows
  <2>2. CASE HandOut(p)
    <3>1. attached' = attached /\ pc[Consumer] = "setup" /\ pc'[Consumer] = "hold"
      BY <2>2 DEF HandOut, object, Goto, TypeOK
    <3>2. HandleCount' = HandleCount
      BY <3>1, <2>1, LiveFinite, BoundsAssumption DEF HandleCount
    <3> QED
      BY <3>1, <3>2, <1>2, <1>4 DEF RefCount
  <2>3. CASE \E q \in Producers : CopyPromise(q, p)
    <3>1. PICK q \in Producers : CopyPromise(q, p)
      BY <2>3
    <3>2. attached' = Inc(attached, 1) /\ pc' = pc
      BY <3>1 DEF CopyPromise
    <3>3. HandleCount' = HandleCount + 1
      BY <3>2, <2>1, LiveFinite, BoundsAssumption DEF HandleCount
    <3>4. HandleCount \in Nat /\ Cardinality(GuardRefs) \in Nat
      BY HandleFacts, GuardsFinite
    <3>5. attached # 0
      <4>1. q \in PromisesLive
        BY <3>1 DEF CopyPromise, PromisesLive
      <4>2. Cardinality(PromisesLive) # 0
        BY <4>1, LiveFinite, FS_EmptySet
      <4>3. HandleCount # 0
        BY <4>2, LiveFinite, BoundsAssumption DEF HandleCount
      <4>4. attached = HandleCount + Cardinality(GuardRefs)
        BY DEF RefCount
      <4> QED
        BY <4>3, <4>4, <3>4
    <3>6. HandleCount' + Cardinality(GuardRefs') = HandleCount + Cardinality(GuardRefs) + 1
      BY <3>3, <3>4, <1>4
    <3>7. Cardinality(GuardRefs') \in Nat /\ Cardinality(GuardRefs') <= 2
      BY <1>4, <3>4 DEF RefCount
    <3> QED
      BY <3>2, <3>5, <3>6, <3>7, <1>2, RefTaken, HandleFactsNext
  <2> QED
    BY <2>2, <2>3
<1>6. NoGuardYet'
  BY <1>2, <1>3, <1>4 DEF NoGuardYet
<1>7. BusyHolds'
  BY <1>1, <1>3 DEF BusyHolds, TypeOK
<1>8. DestroyedLate'
  BY <1>2 DEF DestroyedLate
<1> QED
  BY <1>5, <1>6, <1>7, <1>8

\* The last steps of ~Promise and ~Future.
LEMMA StepRefHandles ==
    ASSUME NoWrap, ProtocolInv, RefInv, DropFuture \/ \E p \in Producers : DropPromise(p)
    PROVE  RefInv'
<1> USE ThreadFacts DEF ProtocolInv, RefInv
<1>1. UNCHANGED <<task, state, delivered, continuation>> /\ DetachOne
  BY DEF DropFuture, DropPromise
<1>2. \A u \in Threads : pc'[u] # pc[u] =>
          pc'[u] = "done" /\ pc[u] \in {"detach", "dropFuture", "hold"}
  BY DEF DropFuture, DropPromise, Goto, TypeOK
<1>3. GuardRefs' = GuardRefs
  BY <1>1, <1>2, GuardFrame DEF GuardLabels
<1>4. HandleCount = HandleCount' + 1
  <2>1. CASE DropFuture
    <3>1. UNCHANGED promise /\ pc[Consumer] \in {"dropFuture", "hold"} /\ pc'[Consumer] = "done"
      BY <2>1 DEF DropFuture, threads, Goto, TypeOK
    <3>2. PromisesLive' = PromisesLive
      BY <3>1 DEF PromisesLive
    <3> QED
      BY <3>1, <3>2, LiveFinite, BoundsAssumption DEF HandleCount
  <2>2. CASE \E p \in Producers : DropPromise(p)
    <3>1. PICK p \in Producers : DropPromise(p)
      BY <2>2
    <3>2. /\ promise[p] = "dying" /\ promise' = [promise EXCEPT ![p] = "gone"]
          /\ pc'[Consumer] = pc[Consumer]
      BY <3>1 DEF DropPromise, OneSetter, Goto, TypeOK
    <3>3. /\ Cardinality(PromisesLive') \in Nat
          /\ Cardinality(PromisesLive) = Cardinality(PromisesLive') + 1
      BY <3>2, LiveShrinks
    <3> QED
      BY <3>2, <3>3, BoundsAssumption DEF HandleCount
  <2> QED
    BY <2>1, <2>2
<1>5. RefCount'
  <2>1. Cardinality(GuardRefs') \in Nat /\ Cardinality(GuardRefs') <= 2
    BY <1>3, GuardsFinite DEF RefCount
  <2>2. HandleCount + Cardinality(GuardRefs) = HandleCount' + Cardinality(GuardRefs') + 1
    BY <1>3, <1>4, <2>1, HandleFactsNext
  <2> QED
    BY <1>1, <2>1, <2>2, RefDropped, HandleFactsNext
<1>6. NoGuardYet'
  BY <1>1, <1>2, <1>3 DEF NoGuardYet
<1>7. BusyHolds'
  <2>1. \A p \in Producers : promise'[p] = promise[p] \/ pc'[p] = "done"
    BY DEF DropFuture, DropPromise, threads, Goto, TypeOK
  <2> QED
    BY <1>2, <2>1 DEF BusyHolds
<1>8. DestroyedLate'
  BY <1>1 DEF DestroyedLate
<1> QED
  BY <1>5, <1>6, <1>7, <1>8

\* scheduleContinuation takes its guards when there is none, from a live handle.
LEMMA StepRefSchedule ==
    ASSUME NoWrap, ProtocolInv, RefInv, NEW t \in Threads,
           ScheduleInplace(t) \/ ScheduleSubmit(t)
    PROVE  RefInv'
<1> USE ThreadFacts DEF ProtocolInv, RefInv
<1>1. UNCHANGED <<deleted, task, promise, state, delivered, continuation>>
  BY DEF ScheduleInplace, ScheduleSubmit, threads
<1>2. /\ pc[t] = "sched" /\ \A u \in Threads : u # t => pc'[u] = pc[u]
      /\ \/ pc'[t] = "run" /\ attached' = Inc(attached, 1)
         \/ pc'[t] \in {"submit", "nullExecutor"} /\ attached' = Inc(attached, 2)
  BY DEF ScheduleInplace, ScheduleSubmit, Goto, TypeOK
<1>3. t # Worker /\ (t = Consumer \/ t \in Producers)
  BY <1>2 DEF TypeOK, WorkerLabels
<1>4. PromisesLive' = PromisesLive
  BY <1>1 DEF PromisesLive
<1>5. HandleCount' = HandleCount
  <2>1. /\ pc'[Consumer] = "setup" <=> pc[Consumer] = "setup"
        /\ pc'[Consumer] = "done" <=> pc[Consumer] = "done"
    BY <1>2, <1>3
  <2> QED
    BY <1>4, <2>1 DEF HandleCount
<1>6. HandleCount # 0
  <2>1. CASE t = Consumer
    BY <1>2, <2>1, LiveFinite, BoundsAssumption DEF HandleCount
  <2>2. CASE t \in Producers
    <3>1. t \in PromisesLive
      BY <1>2, <2>2 DEF BusyHolds, PromisesLive
    <3>2. Cardinality(PromisesLive) # 0
      BY <3>1, LiveFinite, FS_EmptySet
    <3> QED
      BY <3>2, LiveFinite, BoundsAssumption DEF HandleCount
  <2> QED
    BY <1>3, <2>1, <2>2
<1>7. GuardRefs = {} /\ Cardinality(GuardRefs) = 0
  BY <1>2, FS_EmptySet DEF NoGuardYet
<1>8. attached # 0
  BY <1>6, <1>7, HandleFacts DEF RefCount
<1>9. \A u \in Threads : \A k \in {"first", "second", "closure"} :
         HasGuard(u, k)' <=> \/ HasGuard(u, k)
                             \/ u = t /\ k = "first"
                             \/ u = t /\ k = "second" /\ pc'[t] # "run"
  BY <1>1, <1>2 DEF HasGuard, GuardLabels
<1>10. GuardRefs' = {<<t, "first">>} \cup (IF pc'[t] = "run" THEN {} ELSE {<<t, "second">>})
  BY <1>7, <1>9 DEF GuardRefs
<1>11. RefCount'
  <2>1. CASE pc'[t] = "run"
    <3>1. GuardRefs' = {<<t, "first">>}
      BY <1>10, <2>1
    <3>2. Cardinality(GuardRefs') = 1
      BY <3>1, FS_Singleton
    <3>3. HandleCount' + Cardinality(GuardRefs') = HandleCount + Cardinality(GuardRefs) + 1
      BY <3>2, <1>5, <1>7, HandleFacts
    <3> QED
      BY <1>1, <1>2, <1>8, <2>1, <3>2, <3>3, RefTaken, HandleFactsNext
  <2>2. CASE pc'[t] # "run"
    <3>1. GuardRefs' = {<<t, "first">>} \cup {<<t, "second">>}
      BY <1>10, <2>2
    <3>2. <<t, "second">> \notin {<<t, "first">>}
      OBVIOUS
    <3>3. IsFiniteSet({<<t, "first">>}) /\ Cardinality({<<t, "first">>}) = 1
      BY FS_Singleton
    <3>4. Cardinality(GuardRefs') = 2
      <4>1. Cardinality({<<t, "first">>} \cup {<<t, "second">>}) = Cardinality({<<t, "first">>}) + 1
        BY <3>2, <3>3, FS_AddElement
      <4> QED
        BY <3>1, <3>3, <4>1
    <3>5. HandleCount' + Cardinality(GuardRefs') = HandleCount + Cardinality(GuardRefs) + 2
      BY <3>4, <1>5, <1>7, HandleFacts
    <3> QED
      BY <1>1, <1>2, <1>8, <2>2, <3>4, <3>5, RefTaken, HandleFactsNext
  <2> QED
    BY <2>1, <2>2
<1>12. NoGuardYet'
  <2>1. state = "DONE"
    BY <1>2 DEF NotMet, Calling, CallLabels
  <2>2. \A u \in Threads : pc'[u] # "sched"
    BY <1>2 DEF OneCall, Calling, CallLabels
  <2> QED
    BY <1>1, <2>1, <2>2 DEF NoGuardYet
<1>13. BusyHolds'
  BY <1>1, <1>2 DEF BusyHolds
<1>14. DestroyedLate'
  BY <1>1 DEF DestroyedLate
<1> QED
  BY <1>11, <1>12, <1>13, <1>14

\* The executor accepts the closure, and a thread takes it: a guard changes hands.
LEMMA StepRefClosure ==
    ASSUME NoWrap, ProtocolInv, RefInv, WorkerTakes \/ \E t \in Threads : Accepted(t)
    PROVE  RefInv'
<1> USE ThreadFacts DEF ProtocolInv, RefInv
<1>1. UNCHANGED <<attached, deleted, promise, state, delivered, continuation>>
  BY DEF WorkerTakes, Accepted, threads, object
<1>2. PICK r, n \in Threads \X {"first", "second", "closure"} :
          r \in GuardRefs /\ n \notin GuardRefs /\ GuardRefs' = (GuardRefs \ {r}) \cup {n}
  <2>1. CASE WorkerTakes
    <3>1. /\ pc[Worker] = "idle" /\ task = "queued" /\ task' = "taken"
          /\ \A u \in Threads : pc'[u] = IF u = Worker THEN "run" ELSE pc[u]
      BY <2>1 DEF WorkerTakes, Goto, TypeOK
    <3>2. \A u \in Threads : \A k \in {"first", "second", "closure"} :
             HasGuard(u, k)' <=> \/ HasGuard(u, k) /\ <<u, k>> # <<Worker, "closure">>
                                 \/ <<u, k>> = <<Worker, "first">>
      BY <3>1 DEF HasGuard, GuardLabels
    <3>3. HasGuard(Worker, "closure") /\ ~HasGuard(Worker, "first")
      BY <3>1 DEF HasGuard, GuardLabels
    <3>4. /\ <<Worker, "closure">> \in GuardRefs /\ <<Worker, "first">> \notin GuardRefs
          /\ GuardRefs' = (GuardRefs \ {<<Worker, "closure">>}) \cup {<<Worker, "first">>}
      BY <3>2, <3>3 DEF GuardRefs
    <3> QED
      BY <3>4
  <2>2. CASE \E t \in Threads : Accepted(t)
    <3>0. PICK t \in Threads : Accepted(t)
      BY <2>2
    <3>1. /\ pc[t] = "submit" /\ task' = "queued" /\ t # Worker
          /\ \A u \in Threads : pc'[u] = IF u = t THEN "deref" ELSE pc[u]
      BY <3>0 DEF Accepted, Goto, TypeOK, WorkerLabels
    <3>2. task # "queued"
      BY <3>1 DEF OneCall, Calling, CallLabels
    <3>3. \A u \in Threads : \A k \in {"first", "second", "closure"} :
             HasGuard(u, k)' <=> \/ HasGuard(u, k) /\ <<u, k>> # <<t, "second">>
                                 \/ <<u, k>> = <<Worker, "closure">>
      BY <3>1, <3>2 DEF HasGuard, GuardLabels
    <3>4. HasGuard(t, "second") /\ ~HasGuard(Worker, "closure")
      BY <3>1, <3>2 DEF HasGuard, GuardLabels
    <3>5. /\ <<t, "second">> \in GuardRefs /\ <<Worker, "closure">> \notin GuardRefs
          /\ GuardRefs' = (GuardRefs \ {<<t, "second">>}) \cup {<<Worker, "closure">>}
      BY <3>3, <3>4 DEF GuardRefs
    <3> QED
      BY <3>5
  <2> QED
    BY <2>1, <2>2
<1>3. Cardinality(GuardRefs') = Cardinality(GuardRefs)
  <2>1. IsFiniteSet(GuardRefs \ {r}) /\ Cardinality(GuardRefs \ {r}) = Cardinality(GuardRefs) - 1
    BY <1>2, GuardsFinite, FS_RemoveElement
  <2>2. n \notin GuardRefs \ {r}
    BY <1>2
  <2>3. Cardinality(GuardRefs') = Cardinality(GuardRefs \ {r}) + 1
    BY <1>2, <2>1, <2>2, FS_AddElement
  <2> QED
    BY <2>1, <2>3, GuardsFinite
<1>4. \A u \in Threads : pc'[u] # pc[u] =>
         pc[u] \in {"idle", "submit"} /\ pc'[u] \in {"run", "deref"} /\ (pc[u] = "idle" => u = Worker)
  BY DEF WorkerTakes, Accepted, Goto, TypeOK
<1>5. HandleCount' = HandleCount
  <2>1. PromisesLive' = PromisesLive
    BY <1>1 DEF PromisesLive
  <2>2. /\ pc'[Consumer] = "setup" <=> pc[Consumer] = "setup"
        /\ pc'[Consumer] = "done" <=> pc[Consumer] = "done"
    BY <1>4
  <2> QED
    BY <2>1, <2>2 DEF HandleCount
<1>6. RefCount'
  BY <1>1, <1>3, <1>5 DEF RefCount
<1>7. NoGuardYet'
  BY <1>1, <1>2, <1>4 DEF NoGuardYet
<1>8. BusyHolds'
  BY <1>1, <1>4 DEF BusyHolds
<1>9. DestroyedLate'
  BY <1>1 DEF DestroyedLate
<1> QED
  BY <1>6, <1>7, <1>8, <1>9

\* A guard is dropped: by the closure that the executor refused, or after the call.
LEMMA StepRefDrop ==
    ASSUME NoWrap, ProtocolInv, RefInv, NEW t \in Threads, Rejected(t) \/ DropGuard(t)
    PROVE  RefInv'
<1> USE ThreadFacts DEF ProtocolInv, RefInv
<1>1. UNCHANGED <<promise, state, delivered, task>> /\ DetachOne
  BY DEF Rejected, DropGuard, threads
<1>2. \A u \in Threads : u # t => pc'[u] = pc[u]
  BY DEF Rejected, DropGuard, Goto, TypeOK
<1>3. \/ pc[t] = "submit" /\ pc'[t] = "run"
      \/ pc[t] = "dropGuard" /\ pc'[t] = Return(t)
  BY DEF Rejected, DropGuard, Goto, TypeOK
<1>4. /\ Return(t) \in {"returned", "done", "detach", "idle"}
      /\ t = Consumer => Return(t) = "returned"
      /\ t \in Producers => Return(t) \in {"detach", "idle"}
  BY DEF Return
<1>5. PICK k \in {"first", "second"} :
         <<t, k>> \in GuardRefs /\ GuardRefs' = GuardRefs \ {<<t, k>>}
  <2>1. CASE pc[t] = "submit" /\ pc'[t] = "run"
    <3>1. \A u \in Threads : \A k \in {"first", "second", "closure"} :
             HasGuard(u, k)' <=> HasGuard(u, k) /\ <<u, k>> # <<t, "second">>
      BY <1>1, <1>2, <2>1 DEF HasGuard, GuardLabels
    <3>2. HasGuard(t, "second")
      BY <2>1 DEF HasGuard
    <3>3. <<t, "second">> \in GuardRefs /\ GuardRefs' = GuardRefs \ {<<t, "second">>}
      BY <3>1, <3>2 DEF GuardRefs
    <3> QED
      BY <3>3
  <2>2. CASE pc[t] = "dropGuard" /\ pc'[t] = Return(t)
    <3>1. \A u \in Threads : \A k \in {"first", "second", "closure"} :
             HasGuard(u, k)' <=> HasGuard(u, k) /\ <<u, k>> # <<t, "first">>
      BY <1>1, <1>2, <1>4, <2>2 DEF HasGuard, GuardLabels
    <3>2. HasGuard(t, "first")
      BY <2>2 DEF HasGuard, GuardLabels
    <3>3. <<t, "first">> \in GuardRefs /\ GuardRefs' = GuardRefs \ {<<t, "first">>}
      BY <3>1, <3>2 DEF GuardRefs
    <3> QED
      BY <3>3
  <2> QED
    BY <1>3, <2>1, <2>2
<1>6. /\ Cardinality(GuardRefs') \in Nat
      /\ Cardinality(GuardRefs) = Cardinality(GuardRefs') + 1
  <2>1. IsFiniteSet(GuardRefs') /\ Cardinality(GuardRefs') = Cardinality(GuardRefs) - 1
    BY <1>5, GuardsFinite, FS_RemoveElement
  <2>2. Cardinality(GuardRefs') \in Nat
    BY <2>1, FS_CardinalityType
  <2> QED
    BY <2>1, <2>2, GuardsFinite
<1>7. HandleCount' = HandleCount
  <2>1. PromisesLive' = PromisesLive
    BY <1>1 DEF PromisesLive
  <2>2. /\ pc'[Consumer] = "setup" <=> pc[Consumer] = "setup"
        /\ pc'[Consumer] = "done" <=> pc[Consumer] = "done"
    BY <1>2, <1>3, <1>4
  <2> QED
    BY <2>1, <2>2 DEF HandleCount
<1>8. RefCount'
  <2>1. HandleCount + Cardinality(GuardRefs) = HandleCount' + Cardinality(GuardRefs') + 1
    BY <1>6, <1>7, HandleFacts
  <2>2. Cardinality(GuardRefs') <= 2
    BY <1>6 DEF RefCount
  <2> QED
    BY <1>1, <1>6, <2>1, <2>2, RefDropped, HandleFactsNext
<1>9. NoGuardYet'
  BY <1>1, <1>2, <1>3, <1>4, <1>5 DEF NoGuardYet
<1>10. BusyHolds'
  BY <1>1, <1>2, <1>3 DEF BusyHolds
<1>11. DestroyedLate'
  <2>1. CASE Rejected(t)
    <3>1. t # Worker /\ Calling(t) /\ pc[t] = "submit"
      BY <2>1 DEF Rejected, TypeOK, WorkerLabels, Calling, CallLabels
    <3>2. continuationRef = 2
      BY <3>1 DEF Guarded
    <3> QED
      BY <2>1, <3>2, <1>1 DEF Rejected, DerefContinuation, DestroyedLate
  <2>2. CASE DropGuard(t)
    BY <2>2, <1>1 DEF DropGuard, DestroyedLate
  <2> QED
    BY <2>1, <2>2
<1> QED
  BY <1>8, <1>9, <1>10, <1>11

LEMMA InitRefs ==
    ASSUME Init PROVE RefInv
<1>1. PromisesLive = {} /\ Cardinality(PromisesLive) = 0
  <2>1. PromisesLive = {}
    BY DEF Init, PromisesLive
  <2> QED
    BY <2>1, FS_EmptySet
<1>2. \A t \in Threads : pc[t] \in {"setup", "idle"}
  BY DEF Init
<1>3. GuardRefs = {} /\ Cardinality(GuardRefs) = 0
  <2>1. \A t \in Threads : \A k \in {"first", "second", "closure"} : ~HasGuard(t, k)
    BY <1>2 DEF Init, HasGuard, GuardLabels
  <2>2. GuardRefs = {}
    BY <2>1 DEF GuardRefs
  <2> QED
    BY <2>2, FS_EmptySet
<1>4. RefCount
  <2>1. attached = 2 + Parked /\ deleted = FALSE /\ pc[Consumer] = "setup"
    BY ThreadFacts DEF Init
  <2>2. attached = HandleCount + Cardinality(GuardRefs) /\ attached # 0
    BY <1>1, <1>3, <2>1, BoundsAssumption DEF HandleCount
  <2>3. deleted <=> attached = 0
    BY <2>1, <2>2
  <2> QED
    BY <1>3, <2>2, <2>3 DEF RefCount
<1>5. NoGuardYet
  BY <1>3 DEF NoGuardYet
<1>6. BusyHolds
  BY ThreadFacts DEF Init, BusyHolds
<1>7. DestroyedLate
  BY DEF Init, DestroyedLate
<1> QED
  BY <1>4, <1>5, <1>6, <1>7 DEF RefInv

LEMMA StepRefs ==
    ASSUME NoWrap, ProtocolInv, RefInv, [Next]_vars
    PROVE  RefInv'
<1>1. ASSUME NEW p \in Producers, ProducerStep(p)
      PROVE  RefInv'
  <2>1. CASE DetachPromise(p) \/ BreakPromise(p) \/ \E v \in Values : SetValue(p, v)
    BY <2>1, ProducerKeepsRefs, StepKeepsRefs, ThreadFacts
  <2>2. CASE DropPromise(p)
    BY <2>2, StepRefHandles
  <2>3. CASE \E q \in Producers : CopyPromise(p, q)
    BY <2>3, StepRefPromises
  <2> QED
    BY <1>1, <2>1, <2>2, <2>3 DEF ProducerStep
<1>2. ASSUME ConsumerStep
      PROVE  RefInv'
  <2>1. CASE Via \/ SetForceSched \/ Checkout \/ Then \/ WaitCheck \/ WaitSet \/ WaitDone
    BY <2>1, ConsumerKeepsRefs, StepKeepsRefs, ThreadFacts
  <2>2. CASE DropFuture
    BY <2>2, StepRefHandles
  <2>3. CASE \E p \in Producers : HandOut(p)
    BY <2>3, StepRefPromises
  <2> QED
    BY <1>2, <2>1, <2>2, <2>3 DEF ConsumerStep
<1>3. ASSUME NEW t \in Threads, ThreadStep(t)
      PROVE  RefInv'
  <2>1. CASE LoadState(t) \/ CasStart(t) \/ CasDone(t) \/ RunContinuation(t) \/ DerefGuard(t)
    BY <2>1, MeetingKeepsRefs, StepKeepsRefs
  <2>2. CASE ScheduleInplace(t) \/ ScheduleSubmit(t)
    BY <2>2, StepRefSchedule
  <2>3. CASE Accepted(t)
    BY <2>3, StepRefClosure
  <2>4. CASE Rejected(t) \/ DropGuard(t)
    BY <2>4, StepRefDrop
  <2> QED
    BY <1>3, <2>1, <2>2, <2>3, <2>4 DEF ThreadStep
<1>4. CASE UNCHANGED vars
  <2>1. KeepsRefs(Consumer)
    BY <1>4 DEF vars, object, threads, KeepsRefs, PromisesLive
  <2> QED
    BY <2>1, StepKeepsRefs, ThreadFacts
<1> QED
  BY <1>1, <1>2, <1>3, <1>4, StepRefClosure DEF Next, Terminated

\* detachOne and derefContinuation: as long as the uint8_t _attached cannot wrap, the
\* object is deleted exactly with its last reference and the continuation is destroyed
\* only after its call, in whatever order the threads drop their references.
THEOREM FutureNothingDangles ==
    ASSUME NoWrap PROVE Spec => []NothingDangles
<1>1. Init => RefInv
  BY InitRefs
<1>2. ProtocolInv /\ RefInv /\ [Next]_vars => RefInv'
  BY StepRefs
<1>3. ProtocolInv /\ RefInv => NothingDangles
  <2> SUFFICES ASSUME ProtocolInv, RefInv PROVE NothingDangles
    OBVIOUS
  <2>1. ContinuationOutlivesRun
    BY DEF ContinuationOutlivesRun, RefInv, DestroyedLate, ProtocolInv, OneCall, Calling, CallLabels
  <2>2. GuardRefs = {} <=> task # "queued" /\ \A t \in Threads : pc[t] \notin GuardLabels
    <3>1. GuardRefs = {} <=> \A t \in Threads : \A k \in {"first", "second", "closure"} : ~HasGuard(t, k)
      <4>1. \A t \in Threads : \A k \in {"first", "second", "closure"} :
               HasGuard(t, k) <=> <<t, k>> \in GuardRefs
        BY DEF GuardRefs
      <4>2. ASSUME NEW r \in GuardRefs
            PROVE  \E t \in Threads : \E k \in {"first", "second", "closure"} : HasGuard(t, k)
        BY DEF GuardRefs
      <4> QED
        BY <4>1, <4>2
    <3> QED
      BY <3>1, ThreadFacts DEF HasGuard, GuardLabels
  <2>3. \A t \in Threads : pc[t] \in GuardLabels <=> Guards(t) > 0
    BY DEF Guards, GuardLabels
  <2>4. /\ Cardinality(GuardRefs) = 0 <=> GuardRefs = {}
        /\ Cardinality(PromisesLive) = 0 <=> PromisesLive = {}
    BY GuardsFinite, LiveFinite, FS_EmptySet
  <2>5. HandleCount = 0 <=> PromisesLive = {} /\ pc[Consumer] = "done" /\ Parked = 0
    <3>1. HandleCount = 0 <=> Cardinality(PromisesLive) = 0 /\ pc[Consumer] = "done" /\ Parked = 0
      BY LiveFinite, BoundsAssumption DEF HandleCount
    <3> QED
      BY <2>4, <3>1
  <2>6. HandleCount + Cardinality(GuardRefs) = 0 <=> HandleCount = 0 /\ Cardinality(GuardRefs) = 0
    BY GuardsFinite, HandleFacts
  <2>7. Parked > 0 <=> Parked # 0
    BY BoundsAssumption
  <2>8. (attached = 0) <=> ~SomeoneHolds
    BY <2>2, <2>3, <2>4, <2>5, <2>6, <2>7, Zenon DEF SomeoneHolds, FutureLive, RefInv, RefCount
  <2>9. DeletedWithLastReference
    BY <2>8 DEF DeletedWithLastReference, RefInv, RefCount
  <2> QED
    BY <2>1, <2>9 DEF NothingDangles
<1> QED
  BY <1>1, <1>2, <1>3, FutureProtocol, PTL DEF Spec
====
