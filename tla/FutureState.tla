---- MODULE FutureState ----
(* The shared state behind one Promise/Future pair: Promise.h, Future.h and        *)
(* FutureState.h. One step is one atomic access of _state, _attached, _promiseRef  *)
(* or _continuationRef, with the plain code around it that no other thread sees.   *)
(* Producer threads own copies of the Promise, the Consumer thread owns the        *)
(* Future, and the Worker stands for the thread of the Executor that runs what     *)
(* Executor::schedule accepted.                                                    *)
EXTENDS Integers, Sequences, FiniteSets

CONSTANTS
    Producers,    \* threads that may own a copy of the Promise
    PoolThreads,  \* the producers for which currentThreadInExecutor() is true
    Consumer,     \* the thread that owns the Future
    Worker,       \* the thread of the executor that runs the closure
    Values,       \* what setValue is called with
    Uses,         \* what the consumer does with the Future: "then", "wait", "drop"
    ForcedWait,   \* whether wait() is called on a pair whose promise did forceSched()
    MaxCalls,     \* bound: calls of setValue per Promise copy
    Parked,       \* further Promise copies, stored away and never used
    ChecksResult, \* FALSE for GCC 12 and later: setResult has no first logicAssert
    WeakMemory    \* TRUE where compare_exchange with release does not acquire

ASSUME ProducersAssumption ==
    /\ IsFiniteSet(Producers)
    /\ PoolThreads \subseteq Producers
    /\ Consumer # Worker /\ {Consumer, Worker} \cap Producers = {}
ASSUME ValuesAssumption == Values \cap {"nothing", "broken", "moved"} = {}
ASSUME BoundsAssumption ==
    /\ MaxCalls \in Nat /\ Parked \in Nat
    /\ Uses \subseteq {"then", "wait", "drop"}
    /\ {ForcedWait, ChecksResult, WeakMemory} \subseteq BOOLEAN

\* _attached and _continuationRef are std::atomic<uint8_t>
RefMod == 256
ASSUME ParkedAssumption == Parked + 2 \in 0 .. RefMod - 1
Inc(ref, n) == (ref + n) % RefMod
Dec(ref) == (ref + RefMod - 1) % RefMod

VARIABLES
    state,           \* _state
    tryValue,        \* _try_value: "nothing", a value, "broken" or "moved" (from)
    continuation,    \* _continuation: "none", "set" or "destroyed"
    attached,        \* _attached
    promiseRef,      \* _promiseRef
    continuationRef, \* _continuationRef
    executor,        \* _executor # nullptr
    context,         \* _context # NULLCTX
    forceSched,      \* _forceSched
    deleted,         \* `delete this` has run
    promise,         \* per producer, its Promise: "none", "held", "dying" or "gone"
    pc,              \* per thread, the next atomic step
    loaded,          \* per thread, the local variable `state`
    visible,         \* per thread, the sides whose writes happen before its reads
    calls,           \* per producer, setValue calls made
    waiting,         \* the consumer is inside Future::wait
    task,            \* the closure handed to the executor: "none", "queued", "taken"
    delivered        \* what each call of _continuation found

object == <<state, tryValue, continuation, attached, promiseRef, continuationRef,
            executor, context, forceSched, deleted>>
refs == <<attached, continuationRef, deleted, continuation>>
setup == <<executor, context, forceSched>>
threads == <<promise, loaded, visible, calls, waiting>>
vars == <<object, threads, pc, task, delivered>>

Threads == Producers \cup {Consumer, Worker}
Results == Values \cup {"broken"}
HasResult == state \in {"ONLY_RESULT", "DONE"}
Goto(t, label) == pc' = [pc EXCEPT ![t] = label]

Init ==
    /\ state = "START" /\ tryValue = "nothing" /\ continuation = "none"
    /\ attached = 2 + Parked /\ promiseRef = 1 + Parked /\ continuationRef = 0
    /\ executor = FALSE /\ context = FALSE /\ forceSched = FALSE
    /\ deleted = FALSE
    /\ promise = [p \in Producers |-> "none"]
    /\ pc = [t \in Threads |-> IF t = Consumer THEN "setup" ELSE "idle"]
    /\ loaded = [t \in Threads |-> "START"]
    /\ visible = [t \in Threads |-> CASE t = Consumer -> {"continuation"}
                                    [] t = Worker -> {}
                                    [] OTHER -> {"result"}]
    /\ calls = [p \in Producers |-> 0]
    /\ waiting = FALSE
    /\ task = "none" /\ delivered = <<>>

----
(* Set-up, by the thread that made the pair: getFuture().via(ex),                  *)
(* promise.forceSched().checkout(), and the Promise moved to a producer.           *)

Via ==
    /\ pc[Consumer] = "setup"
    /\ executor' = TRUE
    /\ UNCHANGED <<state, tryValue, refs, promiseRef, context, forceSched, threads,
                   pc, task, delivered>>

\* refuses, with a message, when there is no executor
SetForceSched ==
    /\ pc[Consumer] = "setup" /\ executor
    /\ forceSched' = TRUE
    /\ UNCHANGED <<state, tryValue, refs, promiseRef, executor, context, threads,
                   pc, task, delivered>>

Checkout ==
    /\ pc[Consumer] = "setup" /\ executor
    /\ context' = TRUE
    /\ UNCHANGED <<state, tryValue, refs, promiseRef, executor, forceSched, threads,
                   pc, task, delivered>>

HandOut(p) ==
    /\ pc[Consumer] = "setup" /\ promise[p] = "none"
    /\ promise' = [promise EXCEPT ![p] = "held"]
    /\ Goto(Consumer, "hold")
    /\ UNCHANGED <<object, loaded, visible, calls, waiting, task, delivered>>

----
(* Reference counts *)

\* `old == 1` deletes; the counter wraps like the uint8_t it is
DetachOne ==
    /\ attached' = Dec(attached)
    /\ deleted' = (deleted \/ attached = 1)

\* `_continuation.~Continuation()` when the last ContinuationReference goes
DerefContinuation ==
    /\ continuationRef' = Dec(continuationRef)
    /\ continuation' = IF continuationRef = 1 THEN "destroyed" ELSE continuation

\* faulty variant: a copy that only calls attachOne()
CopyPromiseUncounted(p, q) ==
    /\ pc[p] = "idle" /\ promise[p] = "held" /\ promise[q] = "none"
    /\ promise' = [promise EXCEPT ![q] = "held"]
    /\ UNCHANGED promiseRef
    /\ attached' = Inc(attached, 1)
    /\ UNCHANGED <<state, tryValue, continuation, continuationRef, setup, deleted,
                   loaded, visible, calls, waiting, pc, task, delivered>>

\* Promise(const Promise&): attachPromise()
CopyPromise(p, q) ==
    /\ pc[p] = "idle" /\ promise[p] = "held" /\ promise[q] = "none"
    /\ promise' = [promise EXCEPT ![q] = "held"]
    /\ promiseRef' = promiseRef + 1
    /\ attached' = Inc(attached, 1)
    /\ UNCHANGED <<state, tryValue, continuation, continuationRef, setup, deleted,
                   loaded, visible, calls, waiting, pc, task, delivered>>

----
(* Promise::setValue, setException and ~Promise: setResult() *)

InSetResult(p) == pc[p] \in {"srLoad", "casStart", "casDone"}

\* faulty variant: setResult() without its first logicAssert
SetValueUnchecked(p, v) ==
    /\ pc[p] = "idle" /\ promise[p] = "held" /\ calls[p] < MaxCalls
    /\ \A q \in Producers : ~InSetResult(q)
    /\ calls' = [calls EXCEPT ![p] = @ + 1]
    /\ tryValue' = v
    /\ Goto(p, "srLoad")
    /\ UNCHANGED <<state, refs, promiseRef, setup, promise, loaded, visible, waiting,
                   task,
                   delivered>>

\* The caller's contract: copies of one Promise do not call setValue at the same
\* time. A second call, later, meets the first logicAssert and throws.
SetValue(p, v) ==
    /\ pc[p] = "idle" /\ promise[p] = "held" /\ calls[p] < MaxCalls
    /\ \A q \in Producers : ~InSetResult(q)
    /\ calls' = [calls EXCEPT ![p] = @ + 1]
    /\ \/ /\ ChecksResult /\ HasResult
          /\ UNCHANGED <<tryValue, pc>>
       \/ /\ ~(ChecksResult /\ HasResult)
          /\ tryValue' = v
          /\ Goto(p, "srLoad")
    /\ UNCHANGED <<state, refs, promiseRef, setup, promise, loaded, visible, waiting,
                   task,
                   delivered>>

DetachPromise(p) ==
    /\ pc[p] = "idle" /\ promise[p] = "held"
    /\ promise' = [promise EXCEPT ![p] = "dying"]
    /\ promiseRef' = promiseRef - 1
    /\ Goto(p, IF promiseRef = 1 THEN "lastPromise" ELSE "detach")
    /\ UNCHANGED <<state, tryValue, refs, setup, loaded, visible, calls, waiting, task,
                   delivered>>

BreakPromise(p) ==
    /\ pc[p] = "lastPromise"
    /\ \/ /\ HasResult
          /\ Goto(p, "detach")
          /\ UNCHANGED tryValue
       \/ /\ ~HasResult
          /\ tryValue' = "broken"
          /\ Goto(p, "srLoad")
    /\ UNCHANGED <<state, refs, promiseRef, setup, threads, task, delivered>>

----
(* Future::thenImpl and Future::wait: setContinuation() *)

Then ==
    /\ pc[Consumer] = "hold" /\ "then" \in Uses
    /\ continuation' = "set"
    /\ Goto(Consumer, "scLoad")
    /\ UNCHANGED <<state, tryValue, attached, promiseRef, continuationRef, setup,
                   deleted, threads, task, delivered>>

WaitCheck ==
    /\ pc[Consumer] = "hold" /\ "wait" \in Uses /\ (forceSched => ForcedWait)
    /\ Goto(Consumer, IF HasResult THEN "dropFuture" ELSE "waitSet")
    /\ UNCHANGED <<object, threads, task, delivered>>

WaitSet ==
    /\ pc[Consumer] = "waitSet"
    /\ executor' = FALSE
    /\ continuation' = "set"
    /\ waiting' = TRUE
    /\ Goto(Consumer, "scLoad")
    /\ UNCHANGED <<state, tryValue, attached, promiseRef, continuationRef, context,
                   forceSched, deleted, promise, loaded, visible, calls, task,
                   delivered>>

----
(* The meeting of result and continuation on _state *)

\* the state each side publishes, and the one it expects of the other side
Own(t) == IF t = Consumer THEN "ONLY_CONTINUATION" ELSE "ONLY_RESULT"
Other(t) == IF t = Consumer THEN "ONLY_RESULT" ELSE "ONLY_CONTINUATION"

Acquire(t) == [visible EXCEPT ![t] = {"result", "continuation"}]

\* where setResult and setContinuation return to
Return(t) ==
    IF t = Consumer THEN "returned"
    ELSE IF t = Worker THEN "done"
    ELSE IF promise[t] = "dying" THEN "detach" ELSE "idle"

\* `switch (state)` on an acquire load; the default case throws std::logic_error
LoadState(t) ==
    /\ pc[t] \in {"srLoad", "scLoad"}
    /\ loaded' = [loaded EXCEPT ![t] = state]
    /\ visible' = IF state = Other(t) THEN Acquire(t) ELSE visible
    /\ Goto(t, CASE state = "START" -> "casStart"
                 [] state = Other(t) -> "casDone"
                 [] OTHER -> Return(t))
    /\ UNCHANGED <<object, promise, calls, waiting, task, delivered>>

\* faulty variant: no fall-through after a failed compare_exchange
CasStartGivesUp(t) ==
    /\ pc[t] = "casStart"
    /\ \/ /\ state = "START"
          /\ state' = Own(t)
          /\ Goto(t, Return(t))
          /\ UNCHANGED <<loaded, visible>>
       \/ /\ state # "START"
          /\ loaded' = [loaded EXCEPT ![t] = state]
          /\ visible' = IF WeakMemory THEN visible ELSE Acquire(t)
          /\ Goto(t, Return(t))
          /\ UNCHANGED state
    /\ UNCHANGED <<tryValue, refs, promiseRef, setup, promise, calls, waiting, task,
                   delivered>>

\* faulty variant: a failed compare_exchange that does not reload `state`
CasStartKeepsExpected(t) ==
    /\ pc[t] = "casStart"
    /\ \/ /\ state = "START"
          /\ state' = Own(t)
          /\ Goto(t, Return(t))
          /\ UNCHANGED <<loaded, visible>>
       \/ /\ state # "START"
          /\ UNCHANGED loaded
          /\ visible' = IF WeakMemory THEN visible ELSE Acquire(t)
          /\ Goto(t, "casDone")
          /\ UNCHANGED state
    /\ UNCHANGED <<tryValue, refs, promiseRef, setup, promise, calls, waiting, task,
                   delivered>>

\* A failed compare_exchange leaves what it read in the local variable and falls
\* through. On x86 it is a full barrier; memory_order_release alone acquires nothing.
CasStart(t) ==
    /\ pc[t] = "casStart"
    /\ \/ /\ state = "START"
          /\ state' = Own(t)
          /\ Goto(t, Return(t))
          /\ UNCHANGED <<loaded, visible>>
       \/ /\ state # "START"
          /\ loaded' = [loaded EXCEPT ![t] = state]
          /\ visible' = IF WeakMemory THEN visible ELSE Acquire(t)
          /\ Goto(t, "casDone")
          /\ UNCHANGED state
    /\ UNCHANGED <<tryValue, refs, promiseRef, setup, promise, calls, waiting, task,
                   delivered>>

CasDone(t) ==
    /\ pc[t] = "casDone"
    /\ IF state = loaded[t]
       THEN state' = "DONE" /\ Goto(t, "sched")
       ELSE UNCHANGED state /\ Goto(t, Return(t))
    /\ UNCHANGED <<tryValue, refs, promiseRef, setup, threads, task, delivered>>

----
(* scheduleContinuation() *)

Inplace(t) == ~forceSched /\ (~executor \/ t = Consumer \/ t \in PoolThreads)

\* one ContinuationReference guards the call
ScheduleInplace(t) ==
    /\ pc[t] = "sched" /\ Inplace(t)
    /\ attached' = Inc(attached, 1)
    /\ continuationRef' = Inc(continuationRef, 1)
    /\ Goto(t, "run")
    /\ UNCHANGED <<state, tryValue, continuation, promiseRef, setup, deleted,
                   threads, task, delivered>>

\* faulty variant: no guardForException
ScheduleSubmitOneGuard(t) ==
    /\ pc[t] = "sched" /\ ~Inplace(t)
    /\ attached' = Inc(attached, 1)
    /\ continuationRef' = Inc(continuationRef, 1)
    /\ Goto(t, IF executor THEN "submit" ELSE "nullExecutor")
    /\ UNCHANGED <<state, tryValue, continuation, promiseRef, setup, deleted,
                   threads, task, delivered>>

\* two: one moves into the closure, one stays for the case that scheduling fails
ScheduleSubmit(t) ==
    /\ pc[t] = "sched" /\ ~Inplace(t)
    /\ attached' = Inc(attached, 2)
    /\ continuationRef' = Inc(continuationRef, 2)
    /\ Goto(t, IF executor THEN "submit" ELSE "nullExecutor")
    /\ UNCHANGED <<state, tryValue, continuation, promiseRef, setup, deleted,
                   threads, task, delivered>>

\* faulty variant: the fallback also taken when schedule() returned true
AcceptedRunsToo(t) ==
    /\ pc[t] = "submit"
    /\ task' = "queued"
    /\ visible' = [visible EXCEPT ![Worker] = visible[t]]
    /\ Goto(t, "run")
    /\ UNCHANGED <<object, promise, loaded, calls, waiting, delivered>>

\* Executor::schedule or checkin took the closure
Accepted(t) ==
    /\ pc[t] = "submit"
    /\ task' = "queued"
    /\ visible' = [visible EXCEPT ![Worker] = visible[t]]
    /\ Goto(t, "deref")
    /\ UNCHANGED <<object, promise, loaded, calls, waiting, delivered>>

\* It returned false or threw: the closure and its guard are gone, run in place
Rejected(t) ==
    /\ pc[t] = "submit"
    /\ DerefContinuation
    /\ DetachOne
    /\ Goto(t, "run")
    /\ UNCHANGED <<state, tryValue, promiseRef, setup, threads, task, delivered>>

WorkerTakes ==
    /\ pc[Worker] = "idle" /\ task = "queued"
    /\ task' = "taken"
    /\ Goto(Worker, "run")
    /\ UNCHANGED <<object, threads, delivered>>

\* Without acquire, what the other side wrote before its compare_exchange may
\* still be invisible: the continuation to a producer, the value to the consumer.
Seen(t, side, actual, stale) ==
    IF side \in visible[t] THEN {actual} ELSE {actual, stale}

\* _continuation(std::move(_try_value))
RunContinuation(t) ==
    /\ pc[t] = "run"
    /\ \E c \in Seen(t, "continuation", continuation, "none"),
          v \in Seen(t, "result", tryValue, "nothing") :
          delivered' = Append(delivered, [cont |-> c, value |-> v])
    /\ tryValue' = "moved"
    /\ Goto(t, "deref")
    /\ UNCHANGED <<state, refs, promiseRef, setup, threads, task>>

\* ~ContinuationReference: derefContinuation() ...
DerefGuard(t) ==
    /\ pc[t] = "deref"
    /\ DerefContinuation
    /\ Goto(t, "dropGuard")
    /\ UNCHANGED <<state, tryValue, attached, promiseRef, setup, deleted, threads,
                   task, delivered>>

\* ... then detachOne()
DropGuard(t) ==
    /\ pc[t] = "dropGuard"
    /\ DetachOne
    /\ Goto(t, Return(t))
    /\ UNCHANGED <<state, tryValue, continuation, promiseRef, continuationRef, setup,
                   threads, task, delivered>>

----
(* The last steps of ~Promise and ~Future *)

DropPromise(p) ==
    /\ pc[p] = "detach"
    /\ DetachOne
    /\ promise' = [promise EXCEPT ![p] = "gone"]
    /\ Goto(p, "done")
    /\ UNCHANGED <<state, tryValue, continuation, promiseRef, continuationRef, setup,
                   loaded, visible, calls, waiting, task, delivered>>

\* Future::wait blocks on its condition variable until the continuation has run
WaitDone ==
    /\ pc[Consumer] = "returned"
    /\ waiting => delivered # <<>>
    /\ Goto(Consumer, "dropFuture")
    /\ UNCHANGED <<object, threads, task, delivered>>

DropFuture ==
    /\ \/ pc[Consumer] = "dropFuture"
       \/ pc[Consumer] = "hold" /\ "drop" \in Uses
    /\ DetachOne
    /\ Goto(Consumer, "done")
    /\ UNCHANGED <<state, tryValue, continuation, promiseRef, continuationRef, setup,
                   threads, task, delivered>>

----
\* Every handle is gone and every thread is through: the pair has served its purpose.
Terminated ==
    /\ \A p \in Producers : promise[p] \in {"none", "gone"}
    /\ pc[Consumer] = "done" /\ task # "queued" /\ pc[Worker] \in {"idle", "done"}
    /\ UNCHANGED vars

ProducerStep(p) ==
    \/ DetachPromise(p) \/ BreakPromise(p) \/ DropPromise(p)
    \/ \E v \in Values : SetValue(p, v)
    \/ \E q \in Producers : CopyPromise(p, q)
ConsumerStep ==
    \/ Via \/ SetForceSched \/ Checkout \/ \E p \in Producers : HandOut(p)
    \/ Then \/ WaitCheck \/ WaitSet \/ WaitDone \/ DropFuture
ThreadStep(t) ==
    \/ LoadState(t) \/ CasStart(t) \/ CasDone(t)
    \/ ScheduleInplace(t) \/ ScheduleSubmit(t) \/ Accepted(t) \/ Rejected(t)
    \/ RunContinuation(t) \/ DerefGuard(t) \/ DropGuard(t)

Next ==
    \/ \E p \in Producers : ProducerStep(p)
    \/ ConsumerStep
    \/ WorkerTakes
    \/ \E t \in Threads : ThreadStep(t)
    \/ Terminated

Spec == Init /\ [][Next]_vars

\* Threads are scheduled; a Promise, a Future are destroyed in the end (C++ scopes);
\* the executor runs what it accepted.
Fairness ==
    /\ \A p \in Producers :
          WF_vars(ThreadStep(p) \/ DetachPromise(p) \/ BreakPromise(p) \/ DropPromise(p))
    /\ WF_vars(\E p \in Producers : HandOut(p))
    /\ WF_vars(ThreadStep(Consumer) \/ Then \/ WaitCheck \/ WaitSet \/ WaitDone \/ DropFuture)
    /\ WF_vars(ThreadStep(Worker) \/ WorkerTakes)
FairSpec == Spec /\ Fairness

----
(* Properties *)

Scheduling == {"casStart", "casDone", "sched", "submit", "nullExecutor", "run",
               "deref", "dropGuard", "done"}
ProducerLabels == Scheduling \cup {"idle", "srLoad", "lastPromise", "detach"}
ConsumerLabels == Scheduling \cup {"setup", "hold", "waitSet", "scLoad", "returned",
                                   "dropFuture"}
WorkerLabels == {"idle", "run", "deref", "dropGuard", "done"}

TypeOK ==
    /\ state \in {"START", "ONLY_RESULT", "ONLY_CONTINUATION", "DONE"}
    /\ tryValue \in Results \cup {"nothing", "moved"}
    /\ continuation \in {"none", "set", "destroyed"}
    /\ attached \in 0 .. RefMod - 1 /\ continuationRef \in 0 .. RefMod - 1
    /\ promiseRef \in Nat
    /\ {executor, context, forceSched, deleted, waiting} \subseteq BOOLEAN
    /\ promise \in [Producers -> {"none", "held", "dying", "gone"}]
    /\ pc \in [Threads -> ProducerLabels \cup ConsumerLabels \cup WorkerLabels]
    /\ \A p \in Producers : pc[p] \in ProducerLabels
    /\ pc[Consumer] \in ConsumerLabels /\ pc[Worker] \in WorkerLabels
    /\ loaded \in [Threads -> {"START", "ONLY_RESULT", "ONLY_CONTINUATION", "DONE"}]
    /\ visible \in [Threads -> SUBSET {"result", "continuation"}]
    /\ calls \in [Producers -> 0 .. MaxCalls]
    /\ task \in {"none", "queued", "taken"}
    /\ delivered \in Seq([cont : {"none", "set", "destroyed"},
                          value : Results \cup {"nothing", "moved"}])

\* scheduleContinuation: the continuation is called at most once, whichever side
\* came last, and it finds a constructed continuation and a result.
DeliveredSound ==
    /\ Len(delivered) <= 1
    /\ \A i \in 1 .. Len(delivered) :
          delivered[i].cont = "set" /\ delivered[i].value \in Results

\* The references the code believes in: Promise copies, the Future, the
\* ContinuationReferences of the threads and of the queued closure.
Guards(t) == IF pc[t] \in {"submit", "nullExecutor"} THEN 2
             ELSE IF pc[t] \in {"run", "deref", "dropGuard"} THEN 1 ELSE 0
PromisesLive == {p \in Producers : promise[p] \in {"held", "dying"}}
FutureLive == pc[Consumer] # "done"
SomeoneHolds ==
    \/ PromisesLive # {} \/ FutureLive \/ task = "queued" \/ Parked > 0
    \/ \E t \in Threads : Guards(t) > 0

\* detachOne: the object is deleted exactly when its last reference is dropped, so
\* no thread can touch it afterwards and it is not leaked.
DeletedWithLastReference == deleted <=> ~SomeoneHolds

\* derefContinuation: the continuation is destroyed only after it has run and
\* nobody is going to run it.
ContinuationOutlivesRun ==
    continuation = "destroyed" =>
        delivered # <<>> /\ task # "queued" /\ \A t \in Threads : pc[t] # "run"

\* detachOne and derefContinuation together: neither the object nor the continuation in
\* it is used after its last reference, in whatever order three threads drop theirs.
NothingDangles == DeletedWithLastReference /\ ContinuationOutlivesRun

\* setResult's and setContinuation's assert on the fall-through: a thread that lost
\* the race from START meets the other side's state, and nobody moves it.
FallthroughAssertHolds ==
    \A t \in Threads : pc[t] = "casDone" => state = Other(t) /\ loaded[t] = state

\* scheduleContinuation calls the executor only when there is one.
ExecutorNotNull == \A t \in Threads : pc[t] # "nullExecutor"

\* FutureState implements OneShot: the result is published by the step that moves
\* _state out of START or ONLY_CONTINUATION, the continuation by the symmetric one.
Published ==
    IF ~HasResult THEN "nothing"
    ELSE IF delivered # <<>> THEN delivered[1].value ELSE tryValue
Promised == INSTANCE OneShot WITH
    Nothing <- "nothing", result <- Published,
    attached <- state \in {"ONLY_CONTINUATION", "DONE"},
    outcome <- IF delivered = <<>> THEN "nothing" ELSE delivered[1].value
ImplementsOneShot == Promised!Spec

\* Future::wait returns, however the result and the wait interleave.
WaitReturns == waiting ~> pc[Consumer] = "done"
====
