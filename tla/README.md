# A TLA+ development of async_simple

async_simple is a C++ library of light-weight asynchronous components: stackless
coroutines (`Lazy`), stackful ones (`uthread`), `Future`/`Promise`, an executor
interface with a thread pool behind it, synchronisation primitives that suspend
coroutines instead of blocking threads, and signals for cancellation. This directory
models the parts whose correctness depends on the order of atomic accesses by several
threads, checks them with TLC on small instances, and proves the central ones with
TLAPS for every instance. Source paths below are relative to `src/async_simple/`.

## 1. Inventory

| Component | State | Operations | Talks to | What is hard | What makes it correct |
|---|---|---|---|---|---|
| `FutureState`, `Promise`, `Future` | `_state` (START, ONLY_RESULT, ONLY_CONTINUATION, DONE), `_try_value`, `_continuation`, three reference counts, `_executor`, `_context`, `_forceSched` | `setResult`, `setContinuation`, `scheduleContinuation`, attach/detach, `wait`, `via`, `checkout`, `forceSched` | executor (`schedule`, `checkin`) | result and continuation race; self-deletion by the last of several threads; an executor that refuses; memory order | one result, one call, no use after free, `wait` returns |
| `coro::Mutex` | one atomic word, one list of the holder | `tryLock`, `coLock`, `unlock` | resumes coroutines inline | two lists; compare_exchange against unlock | exclusion, FIFO, no waiter lost |
| `SpinLock`, `ConditionVariable<Lock>` | `_locked`, LIFO list of awaiters | `coLock`, `lock`, `unlock`; `wait`, `notifyOne`, `notifyAll` | `Yield` (executor, signal) | resume of a waiter that destroys its awaiter; cancellation in `wait` | exclusion, waiters resumed once |
| `SharedMutex` | reader count with a writer flag, two gates | `coLock`, `tryLock`, `unlock` and the shared ones | the two above | who wakes whom at which gate | exclusion, writer priority, no lost wake-up |
| `CountingSemaphore` | `count_` | `acquire`, `try_acquire`, `release` | the two above | newcomers overtake woken waiters | permits conserved, none idle while somebody sleeps |
| `Latch`, `CountEvent`, `Notifier` | a count, a list | `count_down`, `wait`, `down`, `notify`, `reset` | coroutines | last arrival against the waiter | resumed exactly once |
| `ThreadPool`, `Queue`, `SimpleExecutor` | queues with a mutex each, `_stop` twice, thread-local ids | `scheduleById`, worker loop, destructor; `schedule`, `checkout`, `checkin` | every component that schedules | stop against push; stealing; sleeping workers | jobs run once, at home when pinned, destructor returns |
| `Signal`, `Slot` | `_state` bits, list of slots; per slot a filter, a list of handler managers, a chained signal | `emits`, `registSlot`, `emplace`, `clear`, filters, chaining | cancellable awaiters | emit against emplace and clear | handler called exactly when its owner was told so |
| `Executor` with timers, `Sleep` | thread and promise of a timed task | timed `schedule`, `after` | `Signal` | timeout against cancellation | resumed once |
| `Lazy`, `ViaCoroutine`, `syncAwait`, `Yield` | promise with continuation, executor, local | `start`, `co_await`, `via`, `setLazyLocal` | executor, `Signal` | rescheduling, cancellation points | resumes in its own executor |
| `collectAll`, `collectAny`, windowed and parallel forms | count event, results, winner | start all, count down, first finisher cancels the rest | `Lazy`, `Signal`, executor | last finisher against the awaiting coroutine | every result once, one winner |
| `FutureAwaiter` | a flag shared by two callbacks | continuation and cancellation handler | `Future`, `Signal` | the two race | resumed once |
| `Dispatch` | executor of the local | move a coroutine to another executor | executor | refusal | runs on the target or throws |
| `uthread` | context, promise | `async`, `await`, `latch`, `collectAll` | `Future`, executor | switching out while the future completes | resumed once |
| `Try`, `LocalState`, `Generator`, allocators, traits, `SimpleIOExecutor`, demos, benchmarks, debugger scripts | values, frames | | | single-threaded or pure I/O | |

`PROJECT.json` lists the same components with their status, and under `hazards` the
lines at which the hard behaviours bite, each with the properties that watch it.

## 2. Modules

Each module keeps the source's names; `PROJECT.json` maps every definition to lines. A
definition whose comment begins with "faulty variant" is never used by a specification:
it is a plausible mistake in the definition below it, kept to show that some property
would notice it.

| Module | Models | Role |
|---|---|---|
| `OneShot` | | abstract: resolve once, attach once, deliver that result once |
| `FutureState` | `FutureState.h`, `Promise.h`, `Future.h` | implements `OneShot` |
| `FutureStateProofs` | | theorems about it |
| `FifoLock` | | abstract: one holder, a queue served in order |
| `CoroMutex` | `coro/Mutex.h` | implements `FifoLock` |
| `CoroMutexProofs` | | theorems about it |
| `ThreadPool`, `MCThreadPool` | `util/ThreadPool.h`, `util/Queue.h`, `executors/SimpleExecutor.h` | the executor |
| `ThreadPoolProofs` | | theorems about it |
| `SpinCondition` | `coro/SpinLock.h`, `coro/ConditionVariable.h` | base of the next four |
| `Latch` | `coro/Latch.h` | theorem in `SemaphoreProofs` |
| `SharedMutex`, `SharedMutexProofs` | `coro/SharedMutex.h` | model and theorems |
| `Semaphore`, `SemaphoreProofs` | `coro/Semaphore.h` | model; theorems about it and, as instance `L`, about `Latch` |
| `SemaphoreCancel` | the same with the cancellation of `Yield` (`coro/Lazy.h`) | extends `Semaphore` |
| `Signal`, `MCSignal`, `SignalProofs` | `Signal.h` | model and theorems |
| `Collect`, `CollectProofs` | `coro/Collect.h`, `coro/CountEvent.h` | model; theorems about it and, as instance `U`, about `Uthread` |
| `Await` | `coro/FutureAwaiter.h`, `ResumeBySchedule.h`, `ViaCoroutine.h`, `Sleep.h`, `Dispatch.h`, `SyncAwait.h`, `Lazy.h`, the timed schedule of `Executor.h` | composes what `FutureState`, `Signal` and `ThreadPool` promise |
| `AwaitProofs` | | theorems about it |
| `Uthread` | `uthread/` | over what `FutureState` and `ThreadPool` promise |
| `SignalReorder` | `Slot::emplace` with a load that overtakes a store | extends `MCSignal` |

**FutureState.** A step is one atomic access with the plain code around it. Producers
own copies of the promise (`CopyPromise`, `SetValue`, and for `~Promise` `DetachPromise`,
`BreakPromise`, `DropPromise`), the consumer owns the future (`Then`, the three `Wait`
steps, `DropFuture`), and the worker is the executor's thread. `setResult` and
`setContinuation` are the same protocol with the sides exchanged, so `LoadState`,
`CasStart` and `CasDone` serve both, with `Own` and `Other` naming the sides. The
executor answers as it likes (`Accepted`, `Rejected`). `_attached` and
`_continuationRef` wrap like the `uint8_t` they are. `visible` records for each thread
which side's plain writes happen before its reads; where they do not, `RunContinuation`
may find the old contents. Copies of one promise do not call `setValue` at the same
time: that is a contract of the callers, without which `_try_value` itself is a data
race. Values kept in `LocalState` (a future made ready at once) are not shared, and left
out. In-place and deferred continuations are opaque: one that goes on to complete the
promise of `thenImpl` is a pair of its own.

**CoroMutex.** `_state` is `locked` with the list `stack`; a compare_exchange compares
only the word `StateWord`, so a list that changed and came back would be mistaken, as in
the code. Hand-over resumes the waiter inside `unlock`, hence one step makes the old
holder idle and the new one the holder. Spurious failures of `compare_exchange_weak`
lead to another turn of the same loop and are left out.

**ThreadPool.** A step is one critical section, one access of `_stop` or one notify.
The 2n probes of `try_push` and `try_pop_if` are one step that picks any queue or none:
a failed try changes nothing, and `std::mutex::try_lock` may fail at will. A condition
variable does not wake up spuriously here; since `pop` tests its predicate again, that
only removes behaviours in which a worker looks once more. Contexts are integers with
bit 30 set and cleared on a two's complement number.

**SpinCondition, SharedMutex, Semaphore, Latch.** Between taking and releasing the spin lock
nothing is visible to others, so the body is one step. `notifyOne` and `notifyAll`
resume waiters on the notifier's own thread; each runs until it finds the lock taken,
spins and yields, so "resumed" means "in `relock`". A semaphore begins with any count of
`Desired`, zero included, and anyone may release, whether it acquired before or not: that
is how the manual's `notifier(0)` is used. The one limit is the assertion of `release`,
which the callers have to keep: the count, with what the calls of `release` under way will
add, stays within `LeastMaxValue`. `given` and `acquired` are history: the permits the
semaphore began with or was given, and the `acquire`s and `try_acquire`s that got one.

**Signal.** An `emits()` is a stack of work items per emitter, because a slot's chained
signal is emitted before the rest of that slot; the slot's list of managers and its
chained signal are two loads and two steps. Each slot has one owner (the class says
that a slot is used by one thread at a time), any number of threads emit.

**Collect.** One parent awaits one of the `collect*` functions, chosen with its
arguments in `Init` (`call`). `BeginAll` and `BeginAny` are `await_ready` and the head of
`await_suspend`; the starting loop is a process of its own, since in the code it goes on
after a task has resumed the parent. A task started in place keeps the loop in
`"inline"` until it suspends or has run its callback to the end; other tasks run on
other threads. The callbacks are cut at the accesses that others can see: the count-down,
the emission, the resume. `alive` is the awaiter in the parent's frame; `misuse` records
that a step used it after the parent went on, or resumed a parent that was not suspended.
A task itself is opaque: it suspends or completes, with a value or an error. Vector and
variadic forms are the same protocol. `para` is the template argument that the called
function passes on (`collectAllWindowed` passes `true` and `collectAllWindowedPara`
`false`, the reverse of what their comments say; the model has both). Of the slot only
what `Signal` checks is used: a handler that is installed is taken once or cleared. The
slot may hold a handler that an earlier `FutureAwaiter` left there (`call.stale`): it does
nothing when called, `emplace` replaces it, but `clear`, in `checkHasCanceled`, takes it
for the awaiter's own (`Clear`, `Throws`), for `collectAny` and for the `Yield` between two
windows alike. The executor may refuse, and neither `collectAllPara` nor `Yield` looks at
the answer; without one `Yield` throws a `logic_error`.

**Await.** One coroutine, an outer `Lazy` that awaits an inner one, started by `syncAwait`
with or without an executor, comes to a few `co_await`s in turn (`current`), each of any
kind. `coro`, `thread` and, per `Lazy`, `executor` are the coroutine; `await[n]` is the
n-th awaiter with its future, timer and flag. `await_suspend` is cut where other threads
can come between: `AwaitResult` is `await_ready` with `checkout`, `EmplaceHandler` the
`tryEmplace`, `SetContinuation` the rest. A `Future` is abstracted to what `FutureState`
promises (its continuation is called once, by the side that comes second), a `Slot` to
what `Signal` promises (`emplace` is refused or the handler is called), and an executor
to a queue whose jobs may be pinned to a thread (`Checkin`), or refused. `handler` says
whose handler is in the slot, because `clear` does not ask. `misuse` records the
resumption of a coroutine that is not suspended at that point. Without an executor
`sleep` blocks the thread, and `Yield` throws. `sleep(ex, dur)` may name any executor, and
resumes the coroutine there while its promise still records its own: `host` is that
executor, until the coroutine is scheduled again. A future awaited meanwhile checks out a
context on a thread outside the recorded executor's pool; the `checkin` that follows has
undefined behaviour in the code, which the model records (`strayed`) and after which the
coroutine does not go on.

**Uthread.** A uthread calls `collectAll` with tasks that await a `Future` or the `Latch`,
or count it down. `stack` is, per worker, the chain of `link`s: who was switched in on
whom. `await` is cut into `AwaitCheck` (up to its continuation), `ThenTry` and
`SwitchOut`; what its promise does when the awaited future is set is `SetInner`, a
`checkin` at the home thread that is never in place, because of `forceSched`. `alive` is
the stack itself, freed by `join`'s continuation (`RunFree`) or by the creator
(`FinalSwitchOut`); freeing a task's closure drops its reference to `collectAll`'s
`Context`. When the executor refuses a `checkin`, `FutureState` calls the continuation in
place, on a stack that is still in use: the model records `misuse` and stops there.

## 3. Runs

| Run | Shows |
|---|---|
| `future` | Every set-up and use of a pair: the continuation runs at most once and finds itself and a result (`DeliveredSound`); the object is deleted exactly with its last reference and the continuation outlives its run (`NothingDangles`); the assertions of the fall-through hold; the pair implements `OneShot`, so a promise is broken only if nobody set it; `wait` returns. |
| `mutex` | Exclusion, both lists together hold each waiter once, FIFO order by refinement, every queued waiter acquires. |
| `thread_pool` | A job is in one place at a time; nobody sleeps over work unless the notify is still to come; pinned jobs run at home in spite of stealing; what is queued before the stop is run; the destructor returns. |
| `shared_mutex` | Exclusion with the exact meaning of flag and count, writer priority, somebody to wake each gate, everybody finishes. |
| `semaphore` | Every permit given is free, acquired once, or being released; the assertion of `release` holds and the awaiters are exactly the suspended coroutines (`ConservesPermits`); no permit is idle while a waiter sleeps (`NoIdlePermit`); in the end everybody is done or waits because all permits are used up (`AllFinish`). |
| `signal` | A handler is called at most once and only if its owner was not told otherwise; `emplace` refuses only after the trigger; no deleted handler is called (all in `CalledAsAnswered`); one emitter wins; an installed handler of a triggered signal is called. |
| `collect` | The parent is resumed once per `co_await`, and neither a callback nor the loop uses the awaiter afterwards; `collectAll` returns each task's own result in the order of the input, `collectAny` a winner's, except for an empty input and for the stale handler of `CollectStale.cfg`; they throw only when cancelled or at a `Yield` without an executor; windows are respected; the first finisher's signal reaches its window; the parent goes on, unless the executor refused. |
| `await` | Each suspension is ended by one resumption, whoever of continuation, handler, timer and queue comes first (`ResumedOnce`); the answer of `co_await` is what happened (`OutcomeIsTrue`); the coroutine runs on the executor its promises name, after a refused dispatch too, or on the one a `sleep(ex, dur)` put it on until it is scheduled again, and comes back to the context it left (`RunsInPlace`); a cancelled coroutine gets out of everything that can be cancelled although no promise is set (`CancelGetsOut`); and `syncAwait` returns if promises are set (`CallerReturns`), the last two unless an executor refuses or the coroutine strays. |
| `uthread` | A uthread is switched in only after it switched out, on its own thread, and no stack is freed under it (`SwitchedSafely`); `await` and the `Latch` do not return early, and `collectAll` not before its tasks have ended and are destroyed (`AwaitReturnsLate`), nor never, and every stack is freed (`AllFreed`). |

Three runs state what a comment, an assertion or the manual says and end in a
counterexample; `findings` quotes the lines.

| Run | Counterexample |
|---|---|
| `sleep_stale` | A future completes and leaves its cancellation handler in the slot; Terminate is emitted; before the emitter takes the handler the coroutine comes to a `sleep`, which does not suspend, clears the stale handler, takes that for "not cancelled" and returns at once. |
| `semaphore_cancel` | A Terminate signal makes the yield inside `wait`'s second lock throw; `acquire`'s `unique_lock` unlocks a lock it does not hold. |
| `signal_reorder` | The store of the handler manager and the load of the state are reordered: emplaced, triggered, never called. |

Five more findings have a configuration that shows them, to be run by hand with
`tlc -config X.cfg M`:

| Configuration | Counterexample |
|---|---|
| `FutureForcedWait.cfg` (`FutureState`) | `wait()` clears the executor; after `forceSched()` the result is nevertheless scheduled on it: a null pointer is called (`ExecutorNotNull`). |
| `FutureWeak.cfg` (`FutureState`) | The first compare_exchange of either side fails without acquiring and falls through; off x86 the continuation may be called without its value (`DeliveredSound`). |
| `SleepElsewhere.cfg` (`Await`) | A `Lazy` of one executor sleeps on another, where it goes on, and then awaits a future: `checkout` of its own executor encodes -1, and `checkin` uses that as an index (`ContextIsOwn`). |
| `CollectStale.cfg` (`Collect`) | A future has left its handler in the slot, Terminate is emitted, `collectAny` starts nothing, clears that handler, does not throw and goes on without a winner; the variadic form dereferences null (`HasWinner`). |
| `ThreadPoolLost.cfg` (`MCThreadPool`) | `_stop` is tested, the destructor stops and a worker leaves, the job is pushed and accepted: never run (`AcceptedIsRun`). |

Two findings come from reading: `co_await` of a `Future<void>` ignores the result, and so
an exception or a cancellation, and `uthread::Latch::downCount(n)` with `n > 1` may pass
zero without setting the promise.

### Bounds

- `future`: two producers are enough for "one copy sets while the other is the last to
  go"; one of them is on a thread of the executor, so both branches of
  `currentThreadInExecutor` occur. One call each, a second call of `setValue` is the
  other producer's, and two values tell the calls apart. `ForcedWait` is off since that set-up is the finding.
- `mutex`: with four coroutines there can be a holder, one waiter in each list and one
  inside the compare_exchange loop at once. Nothing else is bounded; they run for ever.
- `thread_pool`: two workers, with stealing on and off; two jobs of a client, one that
  each of them schedules (one of these an empty function): enough for a job that
  schedules during destruction and for a stolen job whose worker was woken for it.
- `shared_mutex`: three coroutines, `MaxReaders` two, two rounds. One reader can
  overflow. With four coroutines TLC finds `SomebodyWakes` violated: two readers blocked
  at the maximum, two unlocks before the first woken one looks, one notification. The
  real maximum is 2^31 - 1 readers, which do not occur.
- `semaphore`: a maximum of two, beginning with zero (the manual's notifier), one or two
  permits; four coroutines, two calls each, of any kind. A release of two takes the
  `notifyAll` branch with two waiters asleep and a newcomer beside them. 430 000 states.
- `signal`: two signals, one chained to the other's slot; two emitters with one call
  each on either; two handlers, so that one can replace the other; one trigger-once type.
  With a trigger-many type TLC finds `CalledAsAnswered` violated (`invoke` loads the
  handler and calls it while its owner replaces it); that is a hazard still to be stated
  precisely, against the manual's "All operations on `Signal` are thread-safe".
- `collect`: no task, one, three; windows of two, so that the last one is shorter; every
  combination of `para`, executor, yield, slot, stale handler and signal type that the
  functions allow, except an executor that nothing would use. 175 000 states.
  Three tasks give a first, a last and one between them.
- `await`: two awaits, one of the inner and one of the outer `Lazy`, of all 49 pairs of
  kinds: what one leaves behind (a handler in the slot, another executor, a different
  thread) meets the other. Two executors for `dispatch` and for a `sleep` elsewhere, two
  threads each so that "some thread of the executor" and "its own" differ. 255 000 states.
- `uthread`: two workers, three tasks: two that count a `Latch` down and one that awaits
  it, or any other mix. One awaits the `Latch` at most, whose promise has one future.

No symmetry is used: the liveness properties are checked in the same runs.

### Fairness

Weak fairness of each thread's or coroutine's own next step: the operating system runs
every runnable thread and an executor resumes what it accepted. Further:

- `future`: producers destroy their promises and the consumer uses or drops its future
  in the end (C++ scopes); whether and when `setValue` is called is left open.
- `mutex`: a holder unlocks; nobody is obliged to lock.
- `shared_mutex`: a coroutine that holds gives back. `semaphore`: nobody has to call
  anything. A spin lock is not fair, and weak fairness does not promise a turn against an
  endless stream of newcomers; `Rounds` bounds the stream and `AllFinish` says that nobody
  is left behind once it ends, except, on a semaphore, waiters for whom there is no permit.
- `thread_pool`: the owner destroys the pool in the end; nobody is obliged to schedule.
- `signal`: an owner and an emitter finish the call they are in.
- `collect`: a task in the starting loop suspends or completes (it is C++ code on this
  thread). That suspended tasks complete is assumed for `collectAll` only: `collectAny`
  has to go on without it.
- `await`: threads, timers, the emitter and the workers go on. Setting a promise, emitting
  and forbidding are not fair: `CallerReturns` has "every promise is set some time" as a
  premise, `CancelGetsOut` does not need it.
- `uthread`: the workers go on, and who holds the promise of a `Future` sets it.

## 4. Proofs

`FutureStateProofs`, for every finite set of producers, every set of values and every
bound that the named assumptions of `FutureState` allow:

- `FutureProtocol`: `Spec => []ProtocolInv`. `ProtocolInv` is the inductive invariant:
  `_promiseRef` counts the promises that still count (`PromiseCount`); one thread at a
  time is inside `setResult` (`OneSetter`); the one that is before its compare_exchange
  has not met the other side (`NotMet`); once DONE there is exactly one agent of the
  continuation among the threads and the queue (`OneCall`), which holds a guard
  (`Guarded`); the value and continuation are written before they are published
  (`Written`); who arrives at the second compare_exchange finds the other side's state
  and nobody can move it (`Meeting`); and has acquired it, if the machine does
  (`Synchronised`). None of the conjuncts is inductive alone: that the continuation is
  called once needs that only one thread reaches DONE, which needs that the loser of the
  race knows what the state is.
- From it `FutureTypes`, `FutureFallthrough` (the code's assertions), `FutureCallsOnce`
  under either memory model, and `FutureDelivers` where compare_exchange acquires. `FutureWeak.cfg`
  shows that this hypothesis is needed.

- `FutureImplementsOneShot`: `Spec => Promised!Safety`, every step of the pair is a step
  or a stutter of `OneShot`. Its two hypotheses are the switches of the model:
  `~WeakMemory` (compare_exchange acquires also when it fails, as on x86) and
  `ChecksResult` (`setResult` begins with its `logicAssert`, as it does in the source).
- `FutureNothingDangles`: `RefInv`, inductive together with `ProtocolInv`, counts the
  references one by one. `HandleCount` are those of promises and future, `GuardRefs` the
  `ContinuationReference`s of the threads and of the queued closure, and `_attached` is
  their sum (`RefCount`); no guard exists before the one call is decided
  (`NoGuardYet`), hence never more than two; a producer only works on a promise that it
  has (`BusyHolds`). The hypothesis `NoWrap` says that the sum fits in the `uint8_t`: up
  to 251 copies of one promise. It cannot be dropped: with `Parked = 253` TLC shows the
  object deleted while promises refer to it.

The other theorems do not assume `ChecksResult` or a use of the future. They assume that
fewer than 254 further copies of the promise are parked (`ParkedAssumption`), and all of
them rest on the contract on `setValue` that is part of the model.

`CoroMutexProofs`, for every set of coroutines:

- `LockInvariant`: `LockInv` is types, exclusion, "locked exactly when held, and no lists
  when not", and `GrabFindsWaiter`; exclusion needs the middle part and the exchange of
  `unlock` needs the last. `MutexTypes` and `MutexExcludes` follow.
- `MutexKeepsWaiters`: the two lists hold each suspended coroutine once; the cases that
  matter are the enqueue and the reversal of the list.
- `MutexImplementsFifoLock`: `Spec => Fifo!Safety` with the queue mapped to the FIFO list
  followed by the reversed LIFO list. Every step is a step of `FifoLock` or stutters.

`SharedMutexProofs`, for every finite set of coroutines and the two gates the class has
(`Conditions = Gates`):

- `SharedMutexInvariant`: `SharedInv` is `SpinInv` (one coroutine inside the spin lock,
  and whoever waits has left a predicate to test again), `ListInv` (each gate's list holds
  its suspended coroutines once), `ModeInv` (an operation is called in its mode),
  `StateInv` (the flag has one owner, who has the lock or is in the second half of
  `coLock`; the count is that of the readers) and `Gate2Inv`. Exclusion alone is not
  inductive: what `unlock` may clear depends on whom the flag stands for.
- From it `SharedMutexTypes`, `SharedMutexExcludes` and the action property
  `SharedMutexFavoursWriter`. `SharedMutexWakes` needs `Gate1Inv` as well, and with it the
  hypothesis `Cardinality(Coros) <= MaxReaders` (2^31 - 1 in the code): at the maximum two
  blocked readers share one notification, see the bounds of `shared_mutex`.

`SemaphoreProofs`, for every count and every finite set of coroutines:

- `SemaphoreInvariant`: `SemaphoreInv` adds to the types the spin lock, the list, what
  `release` was called with (`UpdateInv`), and `PermitInv`: the free permits, those
  acquired and those that a `release` under way will add are the ones given. The last are
  the elements of the set `Pending` (coroutine and number), so that the sum over coroutines
  is a cardinality, which the prover can reason about. The initial count is any number up
  to the maximum, and the only assumption on the callers is `release`'s own assertion.
  `SemaphoreConserves`, `SemaphoreWakesEnough` and `SemaphoreUnlocksItsOwn` follow; the
  last says that the failing assertion of `semaphore_cancel` takes a cancellation.
- `LatchReleasesAll`, for every `Count \in Nat` and every set of coroutines, with the one
  condition variable the class has: `wait` and `try_wait` answer only at zero, at zero
  nobody stays suspended, and the spin lock is held, alone, wherever it is unlocked.
  `LatchInv` adds that the list of waiters holds exactly the suspended coroutines, without
  which a `notifyAll` that empties the list would say nothing about them, and that a woken
  coroutine goes back to test the predicate. `Latch` has no run of its own: the lock and
  the condition variable under it are those that `semaphore` and `shared_mutex` run, and
  the theorem covers its states for all instances. That `wait` returns in the end is not
  shown.

`ThreadPoolProofs`, for every number of threads, clients and jobs, under
`ContextContract` (a context is checked out on a thread of the pool, and there are at
most 2^30 threads, so that bit 30 is free):

- `PoolInvariant`: `PoolInv` says what a worker runs (`RunInv`), that a job inside
  `scheduleById` is its parent's and is somewhere exactly when it was pushed (`CallInv`),
  that a job is in one queue at one place or started once (`PlaceInv`), that a pinned job
  is on its way home and not to be stolen (`HomeInv`), and that the destructor stops the
  queues in order, after which a sleeping worker has a notification coming (`StopInv`).
- From it `PoolTypes`, `PoolWakes`, `PoolRunsAtHome`, and `PoolConserves`, which turns
  the places into the numbers of `ConservesJobs`.

`SignalProofs`, for any number of signals, slots, emitters, types and handlers:

- `SignalInvariant`: `SignalInv`. A handler in a slot is the one made for that place and
  nothing else was decided on it, and the emitted tag proves the trigger (`HandlerInv`);
  an owner in `emplace` or `clear` finds the old handler it read or the tag, nothing else
  (`OwnerInv`); what is left of an `emits()` delivers triggered types only, and a
  once-handler it will call was taken by it alone (`WorkInv`, about every item on every
  emitter's stack); `FateInv` and `WinInv` are what the properties need of the history.
- `SignalTriggersOnce` has no hypothesis. `SignalCallsOnce` states `CalledAsAnswered` for
  the trigger-once types of any mixture; `SignalCallsAsAnswered` is the property itself,
  for `MultiTypes = {}`, as in the run: with trigger-many types it is false.

`AwaitProofs`, for any number of `co_await`s, executors and threads, with no further
hypothesis:

- `AwaitInvariant`: `AwaitInv` relates the fields of one awaiter (`LocalInv`); says that
  an awaiter that can still resume the coroutine, or an entry of a queue, is the only one
  and that the coroutine is suspended there (`OnceInv`); where the coroutine is and where
  it will be resumed, the executor it is on by a `sleep` included (`PlaceInv`); and that
  the answer `await_resume` will give is already true (`TruthInv`). `Live` is the heart of
  it: which combinations of flag, continuation, timer and handler still hold a resumption.
- `AwaitResumesOnce`, `AwaitAnswersTruly` and `AwaitRunsInPlace` follow.

`CollectProofs`, about `Collect` for every size of the input and every `maxConcurrency`:

- `CollectInvariant`: `CollectInv`. Windows begin at multiples of their width
  (`WindowInv`), so that the tasks whose callbacks count a `CountEvent` down are those of
  the window it was made for; the loop starts the tasks in order (`OrderInv`). While the
  parent of a `collectAll` is suspended, the count is the number of tasks of the window
  that are not yet past their `down()` (`Open`), and it is zero exactly when one of them
  has taken the parent's handle (`AllInv`). With `collectAny` the cancellation handler
  counts too (`Uncalled`), and whoever finds the count untouched, and nobody else, resumes
  the parent (`AnyInv`). `ResultInv` says that what is stored is what the task completed
  with, `EmitterInv` who can have taken the handler, and `AnyInv` that a stale handler is
  in the slot only before the first task is started. "No misuse" alone is not inductive:
  that a late task does not touch the awaiter follows from the count it finds.
- `CollectOutlivesTasks` and `CollectReturnsResults` follow.

and about `Uthread` for every number of tasks and threads, every choice of the tasks'
programs and either launch policy. The theorems assume `UthreadParameters`, which repeats
what module `Uthread` assumes of its constants (there is a worker, a number of tasks, and
the programs are among the four):

- `UthreadInvariant`: `UthreadInv`. A worker's stack is empty, one uthread, or the caller
  of `collectAll` with the task that it started in place on top (`StackInv`). A job that
  switches a uthread in or frees it is bound to the thread of its `checkout`
  (`Where`, `JobInv`), and there the uthread stays on the stack until it has switched out
  (`PlaceInv`): a home thread that is free to run the job therefore finds the uthread out,
  or finished. `AwaitInv` follows the two futures of `await`. The `Latch` counts the tasks
  that have still to count it down (`CountInv`), and `collectAll`'s `Context` has one
  reference for each task that is still to be launched, is queued or alive, and the caller
  one of its own before `await` (`RefInv`), so that its promise is set exactly when the last of them is gone.
- `UthreadSwitchesSafely` and `UthreadAwaitReturnsLate` state the two invariants of the
  run. That misuse occurs only after a refusal is part of the first.

`Latch` and `Uthread` are proved about as instances, since their variables have the names
of the module they share a file with; the two specifications in such a file have nothing
else to do with each other.

Each inductive invariant was checked with TLC, as an invariant of the component's run or a
variation of it, before it was proved.

Every invariant and every action property of the passing runs is stated by a theorem. Only
model-checked are the liveness properties and the fairness part of the two refinements,
`ImplementsOneShot` and `ImplementsFifoLock`, of which the safety part is proved: liveness
under fairness and ENABLED are beyond the prover. The findings' runs have counterexamples,
so there is nothing to prove about them; `SemaphoreUnlocksItsOwn` and the hypotheses of
`FutureDelivers`, `FutureNothingDangles` and `SignalCallsAsAnswered` mark where they begin.

## 5. Not modelled

- Destruction of slots, signals and executors while a handler, an emitter or the thread
  of a timer still uses them; trigger-many handlers beyond `signal`'s bounds.
- `Notifier` (`ConditionVariable<void>`) and notifications without the lock.
- `collectAll` of `Future`s (`Collect.h`), user-defined `LazyLocal`s, destruction of
  coroutine frames, `Launch::Prompt`, exceptions thrown by the tasks of `uthread`.
- For good: I/O (`SimpleIOExecutor`, `IOExecutor`), the context switch in assembly,
  type-level code, value holders, allocators, `Generator` (one thread, no protocol),
  demos with their vendored asio, and benchmarks. These are by far the larger part of the
  repository's lines; the library itself is about a twentieth of them, and the parts of it
  that carry a protocol are the ones modelled.

## 6. Plan

1. Proofs: those of `Latch`, `Semaphore` and `SharedMutex` repeat the facts about the spin
   lock and the list of waiters, which belong in one module over `SpinCondition`.
2. An abstract barrier and first-wins choice for `Collect` to implement.
3. Lifetimes of slots and of what handlers capture; a statement for trigger-many handlers
   that holds.
