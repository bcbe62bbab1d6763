---- MODULE Await ----
(* What a Lazy does at co_await: coro/FutureAwaiter.h, ResumeBySchedule.h, Sleep.h with *)
(* the timed schedule of Executor.h, Yield, Dispatch.h and, through ViaCoroutine.h, any *)
(* other awaitable. An outer Lazy, started by syncAwait, awaits an inner one; each      *)
(* awaits a few of these while promises are set, timers run out, Terminate is emitted   *)
(* and executors may refuse. A Future is as module FutureState shows it to be: its      *)
(* continuation is called once, with the result, by the side that comes second; a Slot  *)
(* as module Signal shows it: emplace answers true and the handler will be called, or   *)
(* the signal has been emitted. The executors are SimpleExecutors.                      *)
EXTENDS Integers, FiniteSets

CONSTANTS
    Executors,   \* the executors
    NoExecutor,  \* nullptr
    Starts,      \* the executors the outer Lazy may be started with
    Width,       \* the threads of an executor
    Awaits,      \* how many co_awaits there are, one after the other
    InnerAwaits, \* how many of them are the inner Lazy's
    Kinds        \* what may be awaited

AllKinds == {"future", "void", "by_schedule", "awaitable", "sleep", "yield", "dispatch"}

ASSUME AwaitAssumption ==
    /\ NoExecutor \notin Executors /\ Starts \subseteq Executors \cup {NoExecutor}
    /\ Width \in Nat \ {0} /\ Awaits \in Nat \ {0} /\ InnerAwaits \in 0 .. Awaits
    /\ Kinds \subseteq AllKinds

VARIABLES
    executor,   \* per Lazy, its promise's _executor
    coro,       \* the coroutine
    current,    \* the co_await it has come to
    thread,     \* the thread it runs on
    host,       \* the executor that a sleep resumed it on and where it still is, if any
    await,      \* per co_await, the awaiter and what it waits for
    queue,      \* the resumptions in the queues of the executors
    slot,       \* _lazy_local has a slot: a signal was bound and not forbidden
    handler,    \* the handler of Terminate in the slot: whose it is, 0, or Emitted
    terminated, \* Terminate is set in the signal's state
    emitter,    \* the thread that emits it
    taken,      \* the handler it took out of the slot
    refused,    \* an executor refused the coroutine
    strayed,    \* checkin was given the context of a thread outside the pool
    misuse,     \* a coroutine was resumed that was not suspended there
    caller      \* the thread in syncAwait

signals == <<slot, handler, terminated, emitter, taken>>
failures == <<refused, strayed, misuse>>
vars == <<executor, coro, current, thread, host, await, queue, signals, failures, caller>>

Points == 1 .. Awaits
Lazies == {"inner", "outer"}
Workers(e) == {e} \X (1 .. Width)
Outside == <<NoExecutor, 0>>
Threads == (Executors \X (1 .. Width)) \cup {Outside}
Emitted == Awaits + 1

\* The Lazies on the stack, and whose promise the awaiter sees
Stack(n) == IF n <= InnerAwaits THEN Lazies ELSE {"outer"}
Executor(n) == executor[IF n <= InnerAwaits THEN "inner" ELSE "outer"]

Futures == {"future", "void"}
HasPromise == Futures \cup {"by_schedule", "awaitable"}
Cancellable == Futures \cup {"sleep", "yield"}

Init ==
    /\ \E e \in Starts : executor = [l \in Lazies |-> e]
    /\ coro = "new" /\ current = 0 /\ thread = Outside /\ host = NoExecutor
    /\ \E program \in [Points -> Kinds] :
         await = [n \in Points |-> [kind |-> program[n], suspend |-> "none",
                    home |-> Outside, ex |-> NoExecutor, armed |-> FALSE, holds |-> "future",
                    future |-> "pending", continuation |-> "none", by |-> {},
                    timer |-> "none", elapsed |-> FALSE, outcome |-> "none"]]
    /\ queue = {}
    /\ slot \in BOOLEAN /\ handler = 0 /\ terminated = FALSE
    /\ emitter = "idle" /\ taken = 0
    /\ refused = FALSE /\ strayed = FALSE /\ misuse = FALSE /\ caller = "start"

Running == coro \in {"running", "resuming"}

\* A thread that is inside await_suspend, a continuation or the coroutine takes no job
Busy(t) ==
    /\ t # Outside
    /\ \/ Running /\ thread = t
       \/ \E n \in Points : \/ await[n].suspend \in {"emplace", "continue", "schedule"}
                               /\ await[n].home = t
                            \/ t \in await[n].by

----
(* Resuming *)

\* Thread t goes on with the coroutine; at is the executor a sleep brought it to
Continue(n, t, at) ==
    IF coro = "suspended" /\ current = n
    THEN coro' = "resuming" /\ thread' = t /\ host' = at /\ UNCHANGED misuse
    ELSE misuse' = TRUE /\ UNCHANGED <<coro, thread, host>>

Resume(n, t) ==
    /\ Continue(n, t, IF t = await[n].home THEN host ELSE NoExecutor)
    /\ UNCHANGED <<queue, refused, strayed>>

\* The answer of schedule is not looked at: a refused coroutine is lost
Enqueue(n, from, threads) ==
    /\ \/ queue' = queue \cup {[of |-> n, from |-> from, on |-> threads]}
          /\ UNCHANGED refused
       \/ refused' = TRUE /\ UNCHANGED queue
    /\ UNCHANGED <<coro, thread, host, strayed, misuse>>

\* checkin on thread t: in place on the home thread, otherwise queued for it. checkout on
\* a thread outside the pool gave -1, with which checkin indexes the queues: undefined,
\* and here the end of the coroutine
Checkin(n, from, t) ==
    LET ex == await[n].ex
        home == await[n].home IN
    \/ (ex = NoExecutor \/ (home \in Workers(ex) /\ home = t)) /\ Resume(n, t)
    \/ ex # NoExecutor /\ home \in Workers(ex) /\ home # t /\ Enqueue(n, from, {home})
    \/ /\ ex # NoExecutor /\ home \notin Workers(ex)
       /\ strayed' = TRUE
       /\ UNCHANGED <<coro, thread, host, queue, refused, misuse>>

\* ResumeBySchedule: by any thread of the executor
BySchedule(n, t) ==
    IF await[n].ex = NoExecutor THEN Resume(n, t)
    ELSE Enqueue(n, "continuation", Workers(await[n].ex))

NoResumption == UNCHANGED <<coro, thread, host, queue, failures>>

\* A worker takes the coroutine from its queue
RunQueued(r, t) ==
    /\ r \in queue /\ t \in r.on /\ ~Busy(t)
    /\ queue' = queue \ {r}
    /\ Continue(r.of, t, IF r.from = "timer" THEN await[r.of].ex ELSE NoExecutor)
    /\ UNCHANGED <<executor, current, await, signals, refused, strayed, caller>>

----
(* syncAwait, start and the end of the coroutine *)

\* A Lazy without executor runs on the caller's thread, one with via() is scheduled
Launch ==
    /\ caller = "start" /\ caller' = "waiting"
    /\ \/ /\ Executor(1) = NoExecutor
          /\ coro' = "running" /\ thread' = Outside /\ UNCHANGED refused
       \/ /\ Executor(1) # NoExecutor
          /\ coro' = "running" /\ thread' \in Workers(Executor(1)) /\ UNCHANGED refused
       \/ /\ Executor(1) # NoExecutor
          /\ refused' = TRUE /\ UNCHANGED <<coro, thread>>
    /\ UNCHANGED <<executor, current, host, await, queue, signals, strayed, misuse>>

Finish ==
    /\ coro = "running" /\ current = Awaits
    /\ coro' = "finished"
    /\ UNCHANGED <<executor, current, thread, host, await, queue, signals, failures, caller>>

SyncAwaitReturns ==
    /\ caller = "waiting" /\ coro = "finished"
    /\ caller' = "returned"
    /\ UNCHANGED <<executor, coro, current, thread, host, await, queue, signals, failures>>

\* co_await ForbidSignal{}: the Slot is destroyed, what it installed stays
Forbid ==
    /\ coro = "running" /\ slot
    /\ slot' = FALSE
    /\ UNCHANGED <<executor, coro, current, thread, host, await, queue, handler, terminated,
                   emitter, taken, failures, caller>>

----
(* await_ready and the first part of await_suspend *)

HasCanceled == slot /\ terminated

\* The coroutine comes to its next co_await, the n-th, which is one of kinds
Comes(n, kinds) ==
    /\ coro = "running" /\ n = current + 1 /\ current' = n
    /\ await[n].kind \in kinds
    /\ UNCHANGED <<thread, host, queue, signals, failures, caller>>

Awaiter(n) == [await[n] EXCEPT !.home = thread, !.ex = Executor(n)]
Become(n, a) == await' = [await EXCEPT ![n] = a]

\* FutureAwaiter, ResumeBySchedule's awaiter and an awaitable wrapped in a ViaCoroutine:
\* ready when there is a result; checkout()
AwaitResult(n) ==
    /\ Comes(n, HasPromise)
    /\ LET ready == await[n].future # "pending"
           first == IF slot /\ await[n].kind \in Futures THEN "emplace" ELSE "continue" IN
       /\ coro' = IF ready THEN "resuming" ELSE "suspended"
       /\ Become(n, [Awaiter(n) EXCEPT !.suspend = IF ready THEN "none" ELSE first])
    /\ UNCHANGED executor

\* sleep on executor e, the Lazy's own or, with sleep(Executor*, dur), any other: without
\* one the thread sleeps; otherwise the TimeAwaiter of e, which keeps e and not the Lazy's
\* executor, starts a thread
AwaitSleep(n, e) ==
    /\ Comes(n, {"sleep"})
    /\ \/ /\ e = NoExecutor /\ UNCHANGED coro
          /\ Become(n, [Awaiter(n) EXCEPT !.elapsed = TRUE, !.outcome = "returned"])
       \/ /\ e # NoExecutor /\ HasCanceled /\ coro' = "resuming"
          /\ Become(n, [Awaiter(n) EXCEPT !.ex = e])
       \/ /\ e # NoExecutor /\ ~HasCanceled /\ coro' = "suspended"
          /\ Become(n, [Awaiter(n) EXCEPT !.ex = e, !.timer = "start"])
    /\ UNCHANGED executor

\* co_await Yield{}: logicAssert throws out of await_suspend if there is no executor
AwaitYield(n) ==
    /\ Comes(n, {"yield"})
    /\ \/ HasCanceled /\ coro' = "resuming" /\ Become(n, Awaiter(n))
       \/ /\ ~HasCanceled /\ Executor(n) = NoExecutor /\ UNCHANGED coro
          /\ Become(n, [Awaiter(n) EXCEPT !.outcome = "refused"])
       \/ /\ ~HasCanceled /\ Executor(n) # NoExecutor /\ coro' = "suspended"
          /\ Become(n, [Awaiter(n) EXCEPT !.suspend = "schedule"])
    /\ UNCHANGED executor

\* The executor is changed in every Lazy that waits for this one
ChangeLaziessExecutorTo(n, e) ==
    executor' = [l \in Lazies |-> IF l \in Stack(n) THEN e ELSE executor[l]]

\* dispatch: false for the own executor; await[n].ex keeps old_ex
AwaitDispatch(n, e) ==
    /\ Comes(n, {"dispatch"})
    /\ IF Executor(n) = e
       THEN coro' = "resuming" /\ Become(n, Awaiter(n)) /\ UNCHANGED executor
       ELSE /\ coro' = "suspended"
            /\ Become(n, [Awaiter(n) EXCEPT !.suspend = "schedule"])
            /\ ChangeLaziessExecutorTo(n, e)

----
(* The rest of await_suspend, on the thread that suspended the coroutine *)

\* faulty variant: suspends although tryEmplace said no
EmplaceHandlerUnchecked(n) ==
    /\ await[n].suspend = "emplace"
    /\ Become(n, [await[n] EXCEPT !.suspend = "continue", !.holds = "exception",
                                  !.armed = TRUE])
    /\ handler' = IF terminated THEN handler ELSE n
    /\ NoResumption
    /\ UNCHANGED <<executor, current, slot, terminated, emitter, taken, caller>>

\* FutureAwaiter::await_suspend_cancellable: future_ becomes a ready SignalException, the
\* future is kept aside; without suspending if tryEmplace says that it is too late
EmplaceHandler(n) ==
    /\ await[n].suspend = "emplace"
    /\ IF terminated
       THEN /\ Become(n, [await[n] EXCEPT !.suspend = "done", !.holds = "exception"])
            /\ UNCHANGED handler
            /\ Resume(n, await[n].home)
       ELSE /\ Become(n, [await[n] EXCEPT !.suspend = "continue", !.holds = "exception",
                                          !.armed = TRUE])
            /\ handler' = n
            /\ NoResumption
    /\ UNCHANGED <<executor, current, slot, terminated, emitter, taken, caller>>

\* faulty variant: a result that came since await_ready is missed
SetContinuationLate(n) ==
    /\ await[n].suspend = "continue"
    /\ Become(n, [await[n] EXCEPT !.suspend = "done", !.continuation = "set"])
    /\ NoResumption
    /\ UNCHANGED <<executor, current, signals, caller>>

\* setContinuation: called at once by this thread if there is a result by now
SetContinuation(n) ==
    /\ await[n].suspend = "continue"
    /\ Become(n, [await[n] EXCEPT !.suspend = "done", !.continuation = "set",
                    !.by = IF await[n].future = "pending" THEN {} ELSE {await[n].home}])
    /\ NoResumption
    /\ UNCHANGED <<executor, current, signals, caller>>

\* another awaitable's await_suspend may answer false: the ViaCoroutine only checks in
NotSuspended(n) ==
    /\ await[n].suspend = "continue" /\ await[n].kind = "awaitable"
    /\ await[n].future # "pending"
    /\ Become(n, [await[n] EXCEPT !.suspend = "done"])
    /\ Checkin(n, "continuation", await[n].home)
    /\ UNCHANGED <<executor, current, signals, caller>>

ScheduleYield(n) ==
    /\ await[n].suspend = "schedule" /\ await[n].kind = "yield"
    /\ Become(n, [await[n] EXCEPT !.suspend = "done"])
    /\ Enqueue(n, "yield", Workers(await[n].ex))
    /\ UNCHANGED <<executor, current, signals, caller>>

\* faulty variant: a refused dispatch leaves the new executor
ScheduleDispatchKeeps(n) ==
    /\ await[n].suspend = "schedule" /\ await[n].kind = "dispatch"
    /\ \/ /\ Become(n, [await[n] EXCEPT !.suspend = "done"])
          /\ queue' = queue \cup {[of |-> n, from |-> "dispatch", on |-> Workers(Executor(n))]}
          /\ UNCHANGED <<executor, coro>>
       \/ /\ Become(n, [await[n] EXCEPT !.suspend = "done", !.outcome = "refused"])
          /\ coro' = "running"
          /\ UNCHANGED <<queue, executor>>
    /\ UNCHANGED <<current, thread, host, signals, failures, caller>>

\* A refused dispatch changes the executor back and throws out of await_suspend
ScheduleDispatch(n) ==
    /\ await[n].suspend = "schedule" /\ await[n].kind = "dispatch"
    /\ \/ /\ Become(n, [await[n] EXCEPT !.suspend = "done"])
          /\ queue' = queue \cup {[of |-> n, from |-> "dispatch", on |-> Workers(Executor(n))]}
          /\ UNCHANGED <<executor, coro>>
       \/ /\ Become(n, [await[n] EXCEPT !.suspend = "done", !.outcome = "refused"])
          /\ coro' = "running"
          /\ ChangeLaziessExecutorTo(n, await[n].ex)
          /\ UNCHANGED queue
    /\ UNCHANGED <<current, thread, host, signals, failures, caller>>

----
(* The promise and the continuation of the future *)

\* Before or after the Lazy comes to the future, on the thread it waits to come back to or
\* on another one
SetPromise(n, t) ==
    /\ await[n].future = "pending" /\ ~Busy(t)
    /\ await[n].kind \in HasPromise
    /\ \E r \in {"value", "error"} :
         Become(n, [await[n] EXCEPT !.future = r,
                      !.by = IF await[n].continuation = "set" THEN {t} ELSE {}])
    /\ NoResumption
    /\ UNCHANGED <<executor, current, signals, caller>>

\* the flag shared with the handler decides which of the two resumes
Lost(n) == await[n].kind \in Futures /\ await[n].holds = "exception" /\ ~await[n].armed

\* faulty variant: the result is not moved into the awaiter
CallContinuationUnmoved(n, t) ==
    /\ t \in await[n].by
    /\ IF Lost(n)
       THEN /\ Become(n, [await[n] EXCEPT !.by = {}, !.continuation = "called"])
            /\ NoResumption
       ELSE /\ Become(n, [await[n] EXCEPT !.by = {}, !.continuation = "called",
                            !.armed = FALSE])
            /\ IF await[n].kind = "by_schedule" THEN BySchedule(n, t)
               ELSE Checkin(n, "continuation", t)
    /\ UNCHANGED <<executor, current, signals, caller>>

CallContinuation(n, t) ==
    /\ t \in await[n].by
    /\ IF Lost(n)
       THEN /\ Become(n, [await[n] EXCEPT !.by = {}, !.continuation = "called"])
            /\ NoResumption
       ELSE /\ Become(n, [await[n] EXCEPT !.by = {}, !.continuation = "called",
                            !.armed = FALSE, !.holds = "future"])
            /\ IF await[n].kind = "by_schedule" THEN BySchedule(n, t)
               ELSE Checkin(n, "continuation", t)
    /\ UNCHANGED <<executor, current, signals, caller>>

----
(* The thread of a timer: Executor::schedule(func, dur, info, slot) *)

TimerEmplace(n) ==
    /\ await[n].timer = "start"
    /\ Become(n, [await[n] EXCEPT !.timer = IF HasCanceled THEN "schedule" ELSE "waiting"])
    /\ handler' = IF slot /\ ~terminated THEN n ELSE handler
    /\ NoResumption
    /\ UNCHANGED <<executor, current, slot, terminated, emitter, taken, caller>>

\* wait_for reaches its deadline
TimerElapses(n) ==
    /\ await[n].timer = "waiting"
    /\ Become(n, [await[n] EXCEPT !.timer = "schedule", !.elapsed = TRUE])
    /\ NoResumption
    /\ UNCHANGED <<executor, current, signals, caller>>

TimerSchedules(n) ==
    /\ await[n].timer = "schedule"
    /\ Become(n, [await[n] EXCEPT !.timer = "done"])
    /\ Enqueue(n, "timer", Workers(await[n].ex))
    /\ UNCHANGED <<executor, current, signals, caller>>

----
(* Signal::emits(Terminate) on another thread *)

UpdateState ==
    /\ emitter = "idle" /\ (slot \/ handler # 0)
    /\ terminated' = TRUE /\ emitter' = "walk"
    /\ NoResumption
    /\ UNCHANGED <<executor, current, await, slot, handler, taken, caller>>

TakeHandler ==
    /\ emitter = "walk"
    /\ emitter' = IF handler = 0 THEN "done" ELSE "call"
    /\ taken' = handler /\ handler' = Emitted
    /\ NoResumption
    /\ UNCHANGED <<executor, current, await, slot, terminated, caller>>

\* faulty variant: the handler resumes without winning the flag
CallHandlerAlways(n) ==
    /\ emitter = "call" /\ n = taken /\ emitter' = "done"
    /\ IF await[n].kind = "sleep"
       THEN /\ Become(n, [await[n] EXCEPT !.timer = IF @ = "waiting" THEN "schedule" ELSE @])
            /\ NoResumption
       ELSE UNCHANGED await /\ Checkin(n, "handler", Outside)
    /\ UNCHANGED <<executor, current, slot, handler, terminated, taken, caller>>

\* of a FutureAwaiter: resumes if it wins the flag; of a timer: ends its wait_for
CallHandler(n) ==
    /\ emitter = "call" /\ n = taken /\ emitter' = "done"
    /\ IF await[n].kind = "sleep"
       THEN /\ Become(n, [await[n] EXCEPT !.timer = IF @ = "waiting" THEN "schedule" ELSE @])
            /\ NoResumption
       ELSE /\ Become(n, [await[n] EXCEPT !.armed = FALSE])
            /\ IF await[n].armed THEN Checkin(n, "handler", Outside) ELSE NoResumption
    /\ UNCHANGED <<executor, current, slot, handler, terminated, taken, caller>>

----
(* await_resume *)

Installed == handler \in Points

\* future_.value() of what the awaiter holds now; Future<void> is not looked at. The
\* handler stays in the slot.
ResumeResult(n) ==
    /\ coro = "resuming" /\ n = current
    /\ await[n].kind \in HasPromise
    /\ Become(n, [await[n] EXCEPT !.outcome =
                    CASE await[n].kind = "void" -> "returned"
                      [] await[n].kind # "void" /\ await[n].holds = "exception" -> "cancelled"
                      [] OTHER -> await[n].future])
    /\ coro' = "running"
    /\ UNCHANGED <<executor, current, thread, host, queue, signals, failures, caller>>

\* checkHasCanceled: !slot->clear() && slot->canceled(), whoever installed the handler
ResumeChecked(n) ==
    /\ coro = "resuming" /\ n = current /\ await[n].kind \in {"sleep", "yield"}
    /\ handler' = IF slot /\ Installed THEN 0 ELSE handler
    /\ Become(n, [await[n] EXCEPT !.outcome =
                    IF HasCanceled /\ ~Installed THEN "cancelled" ELSE "returned"])
    /\ coro' = "running"
    /\ UNCHANGED <<executor, current, thread, host, queue, slot, terminated, emitter, taken,
                   failures, caller>>

ResumeDispatch(n) ==
    /\ coro = "resuming" /\ n = current /\ await[n].kind = "dispatch"
    /\ Become(n, [await[n] EXCEPT !.outcome = "returned"])
    /\ coro' = "running"
    /\ UNCHANGED <<executor, current, thread, host, queue, signals, failures, caller>>

----
(* Next and fairness: threads and timers go on; whether and when a promise is set, a     *)
(* signal emitted or forbidden is up to others.                                          *)

Come ==
    \E n \in Points :
        \/ AwaitResult(n)
        \/ \E e \in Executors \cup {Executor(n)} : AwaitSleep(n, e)
        \/ AwaitYield(n)
        \/ \E e \in Executors : AwaitDispatch(n, e)

Suspend(n) ==
    \/ EmplaceHandler(n) \/ SetContinuation(n) \/ NotSuspended(n)
    \/ ScheduleYield(n) \/ ScheduleDispatch(n)

AwaitResume(n) == ResumeResult(n) \/ ResumeChecked(n) \/ ResumeDispatch(n)
Call(n) == \E t \in Threads : CallContinuation(n, t)
Timer(n) == TimerEmplace(n) \/ TimerElapses(n) \/ TimerSchedules(n)
Emit == TakeHandler \/ \E n \in Points : CallHandler(n)
Work == \E r \in queue : \E t \in r.on : RunQueued(r, t)

Next ==
    \/ Launch \/ Come \/ Finish \/ SyncAwaitReturns \/ Forbid
    \/ \E n \in Points : \/ Suspend(n) \/ AwaitResume(n) \/ Call(n) \/ Timer(n)
                         \/ \E t \in {Outside, await[n].home} : SetPromise(n, t)
    \/ UpdateState \/ Emit \/ Work

Spec == Init /\ [][Next]_vars

FairSpec ==
    /\ Spec
    /\ WF_vars(Launch) /\ WF_vars(Come) /\ WF_vars(Finish) /\ WF_vars(SyncAwaitReturns)
    /\ \A n \in Points : /\ WF_vars(Suspend(n)) /\ WF_vars(AwaitResume(n))
                         /\ WF_vars(Call(n)) /\ WF_vars(Timer(n))
    /\ WF_vars(Emit) /\ WF_vars(Work)

----
(* Properties *)

TypeOK ==
    /\ executor \in [Lazies -> Executors \cup {NoExecutor}]
    /\ coro \in {"new", "running", "suspended", "resuming", "finished"}
    /\ current \in 0 .. Awaits /\ thread \in Threads /\ host \in Executors \cup {NoExecutor}
    /\ await \in [Points -> [kind : AllKinds,
                    suspend : {"none", "emplace", "continue", "schedule", "done"},
                    home : Threads, ex : Executors \cup {NoExecutor}, armed : BOOLEAN,
                    holds : {"future", "exception"}, future : {"pending", "value", "error"},
                    continuation : {"none", "set", "called"}, by : SUBSET Threads,
                    timer : {"none", "start", "waiting", "schedule", "done"},
                    elapsed : BOOLEAN,
                    outcome : {"none", "value", "error", "cancelled", "returned", "refused"}]]
    /\ queue \subseteq [of : Points, from : {"continuation", "handler", "timer", "yield",
                                             "dispatch"}, on : SUBSET Threads]
    /\ slot \in BOOLEAN /\ handler \in 0 .. Emitted /\ terminated \in BOOLEAN
    /\ emitter \in {"idle", "walk", "call", "done"} /\ taken \in 0 .. Emitted
    /\ refused \in BOOLEAN /\ strayed \in BOOLEAN /\ misuse \in BOOLEAN
    /\ caller \in {"start", "waiting", "returned"}

\* A coroutine is resumed once for every suspension: the continuation, the handler, the
\* timer or the queue entry of a co_await never resumes it when it has gone on from there
\* (FutureAwaiter's shared flag, the single func of a timer).
ResumedOnce ==
    /\ TypeOK
    /\ ~misuse
    /\ Cardinality(queue) <= 1
    /\ \A r \in queue : coro = "suspended" /\ current = r.of

\* co_await answers with what happened: a result is the one the promise was given, an
\* exception of the signal says that Terminate was emitted on a bound signal, and a sleep
\* that returns early was cancelled.
OutcomeIsTrue ==
    \A n \in Points :
        /\ await[n].outcome \in {"value", "error"} => await[n].outcome = await[n].future
        /\ await[n].outcome = "cancelled" => terminated /\ await[n].kind \in Cancellable
        /\ await[n].outcome = "returned" /\ await[n].kind = "sleep" =>
             await[n].elapsed \/ terminated
        /\ await[n].outcome = "returned" /\ await[n].kind = "void" =>
             await[n].future # "pending" \/ terminated

\* The coroutine runs on a thread of the executor that each Lazy of the stack records,
\* also after a dispatch that was refused (the comment in DispatchAwaiter), or of the one
\* that a sleep(ex, dur) resumed it on, until it is scheduled again; and a Future or
\* another awaitable brings it back to the very context it was checked out from.
RunsInPlace ==
    Running =>
        /\ IF host = NoExecutor
           THEN \A l \in Stack(current) :
                  executor[l] # NoExecutor => thread \in Workers(executor[l])
           ELSE thread \in Workers(host)
        /\ coro = "resuming" /\ await[current].kind \in Futures \cup {"awaitable"}
             /\ await[current].ex # NoExecutor => thread = await[current].home

\* A cancelled coroutine ends although no promise is ever set, unless it comes to an
\* await that cannot be cancelled, forbids the signal, is refused by an executor or is
\* checked in to a context that is none of the executor's.
CancelGetsOut ==
    HasCanceled ~>
        \/ coro = "finished" \/ refused \/ strayed \/ ~slot
        \/ [](\E n \in Points : /\ n = current /\ await[n].future = "pending"
                                /\ await[n].kind \in {"by_schedule", "awaitable"})

\* If every promise is set some time, no executor refuses and the coroutine awaits no
\* Future from outside its executor, syncAwait returns: no resumption is lost between
\* handler, continuation, timer and executor.
CallerReturns ==
    (\A n \in Points : await[n].kind \in HasPromise => <>(await[n].future # "pending"))
        => <>(caller = "returned" \/ refused \/ strayed)

\* sleep "would return after dur times" (Sleep.h), or throws when it is cancelled.
SleepsOrThrows ==
    \A n \in Points :
        await[n].kind = "sleep" /\ await[n].outcome = "returned" => await[n].elapsed

\* "checkout() return current "Context" ..., then checkin(func, "Context") should schedule
\* func to the same "Context" as before" (Executor.h), wherever the coroutine has been.
ContextIsOwn == ~strayed
====
