---- MODULE Collect ----
(* coro/Collect.h and coro/CountEvent.h: collectAll, collectAllPara, their windowed     *)
(* forms and collectAny, as one coroutine, the parent, awaits them. Each task is a Lazy *)
(* started by await_suspend; it runs inside the starting loop until it suspends, or on  *)
(* the executor. The awaiter lives in the parent's frame and dies when the parent goes  *)
(* on. The parent's slot is as module Signal shows it to be: emplace answers true and   *)
(* the handler will be called, or the signal has been emitted. It may hold a stale      *)
(* handler: the one of a Future awaited before, which FutureAwaiter leaves there and    *)
(* which does nothing when it is called.                                                *)
EXTENDS Integers, FiniteSets

CONSTANTS
    Sizes,    \* the sizes of the input
    Windows   \* the values of maxConcurrency; 0 stands for the plain functions too

ASSUME CollectAssumption == Sizes \subseteq Nat /\ Windows \subseteq Nat

VARIABLES
    call,       \* the function called and its arguments
    parent,     \* the awaiting coroutine
    loop,       \* the loop of await_suspend that starts the tasks
    next,       \* the task it starts next
    start,      \* how many tasks the windows before this one had
    task,       \* per task, where it is
    result,     \* per task, what it completed with
    output,     \* per task, _output: what its callback stored
    winner,     \* collectAny: _result's index, 0 for none
    count,      \* the CountEvent's _count
    handle,     \* the task that took _awaitingCoro out of the CountEvent, or 0
    alive,      \* the tasks whose awaiter is not destroyed
    signalled,  \* the tasks whose signal was emitted
    terminated, \* Terminate was emitted on the parent's signal
    emitter,    \* the thread that emits it
    chain,      \* the tasks of the signal chained to the parent's slot
    handler,    \* the handler in the slot: collectAny's, or a stale one
    misuse      \* a destroyed awaiter was touched, or a running coroutine resumed

signals == <<terminated, emitter, chain, handler>>
awaiter == <<output, winner, count, handle, alive>>
vars == <<call, parent, loop, next, start, task, result, awaiter, signalled, signals, misuse>>

Tasks == 1 .. call.size
Indices == UNION {1 .. n : n \in Sizes}

\* collectAllWindowedImpl: all at once if maxConcurrency is 0 or at least the size
Width == IF call.window = 0 \/ call.size <= call.window THEN call.size ELSE call.window
Windowed == Width < call.size
Batch == {i \in Tasks : start < i /\ i <= start + Width}
BatchOf(i) == {j \in Tasks : (j - 1) \div Width = (i - 1) \div Width}

\* an executor is of use only to Para and to Yield
Init ==
    /\ call \in {c \in [kind : {"all", "any"}, size : Sizes, window : Windows,
                        para : BOOLEAN, executor : BOOLEAN, yield : BOOLEAN,
                        slot : BOOLEAN, cancel : BOOLEAN, stale : BOOLEAN] :
                    /\ c.kind = "any" => c.window = 0 /\ ~c.para
                    /\ c.yield => c.window > 0
                    /\ c.stale => c.slot
                    /\ c.executor => c.para \/ c.yield}
    /\ parent = "await" /\ loop = "idle" /\ next = 1 /\ start = 0
    /\ task = [i \in Tasks |-> "new"] /\ result = [i \in Tasks |-> "none"]
    /\ output = [i \in Tasks |-> "none"] /\ winner = 0
    /\ count = 0 /\ handle = 0 /\ alive = {} /\ signalled = {}
    /\ terminated = FALSE /\ emitter = "idle" /\ chain = {}
    /\ handler = IF call.stale THEN "stale" ELSE "none"
    /\ misuse = FALSE

Touch(i) == misuse' = (misuse \/ i \notin alive)
Goto(i, label) == task' = [task EXCEPT ![i] = label]
Canceled == call.slot /\ terminated

\* CountEvent: fetch_sub; who finds the old count knows its place in the order
DownCount == count' = count - 1

----
(* The parent: await_ready, await_suspend *)

\* a fresh signal, chained to the slot; the coroutine handed to the CountEvent
Suspend(n, label) ==
    /\ count' = n /\ handle' = 0 /\ alive' = Batch
    /\ chain' = IF call.slot THEN Batch ELSE chain
    /\ parent' = "suspended" /\ loop' = label /\ next' = start + 1

BeginAll ==
    /\ parent = "await" /\ call.kind = "all"
    /\ IF Batch = {}
       THEN parent' = "resumed" /\ UNCHANGED <<count, handle, alive, chain, loop, next>>
       ELSE Suspend(Cardinality(Batch), "start")
    /\ UNCHANGED <<call, start, task, result, output, winner, signalled, terminated,
                   emitter, handler, misuse>>

BeginAny ==
    /\ parent = "await" /\ call.kind = "any"
    /\ IF Batch = {} \/ Canceled
       THEN parent' = "resumed" /\ UNCHANGED <<count, handle, alive, chain, loop, next>>
       ELSE Suspend(call.size + 1, "emplace")
    /\ UNCHANGED <<call, start, task, result, output, winner, signalled, terminated,
                   emitter, handler, misuse>>

\* tryEmplace: true without a slot; false, and nothing is started, when cancelled.
\* A stale handler is replaced.
EmplaceHandler ==
    /\ loop = "emplace"
    /\ \/ ~call.slot /\ loop' = "start" /\ UNCHANGED <<handler, parent>>
       \/ call.slot /\ ~terminated /\ loop' = "start" /\ handler' = "installed"
          /\ UNCHANGED parent
       \/ Canceled /\ loop' = "idle" /\ parent' = "resumed" /\ UNCHANGED handler
    /\ UNCHANGED <<call, next, start, task, result, awaiter, signalled, terminated,
                   emitter, chain, misuse>>

Scheduled == call.para /\ call.executor /\ Cardinality(Batch) > 1
LoopAfter(i) == IF i + 1 \in BatchOf(i) THEN "start" ELSE "idle"

\* The answer of schedule_move_only is not looked at: a refused task is never started.
\* collectAny's loop works on local copies: the parent may be gone by now.
StartTask ==
    /\ loop = "start"
    /\ next' = next + 1
    /\ IF Scheduled
       THEN (\E to \in {"queued", "refused"} : Goto(next, to)) /\ loop' = LoopAfter(next)
       ELSE Goto(next, "running") /\ loop' = "inline"
    /\ IF call.kind = "all" THEN Touch(next) ELSE UNCHANGED misuse
    /\ UNCHANGED <<call, parent, start, result, awaiter, signalled, signals>>

\* Executor::schedule_move_only ran the closure
RunQueued(i) ==
    /\ task[i] = "queued"
    /\ Goto(i, "running")
    /\ Touch(i)
    /\ UNCHANGED <<call, parent, loop, next, start, result, awaiter, signalled, signals>>

----
(* The tasks and their callbacks *)

\* the call of start() returns to the loop
Unblock(i) ==
    loop' = IF loop = "inline" /\ i = next - 1 THEN LoopAfter(i) ELSE loop

SuspendTask(i) ==
    /\ task[i] = "running"
    /\ Goto(i, "suspended")
    /\ Unblock(i)
    /\ UNCHANGED <<call, parent, next, start, result, awaiter, signalled, signals, misuse>>

Complete(i) ==
    /\ task[i] \in {"running", "suspended"}
    /\ \E r \in {"value", "error"} : result' = [result EXCEPT ![i] = r]
    /\ Goto(i, "finish")
    /\ UNCHANGED <<call, parent, loop, next, start, awaiter, signalled, signals, misuse>>

\* The result stored, _signal and _SignalType copied, CountEvent::down
FinishAll(i) ==
    /\ task[i] = "finish" /\ call.kind = "all"
    /\ output' = [output EXCEPT ![i] = result[i]]
    /\ DownCount
    /\ handle' = IF count = 1 THEN i ELSE handle
    /\ LET label == IF count = Cardinality(BatchOf(i)) THEN "emit"
                    ELSE IF count = 1 THEN "resume" ELSE "done" IN
       /\ Goto(i, label)
       /\ IF label = "done" THEN Unblock(i) ELSE UNCHANGED loop
    /\ Touch(i)
    /\ UNCHANGED <<call, parent, next, start, result, winner, alive, signalled, signals>>

\* faulty variant: _signal and _SignalType read after down()
EmitAllLate(i) ==
    /\ task[i] = "emit"
    /\ signalled' = IF call.cancel THEN signalled \cup BatchOf(i) ELSE signalled
    /\ Goto(i, IF handle = i THEN "resume" ELSE "done")
    /\ IF handle = i THEN UNCHANGED loop ELSE Unblock(i)
    /\ Touch(i)
    /\ UNCHANGED <<call, parent, next, start, result, awaiter, signals>>

\* the first to finish emits, on its copy of the shared_ptr
EmitAll(i) ==
    /\ task[i] = "emit"
    /\ signalled' = IF call.cancel THEN signalled \cup BatchOf(i) ELSE signalled
    /\ Goto(i, IF handle = i THEN "resume" ELSE "done")
    /\ IF handle = i THEN UNCHANGED loop ELSE Unblock(i)
    /\ UNCHANGED <<call, parent, next, start, result, awaiter, signals, misuse>>

\* CountEvent::downCount on the shared event: n tasks and one handler
FinishAny(i) ==
    /\ task[i] = "finish" /\ call.kind = "any"
    /\ DownCount
    /\ IF count = call.size + 1
       THEN Goto(i, "win") /\ UNCHANGED loop
       ELSE Goto(i, "done") /\ Unblock(i)
    /\ UNCHANGED <<call, parent, next, start, result, output, winner, handle, alive,
                   signalled, signals, misuse>>

\* faulty variant: the winner does not emit
WinSilent(i) ==
    /\ task[i] = "win"
    /\ winner' = i /\ output' = [output EXCEPT ![i] = result[i]]
    /\ Goto(i, "resume")
    /\ Touch(i)
    /\ UNCHANGED <<call, parent, loop, next, start, result, count, handle, alive,
                   signalled, signals>>

Win(i) ==
    /\ task[i] = "win"
    /\ winner' = i /\ output' = [output EXCEPT ![i] = result[i]]
    /\ signalled' = IF call.cancel THEN signalled \cup Tasks ELSE signalled
    /\ Goto(i, "resume")
    /\ Touch(i)
    /\ UNCHANGED <<call, parent, loop, next, start, result, count, handle, alive, signals>>

Resume == parent' = "resumed" /\ misuse' = (misuse \/ parent # "suspended")

ResumeParent(i) ==
    /\ task[i] = "resume"
    /\ Resume
    /\ Goto(i, "done")
    /\ Unblock(i)
    /\ UNCHANGED <<call, next, start, result, awaiter, signalled, signals>>

----
(* Terminate, emitted on the signal of the parent's slot: first the chained signal,   *)
(* then the handler.                                                                  *)

Terminate ==
    /\ call.slot /\ ~terminated
    /\ terminated' = TRUE /\ emitter' = "chain"
    /\ UNCHANGED <<call, parent, loop, next, start, task, result, awaiter, signalled,
                   chain, handler, misuse>>

EmitChained ==
    /\ emitter = "chain"
    /\ signalled' = signalled \cup chain
    /\ emitter' = "exchange"
    /\ UNCHANGED <<call, parent, loop, next, start, task, result, awaiter, terminated,
                   chain, handler, misuse>>

\* the call of a stale handler has no effect
TakeHandler ==
    /\ emitter = "exchange"
    /\ emitter' = IF handler = "installed" THEN "call" ELSE "over"
    /\ handler' = CASE handler = "installed" -> "taken"
                    [] handler = "stale"     -> "none"
                    [] OTHER                 -> handler
    /\ UNCHANGED <<call, parent, loop, next, start, task, result, awaiter, signalled,
                   terminated, chain, misuse>>

\* faulty variant: the handler resumes if it is not the first
CallHandlerOffByOne ==
    /\ emitter = "call"
    /\ DownCount
    /\ emitter' = IF count = call.size THEN "resume" ELSE "over"
    /\ UNCHANGED <<call, parent, loop, next, start, task, result, output, winner, handle,
                   alive, signalled, terminated, chain, handler, misuse>>

CallHandler ==
    /\ emitter = "call"
    /\ DownCount
    /\ emitter' = IF count = call.size + 1 THEN "resume" ELSE "over"
    /\ UNCHANGED <<call, parent, loop, next, start, task, result, output, winner, handle,
                   alive, signalled, terminated, chain, handler, misuse>>

HandlerResumes ==
    /\ emitter = "resume"
    /\ Resume
    /\ emitter' = "over"
    /\ UNCHANGED <<call, loop, next, start, task, result, awaiter, signalled, terminated,
                   chain, handler>>

----
(* The parent: await_resume, and what is between two windows *)

AfterWindow == IF start' < call.size THEN "await" ELSE "returned"

ResumeAll ==
    /\ parent = "resumed" /\ call.kind = "all"
    /\ start' = start + Cardinality(Batch)
    /\ parent' = IF Windowed /\ call.yield THEN "yield" ELSE AfterWindow
    /\ alive' = {}
    /\ UNCHANGED <<call, loop, next, task, result, output, winner, count, handle,
                   signalled, signals, misuse>>

\* Slot::clear: true if there was a handler to remove, its own or a stale one
Clear ==
    handler' = CASE handler = "installed" -> "cleared"
                 [] handler = "stale"     -> "none"
                 [] OTHER                 -> handler

\* checkHasCanceled: throws if the signal has been emitted and nothing was removed
Throws == Canceled /\ handler \notin {"installed", "stale"}

\* Yield: await_ready if cancelled; logicAssert without an executor; schedule() may
\* refuse, which nobody looks at
YieldWindow ==
    /\ parent = "yield"
    /\ \/ ~Canceled /\ ~call.executor /\ parent' = "threw" /\ UNCHANGED handler
       \/ ~Canceled /\ call.executor /\ parent' = "refused" /\ UNCHANGED handler
       \/ (Canceled \/ call.executor) /\ Clear
          /\ parent' = IF Throws THEN "threw"
                       ELSE IF start < call.size THEN "await" ELSE "returned"
    /\ UNCHANGED <<call, loop, next, start, task, result, awaiter, signalled, terminated,
                   emitter, chain, misuse>>

\* faulty variant: await_resume without checkHasCanceled
ResumeAnyUnchecked ==
    /\ parent = "resumed" /\ call.kind = "any"
    /\ parent' = "returned"
    /\ alive' = {}
    /\ UNCHANGED <<call, loop, next, start, task, result, output, winner, count, handle,
                   signalled, signals, misuse>>

ResumeAny ==
    /\ parent = "resumed" /\ call.kind = "any"
    /\ Clear
    /\ parent' = IF Throws THEN "threw" ELSE "returned"
    /\ alive' = {}
    /\ UNCHANGED <<call, loop, next, start, task, result, output, winner, count, handle,
                   signalled, terminated, emitter, chain, misuse>>

----
Over == parent \in {"returned", "threw"}
Refused == parent = "refused" \/ \E i \in Tasks : task[i] = "refused"
Terminated ==
    /\ Over \/ Refused
    /\ loop = "idle" /\ emitter \in {"idle", "over"}
    /\ \A i \in Tasks : task[i] \in {"new", "done", "refused"}
    /\ UNCHANGED vars

ParentStep == BeginAll \/ BeginAny \/ ResumeAll \/ YieldWindow \/ ResumeAny
LoopStep == EmplaceHandler \/ StartTask
Callback(i) == FinishAll(i) \/ EmitAll(i) \/ FinishAny(i) \/ Win(i) \/ ResumeParent(i)
EmitterStep == EmitChained \/ TakeHandler \/ CallHandler \/ HandlerResumes

Next ==
    \/ ParentStep \/ LoopStep \/ Terminate \/ EmitterStep \/ Terminated
    \/ \E i \in Tasks : RunQueued(i) \/ SuspendTask(i) \/ Complete(i) \/ Callback(i)

Spec == Init /\ [][Next]_vars

\* Threads run, the executor runs what it accepted, and a task inside start() suspends
\* or completes. That tasks complete is assumed for collectAll only.
FairSpec ==
    /\ Spec
    /\ WF_vars(ParentStep) /\ WF_vars(LoopStep) /\ WF_vars(EmitterStep)
    /\ \A i \in Indices :
          /\ WF_vars(i \in Tasks /\ (RunQueued(i) \/ SuspendTask(i) \/ Callback(i)))
          /\ WF_vars(i \in Tasks /\ call.kind = "all" /\ Complete(i))

----
(* Properties *)

TypeOK ==
    /\ parent \in {"await", "suspended", "resumed", "yield", "returned", "threw",
                 "refused"}
    /\ loop \in {"idle", "emplace", "start", "inline"}
    /\ next \in 1 .. call.size + 1 /\ start \in 0 .. call.size
    /\ task \in [Tasks -> {"new", "queued", "refused", "running", "suspended", "finish",
                           "emit", "win", "resume", "done"}]
    /\ {result, output} \subseteq [Tasks -> {"none", "value", "error"}]
    /\ winner \in 0 .. call.size /\ handle \in 0 .. call.size
    /\ count \in 0 .. call.size + 1
    /\ alive \subseteq Tasks /\ signalled \subseteq Tasks /\ chain \subseteq Tasks
    /\ emitter \in {"idle", "chain", "exchange", "call", "resume", "over"}
    /\ handler \in {"none", "stale", "installed", "taken", "cleared"}

\* "Make local copies ... to avoid deleting objects too early": neither the starting
\* loop nor a callback touches the awaiter after the parent went on, and the parent is
\* resumed once for each co_await, by a task or by the cancellation handler.
AwaiterOutlivesTasks == ~misuse

\* collectAllWindowed: "allowing at most 'maxConcurrency' of these input tasks to be
\* concurrently awaited at any one point in time".
WindowRespected ==
    call.window > 0 =>
        Cardinality({i \in Tasks : task[i] \in {"queued", "running", "suspended"}})
            <= call.window

\* collectAny returned although none of its tasks set _result
NoWinner == call.kind = "any" /\ parent = "returned" /\ winner = 0

\* await_resume: collectAll returns every task's own result, in the order of the input,
\* whatever the order of completion and the windows; collectAny returns the winner's.
\* It has one unless the input was empty, or it was cancelled before it started a task
\* and a stale handler hid that from checkHasCanceled. Both throw only when cancelled,
\* or at a Yield without an executor. On the way no window is exceeded.
ReturnsResults ==
    /\ TypeOK /\ WindowRespected
    /\ parent = "threw" => Canceled \/ (call.yield /\ ~call.executor)
    /\ parent = "returned" /\ call.kind = "all" =>
         \A i \in Tasks : output[i] = result[i] /\ result[i] # "none"
    /\ parent = "returned" /\ call.kind = "any" /\ winner # 0 =>
         output[winner] = result[winner] /\ result[winner] # "none"
    /\ NoWinner => call.size = 0 \/ (call.stale /\ Canceled /\ next = 1)

\* CollectAny, the manual says: "If a cancellation signal is received, an exception is
\* thrown", and so the variadic await_resume moves out of *_result unasked: unless the
\* input was empty, there is a winner. Not so with a stale handler (CollectStale.cfg).
HasWinner == NoWinner => call.size = 0

\* collectAny and collectAll with a signal type: "upon the first coroutine's completion,
\* send a cancellation signal to terminate any ongoing tasks", to all of its window.
OthersSignalled == \A i \in Indices :
    (i \in Tasks /\ call.cancel /\ task[i] = "finish") ~> BatchOf(i) \subseteq signalled

\* CountEvent: the parent goes on: collectAll if its tasks complete, unless the executor
\* refused one of them; collectAny as soon as one task completes or it is cancelled,
\* although no other task may ever complete.
ParentGoesOn ==
    /\ (call.kind = "all" \/ call.size = 0) ~> (Over \/ Refused)
    /\ (\E i \in Tasks : call.kind = "any" /\ task[i] = "finish") ~> Over
    /\ (parent = "suspended" /\ Canceled /\ call.kind = "any") ~> Over
====
