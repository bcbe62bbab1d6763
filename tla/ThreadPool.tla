---- MODULE ThreadPool ----
(* util/ThreadPool.h over util/Queue.h, and the SimpleExecutor built on it. Client  *)
(* threads and the jobs themselves schedule jobs; one worker per queue takes them,  *)
(* its own or, with work stealing, another worker's; the owner destroys the pool.   *)
(* One step is one critical section of a Queue, one access of _stop, one notify.    *)
EXTENDS Integers, Sequences, FiniteSets

CONSTANTS
    Clients,       \* threads outside the pool
    ThreadNum,     \* _threadNum
    Jobs,          \* the functions handed to schedule and checkin
    Parent,        \* per job, the client or the job that schedules it
    NullJobs,      \* the jobs whose std::function is empty
    ContextThreads \* the threads on which SimpleExecutor::checkout is called

Workers == 0 .. ThreadNum - 1
Threads == Clients \cup Workers
AnyQueue == -1

ASSUME PoolAssumption ==
    /\ ThreadNum \in Nat \ {0}
    /\ Clients \cap Int = {} /\ Clients \cap Jobs = {}
    /\ Parent \in [Jobs -> Jobs \cup Clients]
    /\ NullJobs \subseteq Jobs /\ ContextThreads \subseteq Threads

VARIABLES
    steal,    \* _enableWorkSteal
    stop,     \* ThreadPool::_stop
    queue,    \* per worker, Queue::_queue: records of a job and canSteal
    queueStop,\* per worker, Queue::_stop
    pc,       \* per thread, the next step; a client or job in scheduleById, or the loop
    call,     \* per thread, the scheduleById under way: its job and id
    running,  \* per worker, the jobs on its stack, the innermost first
    status,   \* per job: "new", "accepted", "rejected", "null"
    home,     \* per job, the worker it was checked in for, or AnyQueue
    started,  \* per job, the worker of each time it was started
    owner     \* the destructor: "alive", then the next step, "destroyed" at last

vars == <<steal, stop, queue, queueStop, pc, call, running, status, home,
          started, owner>>
pool == <<stop, queue, queueStop, owner>>

NoCall == [job |-> "none", id |-> AnyQueue]

\* while (true): the next turn of the loop begins by stealing, if that is enabled
LoopTop == IF steal THEN "steal" ELSE "pop"

Init ==
    /\ steal \in BOOLEAN
    /\ stop = FALSE
    /\ queue = [w \in Workers |-> <<>>] /\ queueStop = [w \in Workers |-> FALSE]
    /\ pc = [t \in Threads |-> IF t \in Clients THEN "user" ELSE LoopTop]
    /\ call = [t \in Threads |-> NoCall]
    /\ running = [w \in Workers |-> <<>>]
    /\ status = [j \in Jobs |-> "new"]
    /\ home = [j \in Jobs |-> AnyQueue]
    /\ started = [j \in Jobs |-> <<>>]
    /\ owner = "alive"

Goto(t, label) == pc' = [pc EXCEPT ![t] = label]

\* The client or the job whose code thread t executes.
Caller(t) == IF t \in Clients THEN t ELSE Head(running[t])

\* ThreadPool::getCurrentId, the thread_local id of the pool's own threads
CurrentId(t) == IF t \in Workers THEN t ELSE -1

----
(* SimpleExecutor: the context is the worker's id with bit 30 set, in a pointer.    *)

ContextMask == 1024 * 1024 * 1024  \* 0x40000000
\* x | kContextMask and x & ~kContextMask on a two's complement integer
SetBit(x) == IF (x \div ContextMask) % 2 = 1 THEN x ELSE x + ContextMask
\* faulty variant: checkin takes the context for the id
ClearBitKept(x) == x

ClearBit(x) == IF (x \div ContextMask) % 2 = 1 THEN x - ContextMask ELSE x

Checkout(t) == SetBit(CurrentId(t))

\* Thread t, in user code or in a job, may hand over job j.
MayCall(t, j) ==
    /\ pc[t] = "user"
    /\ t \in Clients => owner = "alive"
    /\ Caller(t) = Parent[j] /\ status[j] = "new"

\* scheduleById up to its two early returns
ScheduleById(t, j, id) ==
    \/ /\ j \in NullJobs
       /\ status' = [status EXCEPT ![j] = "null"]
       /\ UNCHANGED <<pc, call>>
    \/ /\ j \notin NullJobs /\ stop
       /\ status' = [status EXCEPT ![j] = "rejected"]
       /\ UNCHANGED <<pc, call>>
    \/ /\ j \notin NullJobs /\ ~stop
       /\ call' = [call EXCEPT ![t] = [job |-> j, id |-> id]]
       /\ Goto(t, IF id = AnyQueue /\ steal THEN "tryPush" ELSE "push")
       /\ UNCHANGED status

\* SimpleExecutor::schedule
Schedule(t, j) ==
    /\ MayCall(t, j)
    /\ ScheduleById(t, j, AnyQueue)
    /\ UNCHANGED <<steal, pool, running, started, home>>

\* SimpleExecutor::checkin with a context checked out on thread o; with `prompt`, on
\* the context's own thread, func() is called here, and is not an empty function
Checkin(t, j, o, prompt) ==
    /\ MayCall(t, j)
    /\ LET id == ClearBit(Checkout(o)) IN
       IF CurrentId(t) = id /\ prompt
       THEN /\ j \notin NullJobs
            /\ running' = [running EXCEPT ![t] = <<j>> \o @]
            /\ status' = [status EXCEPT ![j] = "accepted"]
            /\ started' = [started EXCEPT ![j] = Append(@, t)]
            /\ UNCHANGED <<pc, call>>
       ELSE ScheduleById(t, j, id) /\ UNCHANGED <<running, started>>
    /\ home' = [home EXCEPT ![j] = CurrentId(o)]
    /\ UNCHANGED <<steal, pool>>

\* Queue::try_push on one queue after the other: one of them is free to lock, or all
\* the tries, which change nothing, fail
TryPush(t) ==
    /\ pc[t] = "tryPush"
    /\ \/ \E q \in Workers :
            /\ queue' = [queue EXCEPT ![q] = Append(@, [job |-> call[t].job, canSteal |-> TRUE])]
            /\ call' = [call EXCEPT ![t].id = q]
            /\ Goto(t, "notify")
       \/ Goto(t, "push") /\ UNCHANGED <<queue, call>>
    /\ UNCHANGED <<steal, stop, queueStop, owner, running, status, started, home>>

\* Queue::push on the queue asked for, or on std::rand() % _threadNum
Push(t) ==
    /\ pc[t] = "push" /\ call[t].id \in Workers \cup {AnyQueue}
    /\ \E q \in IF call[t].id = AnyQueue THEN Workers ELSE {call[t].id} :
         /\ queue' = [queue EXCEPT ![q] =
                 Append(@, [job |-> call[t].job, canSteal |-> steal /\ call[t].id = AnyQueue])]
         /\ call' = [call EXCEPT ![t].id = q]
    /\ Goto(t, "notify")
    /\ UNCHANGED <<steal, stop, queueStop, owner, running, status, started, home>>

\* A waiter of queue q wakes up and takes the mutex again to look at the predicate.
Woken(q) == IF pc[q] = "wait" THEN [pc EXCEPT ![q] = "pop"] ELSE pc

\* _cond.notify_one() after the push, and scheduleById returns ERROR_NONE
Notify(t) ==
    /\ pc[t] = "notify"
    /\ pc' = [Woken(call[t].id) EXCEPT ![t] = "user"]
    /\ status' = [status EXCEPT ![call[t].job] = "accepted"]
    /\ call' = [call EXCEPT ![t] = NoCall]
    /\ UNCHANGED <<steal, pool, running, started, home>>

----
(* The worker's loop.                                                              *)

\* faulty variant: the front is moved from and not popped
RunKeepsFront(w, q) ==
    /\ UNCHANGED queue
    /\ running' = [running EXCEPT ![w] = <<Head(queue[q]).job>>]
    /\ started' = [started EXCEPT ![Head(queue[q]).job] = Append(@, w)]
    /\ Goto(w, "user")

Run(w, q) ==
    /\ queue' = [queue EXCEPT ![q] = Tail(@)]
    /\ running' = [running EXCEPT ![w] = <<Head(queue[q]).job>>]
    /\ started' = [started EXCEPT ![Head(queue[q]).job] = Append(@, w)]
    /\ Goto(w, "user")

\* faulty variant: try_pop without the predicate
StealAny(w) ==
    /\ pc[w] = "steal"
    /\ \/ \E q \in Workers : queue[q] # <<>> /\ Run(w, q)
       \/ Goto(w, "pop") /\ UNCHANGED <<queue, running, started>>
    /\ UNCHANGED <<steal, stop, queueStop, owner, call, status, home>>

\* Queue::try_pop_if(item, canSteal) on one queue after the other: one of them is free
\* to lock and has such an item in front, or all the tries fail
Steal(w) ==
    /\ pc[w] = "steal"
    /\ \/ \E q \in Workers : queue[q] # <<>> /\ Head(queue[q]).canSteal /\ Run(w, q)
       \/ Goto(w, "pop") /\ UNCHANGED <<queue, running, started>>
    /\ UNCHANGED <<steal, stop, queueStop, owner, call, status, home>>

\* faulty variant: the predicate of the wait does not look at _stop
PopIgnoresStop(w) ==
    /\ pc[w] = "pop"
    /\ \/ queue[w] # <<>> /\ Run(w, w)
       \/ /\ queue[w] = <<>>
          /\ Goto(w, "wait")
          /\ UNCHANGED <<queue, running, started>>
    /\ UNCHANGED <<steal, stop, queueStop, owner, call, status, home>>

\* faulty variant: a stopped queue is not drained
PopStopsFirst(w) ==
    /\ pc[w] = "pop"
    /\ \/ queue[w] # <<>> /\ ~queueStop[w] /\ Run(w, w)
       \/ /\ queue[w] = <<>> \/ queueStop[w]
          /\ Goto(w, IF queueStop[w] THEN "checkStop" ELSE "wait")
          /\ UNCHANGED <<queue, running, started>>
    /\ UNCHANGED <<steal, stop, queueStop, owner, call, status, home>>

\* Queue::pop: the predicate is looked at with the mutex held
Pop(w) ==
    /\ pc[w] = "pop"
    /\ \/ queue[w] # <<>> /\ Run(w, w)
       \/ /\ queue[w] = <<>>
          /\ Goto(w, IF queueStop[w] THEN "checkStop" ELSE "wait")
          /\ UNCHANGED <<queue, running, started>>
    /\ UNCHANGED <<steal, stop, queueStop, owner, call, status, home>>

\* if (_stop) break; else continue;
CheckStop(w) ==
    /\ pc[w] = "checkStop"
    /\ Goto(w, IF stop THEN "exit" ELSE LoopTop)
    /\ UNCHANGED <<steal, pool, call, running, status, started, home>>

\* The innermost job returns: to the job that checked it in, or to the loop.
Return(w) ==
    /\ w \in Workers /\ pc[w] = "user"
    /\ running' = [running EXCEPT ![w] = Tail(@)]
    /\ Goto(w, IF Len(running[w]) = 1 THEN LoopTop ELSE "user")
    /\ UNCHANGED <<steal, pool, call, status, started, home>>

----
(* ~ThreadPool. Its clients are through with it; jobs may still be scheduling.      *)

DestroyPool ==
    /\ owner = "alive" /\ \A t \in Clients : pc[t] = "user"
    /\ stop' = TRUE
    /\ owner' = "stopQueue"
    /\ UNCHANGED <<steal, queue, queueStop, pc, call, running, status, started, home>>

\* Queue::stop on the next queue: _stop under the mutex, then notify_all
StopQueue(q) ==
    /\ owner = "stopQueue" /\ ~queueStop[q] /\ \A r \in 0 .. q - 1 : queueStop[r]
    /\ queueStop' = [queueStop EXCEPT ![q] = TRUE]
    /\ owner' = "notifyAll"
    /\ UNCHANGED <<steal, stop, queue, pc, call, running, status, started, home>>

\* faulty variant: stop() does not notify
NotifyAllForgotten(q) ==
    /\ owner = "notifyAll" /\ queueStop[q] /\ \A r \in Workers : r > q => ~queueStop[r]
    /\ UNCHANGED pc
    /\ owner' = IF q = ThreadNum - 1 THEN "join" ELSE "stopQueue"
    /\ UNCHANGED <<steal, stop, queue, queueStop, call, running, status, started, home>>

NotifyAll(q) ==
    /\ owner = "notifyAll" /\ queueStop[q] /\ \A r \in Workers : r > q => ~queueStop[r]
    /\ pc' = Woken(q)
    /\ owner' = IF q = ThreadNum - 1 THEN "join" ELSE "stopQueue"
    /\ UNCHANGED <<steal, stop, queue, queueStop, call, running, status, started, home>>

Join ==
    /\ owner = "join" /\ \A w \in Workers : pc[w] = "exit"
    /\ owner' = "destroyed"
    /\ UNCHANGED <<steal, stop, queue, queueStop, pc, call, running, status, started, home>>

Terminated == owner = "destroyed" /\ UNCHANGED vars

WorkerStep(w) == Steal(w) \/ Pop(w) \/ CheckStop(w) \/ Return(w)
CallStep(t) == TryPush(t) \/ Push(t) \/ Notify(t)
OwnerStep == \/ DestroyPool \/ Join
             \/ \E q \in Workers : StopQueue(q) \/ NotifyAll(q)
UserStep(t) == \E j \in Jobs :
    \/ Schedule(t, j)
    \/ \E o \in ContextThreads, prompt \in BOOLEAN : Checkin(t, j, o, prompt)

Next ==
    \/ \E t \in Threads : UserStep(t) \/ CallStep(t)
    \/ \E w \in Workers : WorkerStep(w)
    \/ OwnerStep
    \/ Terminated

Spec == Init /\ [][Next]_vars

\* The operating system runs every thread that is not blocked; the owner destroys the
\* pool at last, and no job and no client goes on for ever.
FairSpec ==
    /\ Spec
    /\ \A w \in Workers : WF_vars(WorkerStep(w))
    /\ \A t \in Threads : WF_vars(CallStep(t))
    /\ WF_vars(OwnerStep)

----
TypeOK ==
    /\ {steal, stop} \subseteq BOOLEAN
    /\ queue \in [Workers -> Seq([job : Jobs, canSteal : BOOLEAN])]
    /\ queueStop \in [Workers -> BOOLEAN]
    /\ pc \in [Threads -> {"user", "tryPush", "push", "notify", "steal", "pop",
                           "wait", "checkStop", "exit"}]
    /\ call \in [Threads -> [job : Jobs \cup {"none"}, id : Workers \cup {AnyQueue}]]
    /\ running \in [Workers -> Seq(Jobs)]
    /\ status \in [Jobs -> {"new", "accepted", "rejected", "null"}]
    /\ home \in [Jobs -> Workers \cup {AnyQueue}]
    /\ started \in [Jobs -> Seq(Workers)]
    /\ owner \in {"alive", "stopQueue", "notifyAll", "join", "destroyed"}

Queued(j) == UNION {{<<w, i>> : i \in {k \in DOMAIN queue[w] : queue[w][k].job = j}} :
                       w \in Workers}
Pushing(j) == {t \in Threads : call[t].job = j /\ pc[t] \in {"tryPush", "push"}}

\* scheduleById, Queue, worker loop: a job that was not turned away is in one place at
\* a time, from the call on: with its caller, in one queue once, or started once,
\* however workers steal and probe; one that was turned away is nowhere.
ConservesJobs == \A j \in Jobs :
    LET places == Len(started[j]) + Cardinality(Queued(j)) + Cardinality(Pushing(j)) IN
    /\ status[j] = "accepted" => places = 1
    /\ status[j] \in {"rejected", "null"} => places = 0
    /\ places <= 1

\* Queue::pop and push: a worker never sleeps on a queue that has an item, or that was
\* stopped, unless the thread that put it there has still to notify.
NoLostWakeup == \A w \in Workers : pc[w] = "wait" =>
    /\ queue[w] # <<>> => \E t \in Threads : pc[t] = "notify" /\ call[t].id = w
    /\ queueStop[w] => owner = "notifyAll" /\ \A r \in Workers : r > w => ~queueStop[r]

\* SimpleExecutor::checkin: a job that is checked in is started by the worker on which
\* its context was checked out, whoever steals and whatever shortcut `prompt` takes.
RunsAtHome == \A j \in Jobs : \A i \in DOMAIN started[j] :
    home[j] \in {AnyQueue, started[j][i]}

\* SimpleExecutor::schedule: a job that is in a queue when ~ThreadPool begins, or
\* before, is run in the end.
QueuedBeforeStopRuns == \A j \in Jobs : (Queued(j) # {} /\ ~stop) ~> (started[j] # <<>>)

\* ~ThreadPool returns: every worker is woken up, finds its queue stopped and exits.
DestructorReturns == <>(owner = "destroyed")

\* Executor::schedule: "In case schedule return true, the executor should guarantee
\* that the func would be executed."
AcceptedIsRun == owner = "destroyed" =>
    \A j \in Jobs : status[j] = "accepted" => started[j] # <<>>
====
