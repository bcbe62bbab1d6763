---- MODULE Uthread ----
(* uthread/: stackful coroutines on the threads of a SimpleExecutor. A uthread calls     *)
(* collectAll (Collect.h), which starts one uthread per task (Async.h) and awaits a      *)
(* promise that the last task's destruction sets; a task awaits a Future (Await.h) or    *)
(* the Latch, or counts it down. A Future is as module FutureState shows it to be; the   *)
(* switch of stacks is one step. A refused checkin runs the continuation in place.       *)
EXTENDS Integers, Sequences, FiniteSets, SequencesExt

CONSTANTS
    Workers,  \* the threads of the executor
    Tasks,    \* how many tasks collectAll is given
    Programs  \* what a task may do: "future", "latch", "down" or "none"

ASSUME UthreadAssumption ==
    /\ Workers # {} /\ Tasks \in Nat
    /\ Programs \subseteq {"future", "latch", "down", "none"}

VARIABLES
    policy,   \* Launch::Schedule or Launch::Current
    program,  \* per task, what it does
    pc,       \* per uthread, where it is
    stack,    \* per worker, the uthreads switched in on each other; the last one runs
    jobs,     \* the queues of the executor
    result,   \* the Futures that have a result
    awaiting, \* the Futures whose continuation is set, that of uthread::await
    inner,    \* per uthread, f.hasResult() in uthread::await
    home,     \* per uthread, the context of its last checkout
    joined,   \* the uthreads whose join() has set a continuation
    alive,    \* the uthreads whose thread_context, with the stack, exists
    count,    \* Latch::_count
    refs,     \* the references to collectAll's Context
    launched, \* how many tasks collectAll has launched
    refused,  \* the executor refused something
    misuse    \* a uthread was switched in, or its stack freed, while in use

vars == <<policy, program, pc, stack, jobs, result, awaiting, inner, home, joined, alive,
          count, refs, launched, refused, misuse>>

Main == 0
Uthreads == 0 .. Tasks
Latch == Tasks + 1
Collect == Tasks + 2
Job(do, u, on) == [do |-> do, of |-> u, on |-> on]

\* The Latch's promise has one future: one task at most awaits it
Init ==
    /\ policy \in {"schedule", "current"}
    /\ program \in [1 .. Tasks -> Programs]
    /\ \A t, u \in 1 .. Tasks : program[t] = "latch" /\ program[u] = "latch" => t = u
    /\ pc = [u \in Uthreads |-> "new"]
    /\ stack = [w \in Workers |-> <<>>]
    /\ jobs = {Job("start", Main, Workers)}
    /\ result = {} /\ awaiting = {}
    /\ inner = {} /\ home = [u \in Uthreads |-> CHOOSE w \in Workers : TRUE]
    /\ joined = {} /\ alive = {}
    /\ count = Cardinality({t \in 1 .. Tasks : program[t] = "down"})
    /\ refs = Tasks + 1 /\ launched = 0
    /\ refused = FALSE /\ misuse = FALSE

Idle(w) == stack[w] = <<>>
RunningOn(u, w) == stack[w] # <<>> /\ Last(stack[w]) = u
Pop(w) == stack' = [stack EXCEPT ![w] = Front(@)]
Goto(u, label) == pc' = [pc EXCEPT ![u] = label]

\* The Future that a uthread awaits
Awaited(u) ==
    IF u = Main THEN Collect ELSE IF program[u] = "latch" THEN Latch ELSE u

\* What the function of a uthread comes to first: main calls collectAll; a task ends,
\* awaits, or counts the Latch down. A Latch made with count 0 is skipped.
First(u) ==
    CASE u = Main -> "body"
      [] u # Main /\ program[u] = "future" -> "await"
      [] u # Main /\ program[u] = "latch"
           /\ (\E t \in 1 .. Tasks : program[t] = "down") -> "await"
      [] u # Main /\ program[u] = "down" -> "down"
      [] OTHER -> "end"

----
(* Promises and the executor *)

\* faulty variant: the promise is not checked out
SetInnerAnywhere(u, queued) ==
    /\ inner' = inner \cup {u}
    /\ \/ jobs' = queued \cup {Job("switch_in", u, Workers)} /\ UNCHANGED <<refused, misuse>>
       \/ jobs' = queued /\ refused' = TRUE /\ misuse' = TRUE

\* p.setValue in uthread::await: forceSched and checkout make it a checkin of switch_in
\* at the home thread; refused, it switches in right there
SetInner(u, queued) ==
    /\ inner' = inner \cup {u}
    /\ \/ jobs' = queued \cup {Job("switch_in", u, {home[u]})} /\ UNCHANGED <<refused, misuse>>
       \/ jobs' = queued /\ refused' = TRUE /\ misuse' = TRUE

\* faulty variant: the first reference that goes sets the promise
DropContextEarly(queued) ==
    /\ refs' = refs - 1
    /\ result' = result \cup {Collect}
    /\ IF Collect \in awaiting /\ Collect \notin result
       THEN \/ /\ jobs' = queued \cup {Job("set", Main, {home[Main]})}
               /\ UNCHANGED <<inner, refused, misuse>>
            \/ SetInner(Main, queued)
       ELSE jobs' = queued /\ UNCHANGED <<inner, refused, misuse>>

\* A reference to collectAll's Context goes; ~Context sets the promise, whose forceSched
\* checks its continuation in at the thread that called collectAll
DropContext(queued) ==
    /\ refs' = refs - 1
    /\ IF refs # 1
       THEN jobs' = queued /\ UNCHANGED <<result, inner, refused, misuse>>
       ELSE /\ result' = result \cup {Collect}
            /\ IF Collect \in awaiting
               THEN \/ /\ jobs' = queued \cup {Job("set", Main, {home[Main]})}
                       /\ UNCHANGED <<inner, refused, misuse>>
                    \/ SetInner(Main, queued)
               ELSE jobs' = queued /\ UNCHANGED <<inner, refused, misuse>>

\* ~Uthread: the stack and the task's closure are destroyed
Free(u, queued) ==
    /\ alive' = alive \ {u}
    /\ IF u = Main
       THEN jobs' = queued /\ UNCHANGED <<refs, result, inner, refused, misuse>>
       ELSE DropContext(queued)

\* The owner of a task's Future sets it: on a thread of the executor the continuation is
\* called in place, elsewhere it is scheduled, or called in place if that is refused
SetFuture(t) ==
    /\ program[t] = "future" /\ t \notin result
    /\ result' = result \cup {t}
    /\ IF t \notin awaiting
       THEN UNCHANGED <<jobs, inner, refused, misuse>>
       ELSE \/ jobs' = jobs \cup {Job("set", t, Workers)} /\ UNCHANGED <<inner, refused, misuse>>
            \/ SetInner(t, jobs)
    /\ UNCHANGED <<policy, program, pc, stack, awaiting, home, joined, alive, count, refs,
                   launched>>

\* A worker runs the continuation of the awaited Future
RunSet(j, w) ==
    /\ j \in jobs /\ j.do = "set" /\ w \in j.on /\ Idle(w)
    /\ SetInner(j.of, jobs \ {j})
    /\ UNCHANGED <<policy, program, pc, stack, result, awaiting, home, joined, alive, count,
                   refs, launched>>

----
(* Starting, joining and ending a uthread *)

\* The closure of async<Launch::Schedule>: thread_context::setup switches in
Start(j, w) ==
    /\ j \in jobs /\ j.do = "start" /\ w \in j.on /\ Idle(w)
    /\ jobs' = jobs \ {j}
    /\ stack' = [stack EXCEPT ![w] = <<j.of>>]
    /\ Goto(j.of, First(j.of))
    /\ alive' = alive \cup {j.of}
    /\ UNCHANGED <<policy, program, result, awaiting, inner, home, joined, count, refs,
                   launched, refused, misuse>>

SwitchIn(j, w) ==
    /\ j \in jobs /\ j.do = "switch_in" /\ w \in j.on /\ Idle(w)
    /\ jobs' = jobs \ {j}
    /\ IF pc[j.of] = "out" /\ j.of \in alive
       THEN stack' = [stack EXCEPT ![w] = <<j.of>>] /\ Goto(j.of, "in") /\ UNCHANGED misuse
       ELSE misuse' = TRUE /\ UNCHANGED <<stack, pc>>
    /\ UNCHANGED <<policy, program, result, awaiting, inner, home, joined, alive, count,
                   refs, launched, refused>>

\* The first switch_out goes back to who created the uthread, who calls join: done_ is
\* checked out there, and its continuation keeps the uthread
SwitchOut(u, w) ==
    /\ RunningOn(u, w) /\ pc[u] = "switch_out"
    /\ Pop(w) /\ Goto(u, "out")
    /\ joined' = joined \cup {u}
    /\ UNCHANGED <<policy, program, jobs, result, awaiting, inner, home, alive, count, refs,
                   launched, refused, misuse>>

\* await, if the uthread was in one, and func_ have returned: done_.setValue, on the uthread's own stack
Done(u, w) ==
    /\ RunningOn(u, w) /\ pc[u] \in {"in", "end"}
    /\ Goto(u, "final")
    /\ IF u \notin joined
       THEN UNCHANGED <<jobs, refused, misuse>>
       ELSE \/ jobs' = jobs \cup {Job("free", u, {home[u]})} /\ UNCHANGED <<refused, misuse>>
            \/ refused' = TRUE /\ misuse' = TRUE /\ UNCHANGED jobs
    /\ UNCHANGED <<policy, program, stack, result, awaiting, inner, home, joined, alive,
                   count, refs, launched>>

\* final_switch_out; a join that finds the result leaves the uthread to its creator
FinalSwitchOut(u, w) ==
    /\ RunningOn(u, w) /\ pc[u] = "final"
    /\ Pop(w) /\ Goto(u, "finished")
    /\ IF u \in joined
       THEN UNCHANGED <<alive, refs, jobs, result, inner, refused, misuse>>
       ELSE Free(u, jobs)
    /\ UNCHANGED <<policy, program, awaiting, home, joined, count, launched>>

\* The continuation of join, which holds the uthread
RunFree(j, w) ==
    /\ j \in jobs /\ j.do = "free" /\ w \in j.on /\ Idle(w)
    /\ Free(j.of, jobs \ {j})
    /\ UNCHANGED <<policy, program, pc, stack, awaiting, home, joined, count, launched>>

----
(* collectAll and the tasks *)

\* async<Policy> for the next task; a refused one is dropped with its reference
LaunchTask(w) ==
    /\ RunningOn(Main, w) /\ pc[Main] = "body" /\ launched < Tasks
    /\ launched' = launched + 1
    /\ LET t == launched + 1 IN
       \/ /\ policy = "schedule"
          /\ jobs' = jobs \cup {Job("start", t, Workers)}
          /\ UNCHANGED <<pc, stack, alive, refs, result, inner, refused, misuse>>
       \/ /\ policy = "schedule"
          /\ refused' = TRUE /\ refs' = refs - 1
          /\ UNCHANGED <<jobs, pc, stack, alive, result, inner, misuse>>
       \/ /\ policy = "current"
          /\ stack' = [stack EXCEPT ![w] = Append(@, t)]
          /\ Goto(t, First(t)) /\ alive' = alive \cup {t}
          /\ UNCHANGED <<jobs, refs, result, inner, refused, misuse>>
    /\ home' = [home EXCEPT ![Main] = w]
    /\ UNCHANGED <<policy, program, awaiting, joined, count>>

\* The loop is over and its own reference goes
Launched(w) ==
    /\ RunningOn(Main, w) /\ pc[Main] = "body" /\ launched = Tasks
    /\ Goto(Main, "await")
    /\ home' = [home EXCEPT ![Main] = w]
    /\ DropContext(jobs)
    /\ UNCHANGED <<policy, program, stack, awaiting, joined, alive, count, launched>>

\* faulty variant: fetch_sub's answer taken for the new count
DownCountNew(t, w) ==
    /\ RunningOn(t, w) /\ pc[t] = "down"
    /\ Goto(t, "end")
    /\ count' = count - 1
    /\ UNCHANGED <<policy, program, stack, jobs, result, awaiting, inner, home, joined, alive,
                   refs, launched, refused, misuse>>

\* Latch::downCount: who finds 1 sets the promise, in place on a thread of the executor
DownCount(t, w) ==
    /\ RunningOn(t, w) /\ pc[t] = "down"
    /\ Goto(t, "end")
    /\ count' = count - 1
    /\ result' = IF count = 1 THEN result \cup {Latch} ELSE result
    /\ IF count = 1 /\ Latch \in awaiting
       THEN \E u \in 1 .. Tasks : program[u] = "latch" /\ SetInner(u, jobs)
       ELSE UNCHANGED <<jobs, inner, refused, misuse>>
    /\ UNCHANGED <<policy, program, stack, awaiting, home, joined, alive, refs, launched>>

\* uthread::await: a result is returned at once; otherwise a promise is checked out and
\* its continuation, switch_in, set
AwaitCheck(u, w) ==
    /\ RunningOn(u, w) /\ pc[u] = "await"
    /\ IF Awaited(u) \in result
       THEN Goto(u, "end") /\ UNCHANGED home
       ELSE Goto(u, "then") /\ home' = [home EXCEPT ![u] = w]
    /\ UNCHANGED <<policy, program, stack, jobs, result, awaiting, inner, joined, alive,
                   count, refs, launched, refused, misuse>>

\* fut.thenTry: if there is a result by now its continuation runs in place, that of
\* collectAll's promise, with forceSched, is checked in
ThenTry(u, w) ==
    /\ RunningOn(u, w) /\ pc[u] = "then"
    /\ Goto(u, "switch_out")
    /\ awaiting' = awaiting \cup {Awaited(u)}
    /\ IF Awaited(u) \notin result
       THEN UNCHANGED <<jobs, inner, refused, misuse>>
       ELSE \/ /\ Awaited(u) = Collect
               /\ jobs' = jobs \cup {Job("set", u, {home[u]})}
               /\ UNCHANGED <<inner, refused, misuse>>
            \/ SetInner(u, jobs)
    /\ UNCHANGED <<policy, program, stack, result, home, joined, alive, count, refs, launched>>

----
Step(w) ==
    \/ \E j \in jobs : Start(j, w) \/ SwitchIn(j, w) \/ RunSet(j, w) \/ RunFree(j, w)
    \/ LaunchTask(w) \/ Launched(w)
    \/ \E u \in Uthreads :
        \/ DownCount(u, w) \/ AwaitCheck(u, w) \/ ThenTry(u, w)
        \/ SwitchOut(u, w) \/ Done(u, w) \/ FinalSwitchOut(u, w)

\* Once a stack is used twice or freed in use nothing more can be said
Next == ~misuse /\ ((\E w \in Workers : Step(w)) \/ (\E t \in 1 .. Tasks : SetFuture(t)))

Spec == Init /\ [][Next]_vars

\* The threads of the executor go on, and who holds the promise of a Future sets it
FairSpec ==
    /\ Spec
    /\ \A w \in Workers : WF_vars(~misuse /\ Step(w))
    /\ \A t \in 1 .. Tasks : WF_vars(~misuse /\ SetFuture(t))

----
TypeOK ==
    /\ policy \in {"schedule", "current"} /\ program \in [1 .. Tasks -> Programs]
    /\ pc \in [Uthreads -> {"new", "body", "down", "await", "then", "switch_out", "out", "in",
                            "end", "final", "finished"}]
    /\ stack \in [Workers -> Seq(Uthreads)]
    /\ jobs \subseteq [do : {"start", "set", "switch_in", "free"}, of : Uthreads,
                       on : SUBSET Workers]
    /\ result \subseteq 1 .. Collect /\ awaiting \subseteq 1 .. Collect
    /\ inner \subseteq Uthreads /\ home \in [Uthreads -> Workers]
    /\ joined \subseteq Uthreads /\ alive \subseteq Uthreads
    /\ count \in 0 .. Tasks /\ refs \in 0 .. Tasks + 1 /\ launched \in 0 .. Tasks
    /\ refused \in BOOLEAN /\ misuse \in BOOLEAN

\* Unless the executor refuses, a uthread is switched in only when it has switched out, is
\* never on two stacks or twice on one, and its own stack lives as long as it runs on it:
\* forceSched and checkout bring switch_in and the end of join to its own thread, later.
SwitchedSafely ==
    /\ TypeOK
    /\ ~refused => ~misuse
    /\ \A w \in Workers : IsInjective(stack[w]) /\ ToSet(stack[w]) \subseteq alive
    /\ \A v, w \in Workers : v # w => ToSet(stack[v]) \cap ToSet(stack[w]) = {}

\* await returns with a result (its assertion), the one of Latch::await when the count is
\* zero, and collectAll's when every task that was not refused has ended and is destroyed.
AwaitReturnsLate ==
    \A u \in Uthreads :
        /\ pc[u] = "in" => u \in inner /\ Awaited(u) \in result
        /\ Latch \in result => count = 0
        /\ u # Main /\ (pc[Main] \in {"in", "end", "final", "finished"}) =>
             u \notin alive /\ (pc[u] = "finished" \/ (refused /\ pc[u] = "new"))

\* If the executor refuses nothing, collectAll returns, every uthread ends and every stack
\* is freed.
AllFreed == <>(refused \/ (alive = {} /\ \A u \in Uthreads : pc[u] = "finished"))

====
