---- MODULE AwaitProofs ----
(* co_await in a Lazy, for any number of awaits, executors and threads: a coroutine is *)
(* resumed once for every suspension, in the right place and with a true answer.       *)
EXTENDS Await, FiniteSetTheorems, TLAPS

\* What the fields of one awaiter say of each other.
Local(a) ==
    /\ a.suspend = "emplace" => a.kind \in Futures /\ a.continuation = "none" /\ a.holds = "future"
    /\ a.suspend = "continue" => a.kind \in HasPromise /\ a.continuation = "none"
    /\ a.suspend = "schedule" => a.kind \in {"yield", "dispatch"}
    /\ a.suspend = "schedule" /\ a.kind = "yield" => a.ex # NoExecutor
    /\ a.suspend = "none" => a.holds = "future"
    /\ a.continuation # "none" => a.suspend = "done" /\ a.kind \in HasPromise
    /\ a.timer # "none" => a.kind = "sleep" /\ a.ex # NoExecutor
    /\ a.kind = "sleep" => a.suspend = "none"
    /\ a.holds = "exception" => a.kind \in Futures
    /\ a.armed => a.holds = "exception" /\ (a.suspend = "continue" \/ a.continuation = "set")
    /\ a.by # {} => a.continuation = "set" /\ a.future # "pending"

\* The coroutine has not come to this co_await.
Untouched(a) ==
    /\ a.suspend = "none" /\ a.continuation = "none" /\ a.timer = "none"
    /\ a.holds = "future" /\ a.by = {} /\ ~a.armed

\* The awaiter has still to resume its coroutine, or to let an executor do so.
Live(a) ==
    \/ a.suspend \in {"emplace", "schedule"}
    \/ /\ a.suspend = "continue" \/ a.continuation = "set"
       /\ ~(a.kind \in Futures /\ a.holds = "exception" /\ ~a.armed)
    \/ a.timer \in {"start", "waiting", "schedule"}

LocalInv == \A n \in Points : Local(await[n]) /\ (n > current => Untouched(await[n]))

\* One party at a time can resume: an awaiter that is live or an entry of a queue, and
\* then the coroutine is suspended there.
OnceInv ==
    /\ ~misuse
    /\ \A n \in Points : Live(await[n]) => coro = "suspended" /\ current = n /\ queue = {}
    /\ \A r \in queue : coro = "suspended" /\ current = r.of
    /\ \A r, q \in queue : r = q
    /\ caller = "start" => coro = "new"
    /\ coro = "new" => current = 0 /\ executor["inner"] = executor["outer"]
    /\ coro \in {"suspended", "resuming"} => current \in Points

\* The coroutine is on a thread of e, or of the executor that a sleep brought it to.
Here(e) ==
    IF host = NoExecutor THEN e # NoExecutor => thread \in Workers(e)
    ELSE thread \in Workers(host)

\* The Lazies on the stack share an executor, and whoever resumes does it there, but for a
\* timer, which resumes on its own executor.
PlaceInv ==
    /\ current <= InnerAwaits => executor["inner"] = executor["outer"]
    /\ coro = "new" => host = NoExecutor
    /\ Running => Here(executor["outer"])
    /\ \A n \in Points : coro = "suspended" /\ current = n =>
         /\ thread = await[n].home
         /\ await[n].kind # "sleep" => Here(await[n].ex)
         /\ await[n].kind \notin {"dispatch", "sleep"} => await[n].ex = executor["outer"]
         /\ await[n].kind = "dispatch" => executor["outer"] # NoExecutor
    /\ \A r \in queue :
         /\ r.from = "timer" =>
              await[r.of].ex # NoExecutor /\ r.on \subseteq Workers(await[r.of].ex)
         /\ r.from # "timer" =>
              executor["outer"] # NoExecutor /\ r.on \subseteq Workers(executor["outer"])
         /\ await[r.of].kind \in Futures \cup {"awaitable"} => r.on = {await[r.of].home}
    /\ \A n \in Points :
         /\ coro = "resuming" /\ current = n /\ await[n].ex # NoExecutor
         /\ await[n].kind \in Futures \cup {"awaitable"}
         => thread = await[n].home

\* The answer that await_resume will give is true.
Answered(a) ==
    /\ a.kind \in HasPromise /\ a.holds = "future" => a.future # "pending"
    /\ a.holds = "exception" => terminated
    /\ a.kind = "sleep" => a.elapsed \/ terminated

TrueOutcome(a) ==
    /\ a.outcome \in {"value", "error"} => a.outcome = a.future
    /\ a.outcome = "cancelled" => terminated /\ a.kind \in Cancellable
    /\ a.outcome = "returned" /\ a.kind = "sleep" => a.elapsed \/ terminated
    /\ a.outcome = "returned" /\ a.kind = "void" => a.future # "pending" \/ terminated

TruthInv ==
    /\ emitter \in {"walk", "call"} => terminated
    /\ \A r \in queue : Answered(await[r.of])
    /\ \A n \in Points : coro = "resuming" /\ current = n => Answered(await[n])
    /\ \A n \in Points : await[n].timer = "schedule" => await[n].elapsed \/ terminated
    /\ \A n \in Points : TrueOutcome(await[n])

AwaitInv == TypeOK /\ LocalInv /\ OnceInv /\ PlaceInv /\ TruthInv

----
(* Facts the cases share *)

Awaiters == [kind : AllKinds,
             suspend : {"none", "emplace", "continue", "schedule", "done"},
             home : Threads, ex : Executors \cup {NoExecutor}, armed : BOOLEAN,
             holds : {"future", "exception"}, future : {"pending", "value", "error"},
             continuation : {"none", "set", "called"}, by : SUBSET Threads,
             timer : {"none", "start", "waiting", "schedule", "done"},
             elapsed : BOOLEAN,
             outcome : {"none", "value", "error", "cancelled", "returned", "refused"}]
Resumptions == [of : Points, from : {"continuation", "handler", "timer", "yield", "dispatch"},
                on : SUBSET Threads]
Same(a, b) == a.kind = b.kind /\ a.home = b.home /\ a.ex = b.ex

\* The signal and its handler are what a Slot promises, and Terminate is never taken back.
SignalTypes ==
    /\ slot \in BOOLEAN /\ handler \in 0 .. Emitted /\ terminated \in BOOLEAN
    /\ emitter \in {"idle", "walk", "call", "done"} /\ taken \in 0 .. Emitted
SignalStep ==
    /\ SignalTypes' /\ (terminated => terminated')
    /\ emitter' \in {"walk", "call"} => terminated'

LEMMA AwaitTypes ==
    TypeOK <=>
      /\ executor \in [Lazies -> Executors \cup {NoExecutor}]
      /\ coro \in {"new", "running", "suspended", "resuming", "finished"}
      /\ current \in 0 .. Awaits /\ thread \in Threads /\ host \in Executors \cup {NoExecutor}
      /\ await \in [Points -> Awaiters]
      /\ queue \subseteq Resumptions
      /\ SignalTypes
      /\ refused \in BOOLEAN /\ strayed \in BOOLEAN /\ misuse \in BOOLEAN
      /\ caller \in {"start", "waiting", "returned"}
BY DEF TypeOK, Awaiters, Resumptions, SignalTypes

LEMMA PointFacts == \A n \in Points : n \in Nat /\ n > 0 /\ n <= Awaits /\ n \in 0 .. Emitted
BY AwaitAssumption DEF Points, Emitted

LEMMA BecomeFacts ==
    ASSUME TypeOK, NEW n \in Points, NEW a \in Awaiters, Become(n, a)
    PROVE  /\ await[n] \in Awaiters
           /\ await' \in [Points -> Awaiters] /\ await'[n] = a
           /\ \A m \in Points : m # n => await'[m] = await[m]
BY AwaitTypes DEF Become

LEMMA SameSignals ==
    ASSUME AwaitInv, UNCHANGED signals PROVE SignalStep
BY AwaitTypes DEF AwaitInv, TruthInv, SignalStep, SignalTypes, signals

\* The awaiter at n changes and nothing else but the signal: it does not resume yet, or
\* has lost the right to, or loses the coroutine.
LEMMA LoseStep ==
    ASSUME AwaitInv, NEW n \in Points, NEW a \in Awaiters, Become(n, a),
           UNCHANGED <<executor, coro, current, thread, host, queue, refused, misuse, caller>>,
           strayed' \in BOOLEAN, SignalStep,
           Same(a, await[n]), Local(a), n > current => Untouched(a),
           Live(a) => Live(await[n]),
           Answered(await[n]) /\ ~Live(await[n]) => Answered(a)',
           a.timer = "schedule" => a.elapsed \/ terminated', TrueOutcome(a)'
    PROVE  AwaitInv'
<1>b. /\ await' \in [Points -> Awaiters] /\ await'[n] = a
      /\ \A m \in Points : m # n => await'[m] = await[m]
  BY BecomeFacts DEF AwaitInv
<1>un. UNCHANGED <<executor, coro, current, thread, host, queue, refused, misuse, caller>>
  OBVIOUS
<1>q. \A r \in queue : r.of \in Points
  BY AwaitTypes DEF AwaitInv, Resumptions
<1>1. TypeOK'
  BY <1>b, <1>un, AwaitTypes DEF AwaitInv, SignalStep, TypeOK, Awaiters, SignalTypes
<1>2. LocalInv'
  BY <1>b, <1>un DEF AwaitInv, LocalInv
<1>3. OnceInv'
  BY <1>b, <1>un DEF AwaitInv, OnceInv
<1>4. PlaceInv'
  BY <1>b, <1>un, <1>q DEF AwaitInv, PlaceInv, Same, Running, Here
<1>5. TruthInv'
  <2>1. \A m \in Points : m # n /\ Answered(await[m]) => Answered(await[m])'
    BY <1>b DEF Answered, SignalStep
  <2>2. \A m \in Points : TrueOutcome(await[m])'
    BY <1>b DEF TrueOutcome, SignalStep, AwaitInv, TruthInv
  <2>3. ~Live(await[n]) /\ Answered(await[n]) => Answered(await[n])'
    BY <1>b DEF Answered
  <2>4. \A m \in Points : await'[m].timer = "schedule" => await'[m].elapsed \/ terminated'
    BY <1>b DEF AwaitInv, TruthInv, SignalStep
  <2>5. \A m \in Points : Answered(await[m]) /\ ~Live(await[m]) => Answered(await[m])'
    BY <2>1, <2>3
  <2>6. \A r \in queue : Answered(await[r.of])'
    <3> SUFFICES ASSUME NEW r \in queue PROVE Answered(await[r.of])'
      OBVIOUS
    <3>1. PICK m \in Points : m = r.of
      BY <1>q
    <3>2. Answered(await[m]) /\ ~Live(await[m])
      BY <3>1 DEF AwaitInv, TruthInv, OnceInv
    <3> QED
      BY <3>1, <3>2, <2>5
  <2>7. \A m \in Points : coro = "resuming" /\ current = m => Answered(await[m])'
    BY <2>5 DEF AwaitInv, TruthInv, OnceInv
  <2> QED
    BY <1>un, <2>2, <2>4, <2>6, <2>7 DEF TruthInv, SignalStep
<1> QED
  BY <1>1, <1>2, <1>3, <1>4, <1>5 DEF AwaitInv

\* The awaiter at n changes and does not resume.
LEMMA QuietStep ==
    ASSUME AwaitInv, NEW n \in Points, NEW a \in Awaiters, Become(n, a), NoResumption,
           UNCHANGED <<executor, current, caller>>, SignalStep,
           Same(a, await[n]), Local(a), n > current => Untouched(a),
           Live(a) => Live(await[n]),
           Answered(await[n]) /\ ~Live(await[n]) => Answered(a)',
           a.timer = "schedule" => a.elapsed \/ terminated', TrueOutcome(a)'
    PROVE  AwaitInv'
<1>1. UNCHANGED <<executor, coro, current, thread, host, queue, refused, misuse, caller>>
  BY DEF NoResumption, failures
<1>2. strayed' \in BOOLEAN
  BY AwaitTypes DEF NoResumption, failures, AwaitInv
<1> QED
  BY <1>1, <1>2, LoseStep

\* Terminate stays emitted and results stay: what was true of the other awaiters is.
LEMMA TruthStays ==
    ASSUME AwaitInv, NEW n \in Points, NEW a \in Awaiters, Become(n, a), SignalStep,
           a.timer = "schedule" => a.elapsed \/ terminated', TrueOutcome(a)'
    PROVE  /\ \A m \in Points : await'[m].timer = "schedule" => await'[m].elapsed \/ terminated'
           /\ \A m \in Points : TrueOutcome(await[m])'
<1>b. /\ await' \in [Points -> Awaiters] /\ await'[n] = a
      /\ \A m \in Points : m # n => await'[m] = await[m]
  BY BecomeFacts DEF AwaitInv
<1>1. \A m \in Points : await'[m].timer = "schedule" => await'[m].elapsed \/ terminated'
  BY <1>b DEF AwaitInv, TruthInv, SignalStep
<1>2. \A m \in Points : TrueOutcome(await[m])'
  BY <1>b DEF TrueOutcome, SignalStep, AwaitInv, TruthInv
<1> QED
  BY <1>1, <1>2

\* The live awaiter at n resumes the coroutine on thread t.
LEMMA ResumeStep ==
    ASSUME AwaitInv, NEW n \in Points, NEW a \in Awaiters, NEW t \in Threads,
           Become(n, a), Resume(n, t),
           UNCHANGED <<executor, current, caller>>, SignalStep,
           Same(a, await[n]), Local(a), Live(await[n]), ~Live(a),
           a.kind \notin {"dispatch", "sleep"}, a.ex = NoExecutor \/ t = a.home,
           Answered(a)', a.timer = "schedule" => a.elapsed \/ terminated', TrueOutcome(a)'
    PROVE  AwaitInv'
<1>b. /\ await' \in [Points -> Awaiters] /\ await'[n] = a
      /\ \A m \in Points : m # n => await'[m] = await[m]
  BY BecomeFacts DEF AwaitInv
<1>at. coro = "suspended" /\ current = n /\ queue = {}
  BY DEF AwaitInv, OnceInv
<1>un. /\ UNCHANGED <<executor, current, queue, refused, strayed, misuse, caller>>
       /\ coro' = "resuming" /\ thread' = t
       /\ host' = IF t = await[n].home THEN host ELSE NoExecutor
  BY <1>at DEF Resume, Continue
<1>1. TypeOK'
  BY <1>b, <1>un, AwaitTypes DEF AwaitInv, SignalStep, TypeOK, Awaiters, SignalTypes
<1>2. LocalInv'
  BY <1>b, <1>un, <1>at, PointFacts DEF AwaitInv, LocalInv
<1>3. OnceInv'
  BY <1>b, <1>un, <1>at DEF AwaitInv, OnceInv
<1>4. PlaceInv'
  <2>1. /\ thread = await[n].home /\ Here(await[n].ex) /\ await[n].ex = executor["outer"]
    BY <1>at DEF AwaitInv, PlaceInv, Same
  <2>2. Here(executor["outer"])'
    BY <2>1, <1>un DEF Here, Same
  <2> QED
    BY <2>1, <2>2, <1>b, <1>un, <1>at DEF AwaitInv, PlaceInv, Same, Running
<1>5. TruthInv'
  BY <1>b, <1>un, <1>at, TruthStays DEF TruthInv, SignalStep
<1> QED
  BY <1>1, <1>2, <1>3, <1>4, <1>5 DEF AwaitInv

\* The live awaiter at n hands the coroutine to an executor, which may refuse it.
LEMMA EnqueueStep ==
    ASSUME AwaitInv, NEW n \in Points, NEW a \in Awaiters, NEW from, NEW threads \in SUBSET Threads,
           Become(n, a), Enqueue(n, from, threads),
           from \in {"continuation", "handler", "timer", "yield", "dispatch"},
           UNCHANGED <<executor, current, caller>>, SignalStep,
           Same(a, await[n]), Local(a), Live(await[n]), ~Live(a),
           from # "timer" =>
              executor["outer"] # NoExecutor /\ threads \subseteq Workers(executor["outer"]),
           from = "timer" => a.ex # NoExecutor /\ threads \subseteq Workers(a.ex),
           a.kind \in Futures \cup {"awaitable"} => threads = {a.home},
           Answered(a)', a.timer = "schedule" => a.elapsed \/ terminated', TrueOutcome(a)'
    PROVE  AwaitInv'
<1>b. /\ await' \in [Points -> Awaiters] /\ await'[n] = a
      /\ \A m \in Points : m # n => await'[m] = await[m]
  BY BecomeFacts DEF AwaitInv
<1>at. coro = "suspended" /\ current = n /\ queue = {}
  BY DEF AwaitInv, OnceInv
<1>un. UNCHANGED <<executor, coro, current, thread, host, strayed, misuse, caller>>
  BY DEF Enqueue
<1>r. PICK e \in Resumptions : e = [of |-> n, from |-> from, on |-> threads]
  BY DEF Resumptions
<1>q. /\ \A r \in queue' : r = e
      /\ queue' \subseteq Resumptions /\ refused' \in BOOLEAN
  BY <1>at, <1>r, AwaitTypes DEF Enqueue, AwaitInv
<1>e. e.of = n /\ e.on = threads /\ e.from = from
  BY <1>r
<1>1. TypeOK'
  BY <1>b, <1>un, <1>q, AwaitTypes DEF AwaitInv, SignalStep, TypeOK, Awaiters, Resumptions, SignalTypes
<1>2. LocalInv'
  BY <1>b, <1>un, <1>at, PointFacts DEF AwaitInv, LocalInv
<1>3. OnceInv'
  BY <1>b, <1>un, <1>at, <1>q, <1>e DEF AwaitInv, OnceInv
<1>4. PlaceInv'
  BY <1>b, <1>un, <1>at, <1>q, <1>e DEF AwaitInv, PlaceInv, Same, Running, Here
<1>5. TruthInv'
  <2>1. \A r \in queue' : Answered(await[r.of])'
    BY <1>b, <1>q, <1>e DEF Answered
  <2> QED
    BY <1>un, <1>at, <2>1, TruthStays DEF TruthInv, SignalStep
<1> QED
  BY <1>1, <1>2, <1>3, <1>4, <1>5 DEF AwaitInv

\* The promise that the awaiter sees is one of the stack's, which share an executor.
LEMMA StackExecutor ==
    ASSUME AwaitInv, NEW n \in Points, n = current \/ n = current + 1
    PROVE  Executor(n) = executor["outer"]
BY PointFacts, AwaitTypes, AwaitAssumption DEF AwaitInv, PlaceInv, Executor

\* The coroutine comes to the co_await n.
LEMMA ComeStep ==
    ASSUME AwaitInv, NEW n \in Points, NEW a \in Awaiters, NEW kinds,
           Comes(n, kinds), Become(n, a), Local(a),
           Same(a, Awaiter(n)) \/ (a.kind = "sleep" /\ Same(a, [Awaiter(n) EXCEPT !.ex = a.ex])),
           coro' \in {"running", "suspended", "resuming"},
           Live(a) => coro' = "suspended", coro' = "resuming" => Answered(a),
           a.timer # "schedule", TrueOutcome(a),
           \/ UNCHANGED executor /\ (coro' = "suspended" => a.kind # "dispatch")
           \/ /\ coro' = "suspended" /\ a.kind = "dispatch"
              /\ \E e \in Executors : ChangeLaziessExecutorTo(n, e)
    PROVE  AwaitInv'
<1>b. /\ await[n] \in Awaiters /\ await' \in [Points -> Awaiters] /\ await'[n] = a
      /\ \A m \in Points : m # n => await'[m] = await[m]
  BY BecomeFacts DEF AwaitInv
<1>un. /\ coro = "running" /\ n = current + 1 /\ current' = n
       /\ UNCHANGED <<thread, host, queue, signals, refused, strayed, misuse, caller>>
  BY DEF Comes, failures
<1>sg. SignalStep
  BY <1>un, SameSignals
<1>a. /\ a.kind = await[n].kind /\ a.home = thread
      /\ a.kind # "sleep" => a.ex = executor["outer"]
  BY <1>b, <1>un, StackExecutor DEF Same, Awaiter, Awaiters
<1>q. queue = {} /\ \A m \in Points : ~Live(await[m])
  BY <1>un DEF AwaitInv, OnceInv
<1>n. current \in Nat /\ n \in Nat /\ n <= Awaits
  BY <1>un, PointFacts, AwaitTypes, AwaitAssumption DEF AwaitInv
<1>ex. /\ executor' \in [Lazies -> Executors \cup {NoExecutor}]
       /\ n <= InnerAwaits => executor'["inner"] = executor'["outer"]
       /\ coro' # "suspended" \/ a.kind # "dispatch" => UNCHANGED executor
       /\ coro' = "suspended" /\ a.kind = "dispatch" => executor'["outer"] \in Executors
  <2>1. CASE UNCHANGED executor /\ (coro' = "suspended" => a.kind # "dispatch")
    BY <2>1, <1>un, <1>n, AwaitTypes, AwaitAssumption DEF AwaitInv, PlaceInv
  <2>2. CASE /\ coro' = "suspended" /\ a.kind = "dispatch"
             /\ \E e \in Executors : ChangeLaziessExecutorTo(n, e)
    <3>1. PICK e \in Executors : ChangeLaziessExecutorTo(n, e)
      BY <2>2
    <3> QED
      BY <2>2, <3>1, AwaitTypes DEF ChangeLaziessExecutorTo, AwaitInv, Lazies, Stack
  <2> QED
    BY <2>1, <2>2
<1>1. TypeOK'
  <2>1. coro' \in {"new", "running", "suspended", "resuming", "finished"} /\ current' \in 0 .. Awaits
    BY <1>un, <1>n
  <2> QED
    BY <2>1, <1>b, <1>un, <1>sg, <1>ex, AwaitTypes
       DEF AwaitInv, SignalStep, TypeOK, Awaiters, Resumptions, SignalTypes
<1>2. LocalInv'
  <2>1. \A m \in Points : m > current' => m > current /\ m # n
    BY <1>un, <1>n, PointFacts
  <2> QED
    BY <2>1, <1>b DEF AwaitInv, LocalInv
<1>3. OnceInv'
  BY <1>b, <1>un, <1>q, <1>n DEF AwaitInv, OnceInv
<1>4. PlaceInv'
  BY <1>b, <1>un, <1>q, <1>a, <1>ex, AwaitAssumption DEF AwaitInv, PlaceInv, Running, Here
<1>5. TruthInv'
  <2>1. UNCHANGED terminated
    BY <1>un DEF signals
  <2>2. TrueOutcome(a)' /\ (coro' = "resuming" => Answered(a)')
    BY <2>1 DEF TrueOutcome, Answered
  <2>3. \A m \in Points : coro' = "resuming" /\ current' = m => Answered(await[m])'
    BY <2>2, <1>b, <1>un DEF Answered
  <2>4. \A m \in Points : TrueOutcome(await[m])'
    BY <2>2, <1>sg, TruthStays
  <2> QED
    BY <1>un, <1>sg, <1>q, <2>2, <2>3, <2>4, TruthStays DEF TruthInv, SignalStep
<1> QED
  BY <1>1, <1>2, <1>3, <1>4, <1>5 DEF AwaitInv

\* await_resume gives the answer of the co_await n, and the coroutine goes on.
LEMMA AnswerStep ==
    ASSUME AwaitInv, NEW n \in Points, NEW a \in Awaiters, Become(n, a),
           coro = "resuming", n = current, coro' = "running", SignalStep,
           UNCHANGED <<executor, current, thread, host, queue, refused, strayed, misuse, caller>>,
           Same(a, await[n]), Local(a), Live(a) => Live(await[n]),
           a.timer = "schedule" => a.elapsed \/ terminated', TrueOutcome(a)'
    PROVE  AwaitInv'
<1>b. /\ await' \in [Points -> Awaiters] /\ await'[n] = a
      /\ \A m \in Points : m # n => await'[m] = await[m]
  BY BecomeFacts DEF AwaitInv
<1>q. queue = {} /\ ~Live(a)
  BY DEF AwaitInv, OnceInv
<1>1. TypeOK'
  BY <1>b, AwaitTypes DEF AwaitInv, SignalStep, TypeOK, Awaiters, Resumptions, SignalTypes
<1>2. LocalInv'
  BY <1>b, PointFacts DEF AwaitInv, LocalInv
<1>3. OnceInv'
  BY <1>b, <1>q DEF AwaitInv, OnceInv
<1>4. PlaceInv'
  BY <1>b, <1>q DEF AwaitInv, PlaceInv, Running, Here
<1>5. TruthInv'
  BY <1>q, TruthStays DEF TruthInv, SignalStep
<1> QED
  BY <1>1, <1>2, <1>3, <1>4, <1>5 DEF AwaitInv

----
(* One case per action *)

\* The awaiter as the coroutine finds it when it comes to the co_await.
LEMMA AwaiterFacts ==
    ASSUME AwaitInv, NEW n \in Points, n = current + 1
    PROVE  /\ Awaiter(n) \in Awaiters /\ Awaiter(n).kind = await[n].kind
           /\ Awaiter(n).future = await[n].future /\ Awaiter(n).ex = Executor(n)
           /\ Untouched(Awaiter(n)) /\ TrueOutcome(Awaiter(n))
<1>1. await[n] \in Awaiters /\ thread \in Threads /\ current \in Nat
  BY AwaitTypes, AwaitAssumption DEF AwaitInv
<1>2. Executor(n) \in Executors \cup {NoExecutor}
  BY StackExecutor, AwaitTypes DEF AwaitInv, Lazies
<1>3. Untouched(await[n]) /\ TrueOutcome(await[n])
  BY <1>1, PointFacts DEF AwaitInv, LocalInv, TruthInv
<1> QED
  BY <1>1, <1>2, <1>3 DEF Awaiter, Awaiters, Untouched, TrueOutcome

LEMMA CaseAwaitResult ==
    ASSUME AwaitInv, NEW n \in Points, AwaitResult(n)
    PROVE  AwaitInv'
<1>1. Comes(n, HasPromise) /\ n = current + 1 /\ await[n].kind \in HasPromise
  BY DEF AwaitResult, Comes
<1>2. PICK b \in Awaiters : b = Awaiter(n)
  BY <1>1, AwaiterFacts
<1>3. b.kind \in HasPromise /\ b.future = await[n].future /\ Untouched(b) /\ TrueOutcome(b)
  BY <1>1, <1>2, AwaiterFacts
<1>4. PICK s \in {"none", "emplace", "continue"} :
        /\ Become(n, [b EXCEPT !.suspend = s])
        /\ s = "emplace" => b.kind \in Futures
        /\ s = "none" => coro' = "resuming" /\ b.future # "pending"
        /\ s # "none" => coro' = "suspended"
  <2> DEFINE first == IF slot /\ await[n].kind \in Futures THEN "emplace" ELSE "continue"
  <2>1. first \in {"emplace", "continue"} /\ (first = "emplace" => await[n].kind \in Futures)
    OBVIOUS
  <2>2. b.kind = await[n].kind
    BY <1>1, <1>2, AwaiterFacts
  <2>3. CASE await[n].future # "pending"
    BY <1>2, <1>3, <2>3 DEF AwaitResult
  <2>4. CASE await[n].future = "pending"
    <3>1. Become(n, [b EXCEPT !.suspend = first]) /\ coro' = "suspended"
      BY <1>2, <2>4 DEF AwaitResult
    <3> HIDE DEF first
    <3> QED
      BY <2>1, <2>2, <3>1
  <2> QED
    BY <2>3, <2>4
<1>5. PICK a : a = [b EXCEPT !.suspend = s]
  OBVIOUS
<1>6. /\ a \in Awaiters /\ Same(a, b) /\ a.suspend = s /\ a.continuation = b.continuation
      /\ a.timer = b.timer /\ a.holds = b.holds /\ a.by = b.by /\ a.armed = b.armed
      /\ a.future = b.future /\ a.outcome = b.outcome /\ a.elapsed = b.elapsed
  BY <1>5 DEF Awaiters, Same
<1>7. a.kind \notin {"sleep", "yield", "dispatch"} /\ a.kind \in HasPromise
  BY <1>3, <1>6 DEF HasPromise, Futures, Same
<1>8. Local(a)
  BY <1>3, <1>4, <1>6, <1>7 DEF Local, Untouched, Same
<1>9. Live(a) => s # "none"
  BY <1>3, <1>6 DEF Live, Untouched
<1>10. s = "none" => Answered(a)
  BY <1>3, <1>4, <1>6, <1>7 DEF Answered, Untouched
<1>11. TrueOutcome(a)
  BY <1>3, <1>6 DEF TrueOutcome, Same
<1>12. UNCHANGED executor /\ Become(n, a) /\ coro' \in {"suspended", "resuming"}
  BY <1>4, <1>5 DEF AwaitResult
<1> QED
  BY <1>1, <1>2, <1>3, <1>4, <1>6, <1>7, <1>8, <1>9, <1>10, <1>11, <1>12, ComeStep DEF Untouched

LEMMA CaseAwaitSleep ==
    ASSUME AwaitInv, NEW n \in Points, NEW e \in Executors \cup {Executor(n)}, AwaitSleep(n, e)
    PROVE  AwaitInv'
<1>1. Comes(n, {"sleep"}) /\ n = current + 1 /\ await[n].kind = "sleep" /\ UNCHANGED executor
  BY DEF AwaitSleep, Comes
<1>2. PICK b \in Awaiters : b = Awaiter(n)
  BY <1>1, AwaiterFacts
<1>3. b.kind = "sleep" /\ b.ex = Executor(n) /\ Untouched(b) /\ TrueOutcome(b)
  BY <1>1, <1>2, AwaiterFacts
<1>e. e \in Executors \cup {NoExecutor}
  BY <1>1, StackExecutor, AwaitTypes DEF AwaitInv, Lazies
<1>4. CASE e = NoExecutor
  <2>1. PICK a : a = [b EXCEPT !.elapsed = TRUE, !.outcome = "returned"]
    OBVIOUS
  <2>2. UNCHANGED coro /\ Become(n, a)
    BY <1>2, <1>4, <2>1 DEF AwaitSleep
  <2>3. /\ a \in Awaiters /\ Same(a, b) /\ a.suspend = b.suspend /\ a.continuation = b.continuation
        /\ a.timer = b.timer /\ a.holds = b.holds /\ a.by = b.by /\ a.armed = b.armed
        /\ a.future = b.future /\ a.outcome = "returned" /\ a.elapsed
    BY <2>1 DEF Awaiters, Same
  <2>4. Local(a) /\ ~Live(a) /\ TrueOutcome(a) /\ a.kind = "sleep" /\ a.timer = "none"
    BY <1>3, <2>3 DEF Local, Live, TrueOutcome, Untouched, Same
  <2>5. coro' = "running"
    BY <1>1, <2>2 DEF Comes
  <2> QED
    BY <1>1, <1>2, <2>2, <2>3, <2>4, <2>5, ComeStep
<1>5. CASE e # NoExecutor /\ HasCanceled
  <2>1. PICK a : a = [b EXCEPT !.ex = e]
    OBVIOUS
  <2>2. coro' = "resuming" /\ Become(n, a) /\ terminated
    BY <1>2, <1>5, <2>1 DEF AwaitSleep, HasCanceled
  <2>3. /\ a \in Awaiters /\ Same(a, [b EXCEPT !.ex = a.ex]) /\ a.suspend = b.suspend
        /\ a.continuation = b.continuation
        /\ a.timer = b.timer /\ a.holds = b.holds /\ a.by = b.by /\ a.armed = b.armed
        /\ a.future = b.future /\ a.outcome = b.outcome /\ a.elapsed = b.elapsed
        /\ a.kind = b.kind
    BY <1>e, <2>1 DEF Awaiters, Same
  <2>4. /\ Local(a) /\ ~Live(a) /\ Answered(a) /\ TrueOutcome(a) /\ a.timer = "none"
        /\ a.kind = "sleep"
    BY <1>3, <2>2, <2>3 DEF Local, Live, Answered, TrueOutcome, Untouched, HasPromise, Futures
  <2> QED
    BY <1>1, <1>2, <2>2, <2>3, <2>4, ComeStep
<1>6. CASE e # NoExecutor /\ ~HasCanceled
  <2>1. PICK a : a = [b EXCEPT !.ex = e, !.timer = "start"]
    OBVIOUS
  <2>2. coro' = "suspended" /\ Become(n, a)
    BY <1>2, <1>6, <2>1 DEF AwaitSleep
  <2>3. /\ a \in Awaiters /\ Same(a, [b EXCEPT !.ex = a.ex]) /\ a.suspend = b.suspend
        /\ a.continuation = b.continuation /\ a.kind = b.kind /\ a.ex = e
        /\ a.timer = "start" /\ a.holds = b.holds /\ a.by = b.by /\ a.armed = b.armed
        /\ a.future = b.future /\ a.outcome = b.outcome /\ a.elapsed = b.elapsed
    BY <1>e, <2>1 DEF Awaiters, Same
  <2>4. Local(a) /\ TrueOutcome(a) /\ a.kind = "sleep"
    BY <1>3, <1>6, <2>3 DEF Local, TrueOutcome, Untouched, Same
  <2> QED
    BY <1>1, <1>2, <2>2, <2>3, <2>4, ComeStep
<1> QED
  BY <1>4, <1>5, <1>6

LEMMA CaseAwaitYield ==
    ASSUME AwaitInv, NEW n \in Points, AwaitYield(n)
    PROVE  AwaitInv'
<1>1. Comes(n, {"yield"}) /\ n = current + 1 /\ await[n].kind = "yield" /\ UNCHANGED executor
  BY DEF AwaitYield, Comes
<1>2. PICK b \in Awaiters : b = Awaiter(n)
  BY <1>1, AwaiterFacts
<1>3. b.kind = "yield" /\ b.ex = Executor(n) /\ Untouched(b) /\ TrueOutcome(b)
  BY <1>1, <1>2, AwaiterFacts
<1>4. CASE HasCanceled
  <2>1. coro' = "resuming" /\ Become(n, b)
    BY <1>2, <1>4 DEF AwaitYield
  <2>2. Local(b) /\ ~Live(b) /\ Answered(b) /\ b.timer = "none"
    BY <1>3 DEF Local, Live, Answered, Untouched, HasPromise, Futures
  <2>3. Same(b, Awaiter(n))
    BY <1>2 DEF Same
  <2> QED
    BY <1>1, <1>2, <1>3, <2>1, <2>2, <2>3, ComeStep
<1>5. CASE ~HasCanceled /\ Executor(n) = NoExecutor
  <2>1. PICK a : a = [b EXCEPT !.outcome = "refused"]
    OBVIOUS
  <2>2. UNCHANGED coro /\ Become(n, a)
    BY <1>2, <1>5, <2>1 DEF AwaitYield
  <2>3. /\ a \in Awaiters /\ Same(a, b) /\ a.suspend = b.suspend /\ a.continuation = b.continuation
        /\ a.timer = b.timer /\ a.holds = b.holds /\ a.by = b.by /\ a.armed = b.armed
        /\ a.future = b.future /\ a.outcome = "refused" /\ a.elapsed = b.elapsed
    BY <2>1 DEF Awaiters, Same
  <2>4. Local(a) /\ ~Live(a) /\ TrueOutcome(a) /\ a.kind = "yield" /\ a.timer = "none"
    BY <1>3, <2>3 DEF Local, Live, TrueOutcome, Untouched, Same
  <2>5. coro' = "running"
    BY <1>1, <2>2 DEF Comes
  <2> QED
    BY <1>1, <1>2, <2>2, <2>3, <2>4, <2>5, ComeStep
<1>6. CASE ~HasCanceled /\ Executor(n) # NoExecutor
  <2>1. PICK a : a = [b EXCEPT !.suspend = "schedule"]
    OBVIOUS
  <2>2. coro' = "suspended" /\ Become(n, a)
    BY <1>2, <1>6, <2>1 DEF AwaitYield
  <2>3. /\ a \in Awaiters /\ Same(a, b) /\ a.suspend = "schedule" /\ a.continuation = b.continuation
        /\ a.timer = b.timer /\ a.holds = b.holds /\ a.by = b.by /\ a.armed = b.armed
        /\ a.future = b.future /\ a.outcome = b.outcome /\ a.elapsed = b.elapsed
    BY <2>1 DEF Awaiters, Same
  <2>4. Local(a) /\ TrueOutcome(a) /\ a.kind = "yield" /\ a.timer = "none"
    BY <1>3, <1>6, <2>3 DEF Local, TrueOutcome, Untouched, Same
  <2> QED
    BY <1>1, <1>2, <2>2, <2>3, <2>4, ComeStep
<1> QED
  BY <1>4, <1>5, <1>6

LEMMA CaseAwaitDispatch ==
    ASSUME AwaitInv, NEW n \in Points, NEW e \in Executors, AwaitDispatch(n, e)
    PROVE  AwaitInv'
<1>1. Comes(n, {"dispatch"}) /\ n = current + 1 /\ await[n].kind = "dispatch"
  BY DEF AwaitDispatch, Comes
<1>2. PICK b \in Awaiters : b = Awaiter(n)
  BY <1>1, AwaiterFacts
<1>3. b.kind = "dispatch" /\ Untouched(b) /\ TrueOutcome(b)
  BY <1>1, <1>2, AwaiterFacts
<1>4. CASE Executor(n) = e
  <2>1. coro' = "resuming" /\ Become(n, b) /\ UNCHANGED executor
    BY <1>2, <1>4 DEF AwaitDispatch
  <2>2. Local(b) /\ ~Live(b) /\ Answered(b) /\ b.timer = "none"
    BY <1>3 DEF Local, Live, Answered, Untouched, HasPromise, Futures
  <2>3. Same(b, Awaiter(n))
    BY <1>2 DEF Same
  <2> QED
    BY <1>1, <1>2, <1>3, <2>1, <2>2, <2>3, ComeStep
<1>5. CASE Executor(n) # e
  <2>1. PICK a : a = [b EXCEPT !.suspend = "schedule"]
    OBVIOUS
  <2>2. coro' = "suspended" /\ Become(n, a) /\ ChangeLaziessExecutorTo(n, e)
    BY <1>2, <1>5, <2>1 DEF AwaitDispatch
  <2>3. /\ a \in Awaiters /\ Same(a, b) /\ a.suspend = "schedule" /\ a.continuation = b.continuation
        /\ a.timer = b.timer /\ a.holds = b.holds /\ a.by = b.by /\ a.armed = b.armed
        /\ a.future = b.future /\ a.outcome = b.outcome /\ a.elapsed = b.elapsed
    BY <2>1 DEF Awaiters, Same
  <2>4. Local(a) /\ TrueOutcome(a) /\ a.kind = "dispatch" /\ a.timer = "none"
    BY <1>3, <2>3 DEF Local, TrueOutcome, Untouched, Same
  <2> QED
    BY <1>1, <1>2, <2>2, <2>3, <2>4, ComeStep
<1> QED
  BY <1>4, <1>5

LEMMA CaseEmplaceHandler ==
    ASSUME AwaitInv, NEW n \in Points, EmplaceHandler(n)
    PROVE  AwaitInv'
<1>1. PICK b \in Awaiters : b = await[n]
  BY AwaitTypes DEF AwaitInv
<1>2. /\ b.suspend = "emplace" /\ Local(b) /\ TrueOutcome(b) /\ Live(b) /\ b.kind \in Futures
      /\ b.continuation = "none" /\ b.holds = "future" /\ b.timer = "none"
  BY <1>1 DEF EmplaceHandler, AwaitInv, LocalInv, TruthInv, Live, Local, Futures
<1>3. b.kind \notin {"sleep", "yield", "dispatch", "awaitable"} /\ b.kind \in HasPromise
  BY <1>2 DEF HasPromise, Futures
<1>4. current = n /\ UNCHANGED <<executor, current, slot, terminated, emitter, taken, caller>>
  BY <1>1, <1>2 DEF AwaitInv, OnceInv, EmplaceHandler
<1>5. CASE terminated
  <2>1. PICK a : a = [b EXCEPT !.suspend = "done", !.holds = "exception"]
    OBVIOUS
  <2>2. Become(n, a) /\ UNCHANGED handler /\ Resume(n, b.home)
    BY <1>1, <1>5, <2>1 DEF EmplaceHandler
  <2>3. /\ a \in Awaiters /\ Same(a, b) /\ a.suspend = "done" /\ a.continuation = b.continuation
        /\ a.timer = b.timer /\ a.holds = "exception" /\ a.by = b.by /\ a.armed = b.armed
        /\ a.future = b.future /\ a.outcome = b.outcome /\ a.elapsed = b.elapsed
    BY <2>1 DEF Awaiters, Same
  <2>4. Local(a) /\ ~Live(a) /\ a.kind \notin {"dispatch", "sleep"}
    BY <1>2, <1>3, <2>3 DEF Local, Live, Same
  <2>5. Answered(a)' /\ TrueOutcome(a)'
    BY <1>2, <1>3, <1>4, <1>5, <2>3 DEF Answered, TrueOutcome, Same
  <2>6. SignalStep
    BY <1>4, <2>2, SameSignals DEF signals
  <2>7. b.home \in Threads /\ b.home = a.home /\ a.timer = "none"
    BY <1>2, <2>3 DEF Awaiters, Same
  <2> QED
    BY <1>1, <1>2, <1>4, <2>2, <2>3, <2>4, <2>5, <2>6, <2>7, ResumeStep
<1>6. CASE ~terminated
  <2>1. PICK a : a = [b EXCEPT !.suspend = "continue", !.holds = "exception", !.armed = TRUE]
    OBVIOUS
  <2>2. Become(n, a) /\ handler' = n /\ NoResumption
    BY <1>1, <1>6, <2>1 DEF EmplaceHandler
  <2>3. /\ a \in Awaiters /\ Same(a, b) /\ a.suspend = "continue" /\ a.continuation = b.continuation
        /\ a.timer = b.timer /\ a.holds = "exception" /\ a.by = b.by /\ a.armed
        /\ a.future = b.future /\ a.outcome = b.outcome /\ a.elapsed = b.elapsed
    BY <2>1 DEF Awaiters, Same
  <2>4. Local(a)
    BY <1>2, <1>3, <2>3 DEF Local, Same
  <2>5. TrueOutcome(a)'
    BY <1>2, <1>4, <2>3 DEF TrueOutcome, Same
  <2>6. SignalStep
    BY <1>4, <2>2, AwaitTypes, PointFacts DEF AwaitInv, TruthInv, SignalStep, SignalTypes
  <2>7. ~(n > current) /\ a.timer = "none"
    BY <1>2, <1>4, <2>3, PointFacts
  <2> QED
    BY <1>1, <1>2, <1>4, <2>2, <2>3, <2>4, <2>5, <2>6, <2>7, QuietStep
<1> QED
  BY <1>5, <1>6

LEMMA CaseSetContinuation ==
    ASSUME AwaitInv, NEW n \in Points, SetContinuation(n)
    PROVE  AwaitInv'
<1>1. PICK b \in Awaiters : b = await[n]
  BY AwaitTypes DEF AwaitInv
<1>2. b.suspend = "continue" /\ Local(b) /\ TrueOutcome(b) /\ (n > current => Untouched(b))
  BY <1>1 DEF SetContinuation, AwaitInv, LocalInv, TruthInv
<1>3. b.kind \in HasPromise /\ b.kind \notin {"sleep", "yield", "dispatch"} /\ b.timer = "none"
  BY <1>2 DEF Local, HasPromise, Futures
<1>4. PICK y \in SUBSET Threads : y = (IF b.future = "pending" THEN {} ELSE {b.home})
  BY DEF Awaiters
<1>5. PICK a : a = [b EXCEPT !.suspend = "done", !.continuation = "set", !.by = y]
  OBVIOUS
<1>6. /\ Become(n, a) /\ NoResumption /\ UNCHANGED <<executor, current, caller>> /\ UNCHANGED signals
  BY <1>1, <1>4, <1>5 DEF SetContinuation
<1>7. /\ a \in Awaiters /\ Same(a, b) /\ a.suspend = "done" /\ a.continuation = "set"
      /\ a.timer = b.timer /\ a.holds = b.holds /\ a.by = y /\ a.armed = b.armed
      /\ a.future = b.future /\ a.outcome = b.outcome /\ a.elapsed = b.elapsed
  BY <1>5 DEF Awaiters, Same
<1>8. y # {} => a.future # "pending"
  BY <1>4, <1>7
<1>9. Local(a)
  BY <1>2, <1>3, <1>7, <1>8 DEF Local, Same
<1>10. Live(a) => Live(b)
  BY <1>2, <1>3, <1>7 DEF Live, Same
<1>11. ~(n > current)
  BY <1>2 DEF Untouched
<1>12. SignalStep /\ UNCHANGED terminated
  BY <1>6, SameSignals DEF signals
<1>13. TrueOutcome(a)' /\ (Answered(b) => Answered(a)')
  BY <1>2, <1>7, <1>12 DEF TrueOutcome, Answered, Same
<1> QED
  BY <1>1, <1>3, <1>6, <1>7, <1>9, <1>10, <1>11, <1>12, <1>13, QuietStep

LEMMA WorkerThreads ==
    ASSUME NEW e \in Executors PROVE Workers(e) \subseteq Threads /\ e # NoExecutor
BY AwaitAssumption DEF Workers, Threads

\* Where the live awaiter at n can resume the coroutine.
LEMMA LivePlace ==
    ASSUME AwaitInv, NEW n \in Points, Live(await[n])
    PROVE  /\ coro = "suspended" /\ current = n /\ queue = {} /\ thread = await[n].home
           /\ await[n].kind # "sleep" => Here(await[n].ex)
           /\ await[n].kind \notin {"dispatch", "sleep"} => await[n].ex = executor["outer"]
           /\ await[n].kind = "dispatch" => executor["outer"] # NoExecutor
           /\ await[n].ex \in Executors \cup {NoExecutor} /\ await[n].home \in Threads
<1>1. coro = "suspended" /\ current = n /\ queue = {}
  BY DEF AwaitInv, OnceInv
<1>2. await[n] \in Awaiters
  BY AwaitTypes DEF AwaitInv
<1> QED
  BY <1>1, <1>2 DEF AwaitInv, PlaceInv, Awaiters

\* The awaiter at n resumes by checkin: in place, through the queue of its home, or not
\* at all when its home is outside the pool.
LEMMA CheckinStep ==
    ASSUME AwaitInv, NEW n \in Points, NEW a \in Awaiters, NEW t \in Threads, NEW from,
           from \in {"continuation", "handler"}, Become(n, a), Checkin(n, from, t),
           UNCHANGED <<executor, current, caller>>, SignalStep,
           Same(a, await[n]), Local(a), Live(await[n]), ~Live(a),
           a.kind \notin {"dispatch", "sleep"},
           Answered(a)', a.timer = "schedule" => a.elapsed \/ terminated', TrueOutcome(a)'
    PROVE  AwaitInv'
<1>0. a.ex = await[n].ex /\ a.home = await[n].home
  BY DEF Same
<1>1. CASE (a.ex = NoExecutor \/ a.home = t) /\ Resume(n, t)
  BY <1>1, ResumeStep
<1>2. CASE a.ex # NoExecutor /\ a.home \in Workers(a.ex) /\ Enqueue(n, from, {a.home})
  <2>1. /\ {a.home} \in SUBSET Threads /\ executor["outer"] # NoExecutor
        /\ {a.home} \subseteq Workers(executor["outer"])
    BY <1>2, LivePlace DEF Same
  <2> QED
    BY <1>2, <2>1, EnqueueStep
<1>3. CASE strayed' = TRUE /\ UNCHANGED <<coro, thread, host, queue, refused, misuse>>
  <2>1. ~(n > current)
    BY LivePlace, PointFacts
  <2> QED
    BY <1>3, <2>1, LoseStep
<1> QED
  BY <1>0, <1>1, <1>2, <1>3 DEF Checkin

LEMMA CaseNotSuspended ==
    ASSUME AwaitInv, NEW n \in Points, NotSuspended(n)
    PROVE  AwaitInv'
<1>1. PICK b \in Awaiters : b = await[n]
  BY AwaitTypes DEF AwaitInv
<1>2. /\ b.suspend = "continue" /\ b.kind = "awaitable" /\ b.future # "pending"
      /\ Local(b) /\ TrueOutcome(b)
  BY <1>1 DEF NotSuspended, AwaitInv, LocalInv, TruthInv
<1>3. /\ b.kind \notin Futures /\ b.continuation = "none" /\ b.timer = "none"
      /\ b.holds = "future" /\ Live(b)
  BY <1>2 DEF Local, Futures, Live, Awaiters
<1>4. PICK a : a = [b EXCEPT !.suspend = "done"]
  OBVIOUS
<1>5. /\ Become(n, a) /\ Checkin(n, "continuation", b.home) /\ UNCHANGED <<executor, current, caller>>
      /\ UNCHANGED signals
  BY <1>1, <1>4 DEF NotSuspended
<1>6. /\ a \in Awaiters /\ Same(a, b) /\ a.suspend = "done" /\ a.continuation = b.continuation
      /\ a.timer = b.timer /\ a.holds = b.holds /\ a.by = b.by /\ a.armed = b.armed
      /\ a.future = b.future /\ a.outcome = b.outcome /\ a.elapsed = b.elapsed
  BY <1>4 DEF Awaiters, Same
<1>7. Local(a) /\ ~Live(a) /\ a.kind \notin {"dispatch", "sleep"}
  BY <1>2, <1>3, <1>6 DEF Local, Live, Same
<1>8. SignalStep /\ UNCHANGED terminated
  BY <1>5, SameSignals DEF signals
<1>9. Answered(a)' /\ TrueOutcome(a)'
  BY <1>2, <1>3, <1>6, <1>8 DEF Answered, TrueOutcome, Same
<1>10. b.home \in Threads /\ b.home = a.home /\ a.timer = "none"
  BY <1>3, <1>6 DEF Awaiters, Same
<1> QED
  BY <1>1, <1>3, <1>5, <1>6, <1>7, <1>8, <1>9, <1>10, CheckinStep

LEMMA CaseScheduleYield ==
    ASSUME AwaitInv, NEW n \in Points, ScheduleYield(n)
    PROVE  AwaitInv'
<1>1. PICK b \in Awaiters : b = await[n]
  BY AwaitTypes DEF AwaitInv
<1>2. b.suspend = "schedule" /\ b.kind = "yield" /\ Local(b) /\ TrueOutcome(b) /\ Live(b)
  BY <1>1 DEF ScheduleYield, AwaitInv, LocalInv, TruthInv, Live
<1>3. /\ b.kind \notin HasPromise /\ b.kind \notin Futures \cup {"awaitable"}
      /\ b.continuation = "none" /\ b.timer = "none"
      /\ b.holds = "future" /\ b.ex # NoExecutor
  BY <1>2 DEF Local, Futures, HasPromise, Awaiters
<1>4. PICK a : a = [b EXCEPT !.suspend = "done"]
  OBVIOUS
<1>5. /\ Become(n, a) /\ Enqueue(n, "yield", Workers(b.ex)) /\ UNCHANGED <<executor, current, caller>>
      /\ UNCHANGED signals
  BY <1>1, <1>4 DEF ScheduleYield
<1>6. /\ a \in Awaiters /\ Same(a, b) /\ a.suspend = "done" /\ a.continuation = b.continuation
      /\ a.timer = b.timer /\ a.holds = b.holds /\ a.by = b.by /\ a.armed = b.armed
      /\ a.future = b.future /\ a.outcome = b.outcome /\ a.elapsed = b.elapsed
  BY <1>4 DEF Awaiters, Same
<1>7. Local(a) /\ ~Live(a) /\ a.kind \notin Futures \cup {"awaitable"}
  BY <1>2, <1>3, <1>6 DEF Local, Live, Same
<1>8. SignalStep /\ UNCHANGED terminated
  BY <1>5, SameSignals DEF signals
<1>9. Answered(a)' /\ TrueOutcome(a)' /\ a.timer = "none"
  BY <1>2, <1>3, <1>6, <1>8 DEF Answered, TrueOutcome, Same
<1>10. /\ executor["outer"] = b.ex /\ b.ex \in Executors /\ Workers(b.ex) \in SUBSET Threads
  BY <1>1, <1>2, <1>3, LivePlace, WorkerThreads
<1> QED
  BY <1>1, <1>2, <1>3, <1>5, <1>6, <1>7, <1>8, <1>9, <1>10, EnqueueStep

LEMMA CaseScheduleDispatch ==
    ASSUME AwaitInv, NEW n \in Points, ScheduleDispatch(n)
    PROVE  AwaitInv'
<1>1. PICK b \in Awaiters : b = await[n]
  BY AwaitTypes DEF AwaitInv
<1>2. b.suspend = "schedule" /\ b.kind = "dispatch" /\ Local(b) /\ TrueOutcome(b) /\ Live(b)
  BY <1>1 DEF ScheduleDispatch, AwaitInv, LocalInv, TruthInv, Live
<1>3. /\ b.kind \notin HasPromise /\ b.kind \notin Futures \cup {"awaitable"}
      /\ b.continuation = "none" /\ b.timer = "none" /\ b.holds = "future"
  BY <1>2 DEF Local, Futures, HasPromise, Awaiters
<1>un. UNCHANGED <<current, thread, host, refused, strayed, misuse, caller>> /\ UNCHANGED signals
  BY DEF ScheduleDispatch, failures
<1>sg. SignalStep /\ UNCHANGED terminated
  BY <1>un, SameSignals DEF signals
<1>at. /\ coro = "suspended" /\ current = n /\ queue = {} /\ thread = b.home
       /\ Here(b.ex) /\ executor["outer"] # NoExecutor
  BY <1>1, <1>2, LivePlace
<1>4. CASE /\ Become(n, [await[n] EXCEPT !.suspend = "done"])
           /\ queue' = queue \cup {[of |-> n, from |-> "dispatch", on |-> Workers(Executor(n))]}
           /\ UNCHANGED <<executor, coro>>
  <2>1. PICK a : a = [b EXCEPT !.suspend = "done"]
    OBVIOUS
  <2>2. /\ a \in Awaiters /\ Same(a, b) /\ a.suspend = "done" /\ a.continuation = b.continuation
        /\ a.timer = b.timer /\ a.holds = b.holds /\ a.by = b.by /\ a.armed = b.armed
        /\ a.future = b.future /\ a.outcome = b.outcome /\ a.elapsed = b.elapsed
    BY <2>1 DEF Awaiters, Same
  <2>3. Local(a) /\ ~Live(a) /\ a.kind \notin Futures \cup {"awaitable"}
    BY <1>2, <1>3, <2>2 DEF Local, Live, Same
  <2>4. Answered(a)' /\ TrueOutcome(a)' /\ a.timer = "none"
    BY <1>2, <1>3, <1>sg, <2>2 DEF Answered, TrueOutcome, Same
  <2>5. PICK e \in Executors : e = executor["outer"]
    BY <1>at, AwaitTypes DEF AwaitInv, Lazies
  <2>6. Executor(n) = e
    BY <1>at, <2>5, StackExecutor
  <2>7. Enqueue(n, "dispatch", Workers(e)) /\ Become(n, a)
    BY <1>1, <1>4, <1>un, <2>1, <2>6 DEF Enqueue
  <2>8. Workers(e) \in SUBSET Threads
    BY WorkerThreads
  <2> QED
    BY <1>1, <1>2, <1>4, <1>un, <1>sg, <1>at, <2>2, <2>3, <2>4, <2>5, <2>7, <2>8, EnqueueStep
<1>5. CASE /\ Become(n, [await[n] EXCEPT !.suspend = "done", !.outcome = "refused"])
           /\ coro' = "running"
           /\ ChangeLaziessExecutorTo(n, await[n].ex)
           /\ UNCHANGED queue
  <2>1. PICK a : a = [b EXCEPT !.suspend = "done", !.outcome = "refused"]
    OBVIOUS
  <2>2. /\ a \in Awaiters /\ Same(a, b) /\ a.suspend = "done" /\ a.continuation = b.continuation
        /\ a.timer = b.timer /\ a.holds = b.holds /\ a.by = b.by /\ a.armed = b.armed
        /\ a.future = b.future /\ a.outcome = "refused" /\ a.elapsed = b.elapsed
    BY <2>1 DEF Awaiters, Same
  <2>3. Local(a) /\ ~Live(a)
    BY <1>2, <1>3, <2>2 DEF Local, Live, Same
  <2>4. TrueOutcome(a)' /\ a.timer = "none"
    BY <1>3, <2>2 DEF TrueOutcome
  <2>5. /\ await' \in [Points -> Awaiters] /\ await'[n] = a
        /\ \A m \in Points : m # n => await'[m] = await[m]
    BY <1>1, <1>5, <2>1, <2>2, BecomeFacts DEF AwaitInv
  <2>6. /\ executor' \in [Lazies -> Executors \cup {NoExecutor}] /\ executor'["outer"] = b.ex
        /\ n <= InnerAwaits => executor'["inner"] = b.ex
    BY <1>1, <1>5, AwaitTypes DEF ChangeLaziessExecutorTo, AwaitInv, Lazies, Stack, Awaiters
  <2>7. TypeOK'
    BY <1>5, <1>un, <1>sg, <2>5, <2>6, AwaitTypes
       DEF AwaitInv, SignalStep, TypeOK, Awaiters, Resumptions, SignalTypes
  <2>8. LocalInv'
    BY <1>un, <1>at, <2>3, <2>5, PointFacts DEF AwaitInv, LocalInv
  <2>9. OnceInv'
    BY <1>5, <1>un, <1>at, <2>3, <2>5 DEF AwaitInv, OnceInv
  <2>10. PlaceInv'
    <3>1. Here(executor["outer"])'
      BY <1>un, <1>at, <2>6 DEF Here
    <3> QED
      BY <1>5, <1>un, <1>at, <2>6, <3>1 DEF PlaceInv, Running
  <2>11. Become(n, a)
    BY <1>1, <1>5, <2>1
  <2>12. TruthInv'
    BY <1>5, <1>sg, <1>at, <2>2, <2>4, <2>11, TruthStays DEF TruthInv, SignalStep
  <2> QED
    BY <2>7, <2>8, <2>9, <2>10, <2>12 DEF AwaitInv
<1> QED
  BY <1>4, <1>5 DEF ScheduleDispatch

LEMMA CaseSetPromise ==
    ASSUME AwaitInv, NEW n \in Points, NEW t \in Threads, SetPromise(n, t)
    PROVE  AwaitInv'
<1>1. PICK b \in Awaiters : b = await[n]
  BY AwaitTypes DEF AwaitInv
<1>2. /\ b.future = "pending" /\ Local(b) /\ TrueOutcome(b) /\ (n > current => Untouched(b))
  BY <1>1 DEF SetPromise, AwaitInv, LocalInv, TruthInv
<1>3. PICK y \in SUBSET Threads : y = (IF b.continuation = "set" THEN {t} ELSE {})
  OBVIOUS
<1>4. PICK r \in {"value", "error"} : Become(n, [b EXCEPT !.future = r, !.by = y])
  BY <1>1, <1>3 DEF SetPromise
<1>5. PICK a : a = [b EXCEPT !.future = r, !.by = y]
  OBVIOUS
<1>6. /\ Become(n, a) /\ NoResumption /\ UNCHANGED <<executor, current, caller>> /\ UNCHANGED signals
  BY <1>4, <1>5 DEF SetPromise
<1>7. /\ a \in Awaiters /\ Same(a, b) /\ a.suspend = b.suspend /\ a.continuation = b.continuation
      /\ a.timer = b.timer /\ a.holds = b.holds /\ a.by = y /\ a.armed = b.armed
      /\ a.future = r /\ a.outcome = b.outcome /\ a.elapsed = b.elapsed
  BY <1>5 DEF Awaiters, Same
<1>8. r # "pending" /\ (y # {} => b.continuation = "set")
  BY <1>3
<1>9. Local(a) /\ (Live(a) => Live(b))
  BY <1>2, <1>7, <1>8 DEF Local, Live, Same
<1>10. n > current => Untouched(a)
  BY <1>2, <1>7, <1>8 DEF Untouched
<1>11. SignalStep /\ UNCHANGED terminated
  BY <1>6, SameSignals DEF signals
<1>12. b.outcome \notin {"value", "error"}
  BY <1>2 DEF TrueOutcome
<1>13. TrueOutcome(a)' /\ (Answered(b) => Answered(a)')
  BY <1>2, <1>7, <1>8, <1>11, <1>12 DEF TrueOutcome, Answered, Same
<1>14. a.timer = "schedule" => a.elapsed \/ terminated'
  BY <1>1, <1>7, <1>11 DEF AwaitInv, TruthInv
<1> QED
  BY <1>1, <1>6, <1>7, <1>9, <1>10, <1>11, <1>13, <1>14, QuietStep

LEMMA CaseCallContinuation ==
    ASSUME AwaitInv, NEW n \in Points, NEW t \in Threads, CallContinuation(n, t)
    PROVE  AwaitInv'
<1>1. PICK b \in Awaiters : b = await[n]
  BY AwaitTypes DEF AwaitInv
<1>2. b.by # {} /\ Local(b) /\ TrueOutcome(b) /\ (n > current => Untouched(b))
  BY <1>1 DEF CallContinuation, AwaitInv, LocalInv, TruthInv
<1>3. /\ b.continuation = "set" /\ b.future # "pending" /\ b.suspend = "done"
      /\ b.kind \in HasPromise /\ b.timer = "none" /\ ~(n > current)
      /\ b.kind \notin {"sleep", "yield", "dispatch"}
  BY <1>2 DEF Local, Untouched, HasPromise, Futures
<1>un. UNCHANGED <<executor, current, caller>> /\ UNCHANGED signals
  BY DEF CallContinuation
<1>sg. SignalStep /\ UNCHANGED terminated
  BY <1>un, SameSignals DEF signals
<1>4. CASE Lost(n)
  <2>0. b.kind \in Futures /\ b.holds = "exception" /\ ~b.armed
    BY <1>1, <1>4 DEF Lost
  <2>1. PICK a : a = [b EXCEPT !.by = {}, !.continuation = "called"]
    OBVIOUS
  <2>2. Become(n, a) /\ NoResumption
    BY <1>1, <1>4, <2>1 DEF CallContinuation
  <2>3. /\ a \in Awaiters /\ Same(a, b) /\ a.suspend = b.suspend /\ a.continuation = "called"
        /\ a.timer = b.timer /\ a.holds = b.holds /\ a.by = {} /\ a.armed = b.armed
        /\ a.future = b.future /\ a.outcome = b.outcome /\ a.elapsed = b.elapsed
    BY <2>1 DEF Awaiters, Same
  <2>4. Local(a) /\ ~Live(a)
    BY <1>2, <1>3, <2>0, <2>3 DEF Local, Live, Same
  <2>5. TrueOutcome(a)' /\ (Answered(b) => Answered(a)')
    BY <1>2, <2>3, <1>sg DEF TrueOutcome, Answered, Same
  <2> QED
    BY <1>1, <1>3, <1>un, <1>sg, <2>2, <2>3, <2>4, <2>5, QuietStep
<1>5. CASE ~Lost(n)
  <2>1. PICK a : a = [b EXCEPT !.by = {}, !.continuation = "called", !.armed = FALSE, !.holds = "future"]
    OBVIOUS
  <2>2. /\ Become(n, a)
        /\ b.kind = "by_schedule" => BySchedule(n, t)
        /\ b.kind # "by_schedule" => Checkin(n, "continuation", t)
    BY <1>1, <1>5, <2>1 DEF CallContinuation
  <2>3. /\ a \in Awaiters /\ Same(a, b) /\ a.suspend = b.suspend /\ a.continuation = "called"
        /\ a.timer = b.timer /\ a.holds = "future" /\ a.by = {} /\ ~a.armed
        /\ a.future = b.future /\ a.outcome = b.outcome /\ a.elapsed = b.elapsed
    BY <2>1 DEF Awaiters, Same
  <2>4. Local(a) /\ ~Live(a) /\ a.kind \notin {"dispatch", "sleep"}
    BY <1>2, <1>3, <2>3 DEF Local, Live, Same
  <2>5. Live(b)
    BY <1>1, <1>3, <1>5 DEF Live, Lost
  <2>6. TrueOutcome(a)' /\ Answered(a)' /\ a.timer = "none"
    BY <1>2, <1>3, <2>3, <1>sg DEF TrueOutcome, Answered, Same
  <2>7. CASE b.kind # "by_schedule"
    BY <1>1, <1>un, <1>sg, <2>2, <2>3, <2>4, <2>5, <2>6, <2>7, CheckinStep
  <2>8. CASE b.kind = "by_schedule" /\ b.ex = NoExecutor
    <3>1. Resume(n, t) /\ a.ex = NoExecutor
      BY <1>1, <2>2, <2>3, <2>8 DEF BySchedule, Same
    <3> QED
      BY <1>1, <1>un, <1>sg, <2>2, <2>3, <2>4, <2>5, <2>6, <3>1, ResumeStep
  <2>9. CASE b.kind = "by_schedule" /\ b.ex # NoExecutor
    <3>1. Enqueue(n, "continuation", Workers(b.ex))
      BY <1>1, <2>2, <2>9 DEF BySchedule
    <3>2. executor["outer"] = b.ex /\ b.ex \in Executors /\ Workers(b.ex) \in SUBSET Threads
      BY <1>1, <2>5, <2>9, LivePlace, WorkerThreads
    <3>3. a.kind \notin Futures \cup {"awaitable"}
      BY <2>3, <2>9 DEF Same, Futures
    <3> QED
      BY <1>1, <1>un, <1>sg, <2>2, <2>3, <2>4, <2>5, <2>6, <2>9, <3>1, <3>2, <3>3, EnqueueStep
  <2> QED
    BY <2>7, <2>8, <2>9
<1> QED
  BY <1>4, <1>5

\* The thread of a timer.
LEMMA CaseTimer ==
    ASSUME AwaitInv, NEW n \in Points, Timer(n)
    PROVE  AwaitInv'
<1>1. PICK b \in Awaiters : b = await[n]
  BY AwaitTypes DEF AwaitInv
<1>2. b.timer \in {"start", "waiting", "schedule"} /\ Local(b) /\ TrueOutcome(b) /\ Live(b)
  BY <1>1 DEF Timer, TimerEmplace, TimerElapses, TimerSchedules, AwaitInv, LocalInv, TruthInv, Live
<1>3. /\ b.kind = "sleep" /\ b.ex # NoExecutor /\ b.suspend = "none" /\ b.holds = "future"
      /\ b.continuation = "none" /\ b.kind \notin HasPromise
      /\ b.kind \notin Futures \cup {"awaitable"}
  BY <1>2 DEF Local, HasPromise, Futures, Awaiters
<1>un. UNCHANGED <<executor, current, caller, terminated, slot, emitter, taken>>
  BY DEF Timer, TimerEmplace, TimerElapses, TimerSchedules, signals
<1>at. ~(n > current)
  BY <1>1, <1>2, LivePlace, PointFacts
<1>4. CASE TimerEmplace(n)
  <2>1. PICK l \in {"schedule", "waiting"} : l = (IF HasCanceled THEN "schedule" ELSE "waiting")
    OBVIOUS
  <2>2. PICK a : a = [b EXCEPT !.timer = l]
    OBVIOUS
  <2>3. Become(n, a) /\ NoResumption /\ handler' \in {n, handler}
    BY <1>1, <1>4, <2>1, <2>2 DEF TimerEmplace
  <2>4. /\ a \in Awaiters /\ Same(a, b) /\ a.suspend = b.suspend /\ a.continuation = b.continuation
        /\ a.timer = l /\ a.holds = b.holds /\ a.by = b.by /\ a.armed = b.armed
        /\ a.future = b.future /\ a.outcome = b.outcome /\ a.elapsed = b.elapsed
    BY <2>2 DEF Awaiters, Same
  <2>5. l = "schedule" => terminated
    BY <2>1 DEF HasCanceled
  <2>6. Local(a) /\ TrueOutcome(a)'
    BY <1>2, <1>3, <1>un, <2>4 DEF Local, TrueOutcome, Same
  <2>7. SignalStep
    BY <1>un, <2>3, AwaitTypes, PointFacts DEF AwaitInv, TruthInv, SignalStep, SignalTypes
  <2> QED
    BY <1>1, <1>2, <1>un, <1>at, <2>3, <2>4, <2>5, <2>6, <2>7, QuietStep
<1>5. CASE TimerElapses(n)
  <2>1. PICK a : a = [b EXCEPT !.timer = "schedule", !.elapsed = TRUE]
    OBVIOUS
  <2>2. Become(n, a) /\ NoResumption /\ UNCHANGED signals
    BY <1>1, <1>5, <2>1 DEF TimerElapses
  <2>3. /\ a \in Awaiters /\ Same(a, b) /\ a.suspend = b.suspend /\ a.continuation = b.continuation
        /\ a.timer = "schedule" /\ a.holds = b.holds /\ a.by = b.by /\ a.armed = b.armed
        /\ a.future = b.future /\ a.outcome = b.outcome /\ a.elapsed
    BY <2>1 DEF Awaiters, Same
  <2>4. Local(a) /\ TrueOutcome(a)'
    BY <1>2, <1>3, <1>un, <2>3 DEF Local, TrueOutcome, Same
  <2> QED
    BY <1>1, <1>2, <1>un, <1>at, <2>2, <2>3, <2>4, SameSignals, QuietStep
<1>6. CASE TimerSchedules(n)
  <2>1. PICK a : a = [b EXCEPT !.timer = "done"]
    OBVIOUS
  <2>2. /\ Become(n, a) /\ Enqueue(n, "timer", Workers(b.ex)) /\ UNCHANGED signals
        /\ b.elapsed \/ terminated
    BY <1>1, <1>6, <2>1 DEF TimerSchedules, AwaitInv, TruthInv
  <2>3. /\ a \in Awaiters /\ Same(a, b) /\ a.suspend = b.suspend /\ a.continuation = b.continuation
        /\ a.timer = "done" /\ a.holds = b.holds /\ a.by = b.by /\ a.armed = b.armed
        /\ a.future = b.future /\ a.outcome = b.outcome /\ a.elapsed = b.elapsed
    BY <2>1 DEF Awaiters, Same
  <2>4. Local(a) /\ ~Live(a) /\ a.kind \notin Futures \cup {"awaitable"}
    BY <1>2, <1>3, <2>3 DEF Local, Live, Same
  <2>5. Answered(a)' /\ TrueOutcome(a)'
    BY <1>2, <1>3, <1>un, <2>2, <2>3 DEF Answered, TrueOutcome, Same
  <2>6. b.ex \in Executors /\ Workers(b.ex) \in SUBSET Threads /\ a.ex = b.ex
    BY <1>1, <1>2, <1>3, <2>3, LivePlace, WorkerThreads DEF Same
  <2> QED
    BY <1>1, <1>2, <1>3, <1>un, <2>2, <2>3, <2>4, <2>5, <2>6, SameSignals, EnqueueStep
<1> QED
  BY <1>4, <1>5, <1>6 DEF Timer

\* The handler of Terminate, called by the emitter.
LEMMA CaseCallHandler ==
    ASSUME AwaitInv, NEW n \in Points, CallHandler(n)
    PROVE  AwaitInv'
<1>1. PICK b \in Awaiters : b = await[n]
  BY AwaitTypes DEF AwaitInv
<1>2. Local(b) /\ TrueOutcome(b) /\ (n > current => Untouched(b))
  BY <1>1 DEF AwaitInv, LocalInv, TruthInv
<1>un. /\ UNCHANGED <<executor, current, caller, slot, handler, terminated, taken>>
       /\ emitter' = "done" /\ terminated
  BY DEF CallHandler, AwaitInv, TruthInv
<1>sg. SignalStep
  BY <1>un, AwaitTypes DEF AwaitInv, SignalStep, SignalTypes
<1>3. CASE b.kind = "sleep"
  <2>1. PICK l \in {"none", "start", "waiting", "schedule", "done"} :
          /\ l = (IF b.timer = "waiting" THEN "schedule" ELSE b.timer)
    BY DEF Awaiters
  <2>2. PICK a : a = [b EXCEPT !.timer = l]
    OBVIOUS
  <2>3. Become(n, a) /\ NoResumption
    BY <1>1, <1>3, <2>1, <2>2 DEF CallHandler
  <2>4. /\ a \in Awaiters /\ Same(a, b) /\ a.suspend = b.suspend /\ a.continuation = b.continuation
        /\ a.timer = l /\ a.holds = b.holds /\ a.by = b.by /\ a.armed = b.armed
        /\ a.future = b.future /\ a.outcome = b.outcome /\ a.elapsed = b.elapsed
    BY <2>2 DEF Awaiters, Same
  <2>5. Local(a) /\ (Live(a) => Live(b)) /\ (n > current => Untouched(a))
    BY <1>2, <2>1, <2>4 DEF Local, Live, Untouched, Same
  <2>6. TrueOutcome(a)' /\ (Answered(b) => Answered(a)')
    BY <1>2, <1>un, <2>4 DEF TrueOutcome, Answered, Same
  <2> QED
    BY <1>1, <1>un, <1>sg, <2>3, <2>4, <2>5, <2>6, QuietStep
<1>4. CASE b.kind # "sleep"
  <2>1. PICK a : a = [b EXCEPT !.armed = FALSE]
    OBVIOUS
  <2>2. /\ Become(n, a)
        /\ b.armed => Checkin(n, "handler", Outside)
        /\ ~b.armed => NoResumption
    BY <1>1, <1>4, <2>1 DEF CallHandler
  <2>3. /\ a \in Awaiters /\ Same(a, b) /\ a.suspend = b.suspend /\ a.continuation = b.continuation
        /\ a.timer = b.timer /\ a.holds = b.holds /\ a.by = b.by /\ ~a.armed
        /\ a.future = b.future /\ a.outcome = b.outcome /\ a.elapsed = b.elapsed
    BY <2>1 DEF Awaiters, Same
  <2>4. Local(a) /\ (Live(a) => Live(b)) /\ (n > current => Untouched(a)) /\ a.timer = "none"
    BY <1>2, <1>4, <2>3 DEF Local, Live, Untouched, Same
  <2>5. TrueOutcome(a)' /\ (Answered(b) => Answered(a)')
    BY <1>2, <1>un, <2>3 DEF TrueOutcome, Answered, Same
  <2>6. CASE b.armed
    <3>1. /\ b.kind \in Futures /\ b.holds = "exception" /\ Live(b)
          /\ b.suspend = "continue" \/ b.continuation = "set"
      BY <1>2, <2>6 DEF Local, Live
    <3>2. ~Live(a) /\ a.kind \notin {"dispatch", "sleep"}
      BY <1>2, <2>3, <2>4, <3>1 DEF Live, Local, Same, Futures
    <3>3. Answered(a)'
      BY <1>un, <2>3, <3>1 DEF Answered, Same, Futures
    <3>4. Outside \in Threads
      BY DEF Threads
    <3> QED
      BY <1>1, <1>un, <1>sg, <2>2, <2>3, <2>4, <2>5, <2>6, <3>1, <3>2, <3>3, <3>4, CheckinStep
  <2>7. CASE ~b.armed
    BY <1>1, <1>un, <1>sg, <2>2, <2>3, <2>4, <2>5, <2>7, QuietStep
  <2> QED
    BY <2>6, <2>7
<1> QED
  BY <1>3, <1>4

\* await_resume.
LEMMA CaseAwaitResume ==
    ASSUME AwaitInv, NEW n \in Points, AwaitResume(n)
    PROVE  AwaitInv'
<1>1. PICK b \in Awaiters : b = await[n]
  BY AwaitTypes DEF AwaitInv
<1>2. /\ coro = "resuming" /\ n = current /\ coro' = "running"
      /\ UNCHANGED <<executor, current, thread, host, queue, refused, strayed, misuse, caller,
                     slot, terminated, emitter, taken>>
      /\ handler' \in {0, handler}
  BY DEF AwaitResume, ResumeResult, ResumeChecked, ResumeDispatch, signals, failures
<1>3. /\ Local(b) /\ TrueOutcome(b) /\ Answered(b)
      /\ b.timer = "schedule" => b.elapsed \/ terminated
  BY <1>1, <1>2 DEF AwaitInv, LocalInv, TruthInv
<1>4. SignalStep
  <2>1. 0 \in 0 .. Emitted
    BY AwaitAssumption DEF Emitted
  <2> QED
    BY <1>2, <2>1, AwaitTypes DEF AwaitInv, TruthInv, SignalStep, SignalTypes
<1>5. ASSUME NEW o \in {"none", "value", "error", "cancelled", "returned", "refused"},
             Become(n, [b EXCEPT !.outcome = o]),
             o \in {"value", "error"} => o = b.future,
             o = "cancelled" => terminated /\ b.kind \in Cancellable,
             o = "returned" /\ b.kind = "sleep" => b.elapsed \/ terminated,
             o = "returned" /\ b.kind = "void" => b.future # "pending" \/ terminated
      PROVE  AwaitInv'
  <2>1. PICK a : a = [b EXCEPT !.outcome = o]
    OBVIOUS
  <2>2. /\ a \in Awaiters /\ Same(a, b) /\ a.suspend = b.suspend /\ a.continuation = b.continuation
        /\ a.timer = b.timer /\ a.holds = b.holds /\ a.by = b.by /\ a.armed = b.armed
        /\ a.future = b.future /\ a.outcome = o /\ a.elapsed = b.elapsed
    BY <2>1 DEF Awaiters, Same
  <2>3. Local(a) /\ (Live(a) => Live(b))
    BY <1>3, <2>2 DEF Local, Live, Same
  <2>4. TrueOutcome(a)'
    BY <1>2, <1>5, <2>2 DEF TrueOutcome, Same
  <2>5. Become(n, a)
    BY <1>5, <2>1
  <2> QED
    BY <1>1, <1>2, <1>3, <1>4, <2>2, <2>3, <2>4, <2>5, AnswerStep
<1>6. CASE ResumeResult(n)
  <2>1. b.kind \in HasPromise /\ b.kind # "sleep"
    BY <1>1, <1>6 DEF ResumeResult, HasPromise, Futures
  <2>2. PICK o : o = (CASE b.kind = "void" -> "returned"
                        [] b.kind # "void" /\ b.holds = "exception" -> "cancelled"
                        [] OTHER -> b.future)
    OBVIOUS
  <2>3. Become(n, [b EXCEPT !.outcome = o])
    BY <1>1, <1>6, <2>2, Zenon DEF ResumeResult
  <2>4. CASE b.kind = "void"
    <3>1. o = "returned"
      BY <2>2, <2>4, Zenon
    <3>2. b.future # "pending" \/ terminated
      BY <1>3, <2>1 DEF Answered, Awaiters
    <3> QED
      BY <1>5, <2>1, <2>3, <3>1, <3>2
  <2>5. CASE b.kind # "void" /\ b.holds = "exception"
    <3>1. o = "cancelled"
      BY <2>2, <2>5, Zenon
    <3>2. terminated /\ b.kind \in Cancellable
      BY <1>3, <2>5 DEF Answered, Local, Cancellable
    <3> QED
      BY <1>5, <2>3, <3>1, <3>2
  <2>6. CASE b.kind # "void" /\ b.holds # "exception"
    <3>1. o = b.future
      BY <2>2, <2>6, Zenon
    <3>2. b.future \in {"value", "error"}
      BY <1>3, <2>1, <2>6 DEF Answered, Awaiters
    <3> QED
      BY <1>5, <2>3, <3>1, <3>2
  <2> QED
    BY <2>4, <2>5, <2>6
<1>7. CASE ResumeChecked(n)
  <2>1. PICK o \in {"cancelled", "returned"} :
          o = (IF HasCanceled /\ ~Installed THEN "cancelled" ELSE "returned")
    OBVIOUS
  <2>2. Become(n, [b EXCEPT !.outcome = o]) /\ b.kind \in {"sleep", "yield"}
    BY <1>1, <1>7, <2>1 DEF ResumeChecked
  <2>3. o = "cancelled" => terminated /\ b.kind \in Cancellable
    BY <2>1, <2>2 DEF HasCanceled, Cancellable
  <2> QED
    BY <1>3, <1>5, <2>2, <2>3 DEF Answered
<1>8. CASE ResumeDispatch(n)
  BY <1>1, <1>5, <1>8 DEF ResumeDispatch
<1> QED
  BY <1>6, <1>7, <1>8 DEF AwaitResume

\* The signal alone changes: Forbid, UpdateState, TakeHandler.
LEMMA SignalFrame ==
    ASSUME AwaitInv, SignalStep,
           UNCHANGED <<executor, coro, current, thread, host, await, queue, refused, strayed, misuse,
                       caller>>
    PROVE  AwaitInv'
<1>1. TypeOK'
  BY AwaitTypes DEF AwaitInv, SignalStep, TypeOK, Awaiters, Resumptions, SignalTypes
<1>2. LocalInv' /\ OnceInv' /\ PlaceInv'
  BY DEF AwaitInv, LocalInv, OnceInv, PlaceInv, Running, Here
<1>3. TruthInv'
  BY DEF AwaitInv, TruthInv, Answered, TrueOutcome, SignalStep
<1> QED
  BY <1>1, <1>2, <1>3 DEF AwaitInv

LEMMA CaseSignal ==
    ASSUME AwaitInv, Forbid \/ UpdateState \/ TakeHandler
    PROVE  AwaitInv'
<1>1. UNCHANGED <<executor, coro, current, thread, host, await, queue, refused, strayed, misuse,
                       caller>>
  BY DEF Forbid, UpdateState, TakeHandler, NoResumption, failures
<1>2. Emitted \in 0 .. Emitted
  BY AwaitAssumption DEF Emitted
<1>3. SignalStep
  BY <1>2, AwaitTypes DEF AwaitInv, TruthInv, SignalStep, SignalTypes, Forbid, UpdateState, TakeHandler
<1> QED
  BY <1>1, <1>3, SignalFrame

LEMMA CaseWork ==
    ASSUME AwaitInv, NEW r \in queue, NEW t \in r.on, RunQueued(r, t)
    PROVE  AwaitInv'
<1>1. PICK n \in Points : n = r.of
  BY AwaitTypes DEF AwaitInv, Resumptions
<1>2. /\ coro = "suspended" /\ current = n /\ queue' = {} /\ t \in Threads
      /\ \A m \in Points : ~Live(await[m])
  BY <1>1, AwaitTypes DEF AwaitInv, OnceInv, RunQueued, Resumptions
<1>3. /\ coro' = "resuming" /\ thread' = t
      /\ host' = IF r.from = "timer" THEN await[n].ex ELSE NoExecutor
      /\ UNCHANGED <<executor, current, await, refused, strayed, misuse, caller>>
      /\ UNCHANGED signals
  BY <1>1, <1>2 DEF RunQueued, Continue
<1>4. SignalStep /\ UNCHANGED terminated
  BY <1>3, SameSignals DEF signals
<1>5. TypeOK'
  <2>1. host' \in Executors \cup {NoExecutor}
    BY <1>3, AwaitTypes DEF AwaitInv, Awaiters
  <2> QED
    BY <1>2, <1>3, <1>4, <2>1, AwaitTypes
       DEF AwaitInv, SignalStep, TypeOK, Awaiters, Resumptions, SignalTypes
<1>6. LocalInv'
  BY <1>3 DEF AwaitInv, LocalInv
<1>7. OnceInv'
  BY <1>2, <1>3 DEF AwaitInv, OnceInv
<1>8. PlaceInv'
  <2>1. /\ r.from = "timer" => await[n].ex # NoExecutor /\ t \in Workers(await[n].ex)
        /\ r.from # "timer" => t \in Workers(executor["outer"])
        /\ await[n].kind \in Futures \cup {"awaitable"} => t = await[n].home
    BY <1>1 DEF AwaitInv, PlaceInv
  <2>2. Here(executor["outer"])'
    BY <1>3, <2>1 DEF Here
  <2> QED
    BY <1>2, <1>3, <2>1, <2>2 DEF AwaitInv, PlaceInv, Running
<1>9. TruthInv'
  <2>1. Answered(await[n])
    BY <1>1 DEF AwaitInv, TruthInv
  <2> QED
    BY <1>2, <1>3, <1>4, <2>1 DEF AwaitInv, TruthInv, Answered, TrueOutcome, SignalStep
<1> QED
  BY <1>5, <1>6, <1>7, <1>8, <1>9 DEF AwaitInv

\* syncAwait starts the Lazy, and the end of the coroutine and of syncAwait.
LEMMA CaseCaller ==
    ASSUME AwaitInv, Launch \/ Finish \/ SyncAwaitReturns
    PROVE  AwaitInv'
<1>un. /\ UNCHANGED <<executor, current, host, await, queue, strayed, misuse>> /\ UNCHANGED signals
       /\ coro # "suspended" /\ queue = {} /\ \A m \in Points : ~Live(await[m])
  BY DEF AwaitInv, OnceInv, Launch, Finish, SyncAwaitReturns, failures
<1>sg. SignalStep /\ UNCHANGED terminated
  BY <1>un, SameSignals DEF signals
<1>1. /\ coro' \in {coro, "running", "finished"} /\ (coro' = "new" => coro = "new")
      /\ caller' # "start" /\ caller' \in {"start", "waiting", "returned"} /\ refused' \in BOOLEAN
      /\ coro' = "resuming" => coro = "resuming" /\ UNCHANGED thread
  BY AwaitTypes DEF AwaitInv, OnceInv, Launch, Finish, SyncAwaitReturns, failures
<1>2. /\ thread' \in Threads
      /\ coro' \in {"running", "resuming"} => Here(executor["outer"])'
  <2>1. CASE Launch
    <3>1. coro = "new" /\ current = 0 /\ 1 \in Points
      BY <2>1, AwaitAssumption DEF Launch, AwaitInv, OnceInv, Points
    <3>2. Executor(1) = executor["outer"]
      BY <3>1, StackExecutor
    <3>3. Executor(1) \in Executors \cup {NoExecutor}
      BY <3>2, AwaitTypes DEF AwaitInv, Lazies
    <3>4. Outside \in Threads /\ host' = NoExecutor
      BY <1>un, <3>1 DEF Threads, AwaitInv, PlaceInv
    <3>5. /\ thread' \in Threads
          /\ coro' = "running" /\ executor["outer"] # NoExecutor => thread' \in Workers(executor["outer"])
          /\ coro' # "resuming"
      BY <2>1, <3>1, <3>2, <3>3, <3>4, WorkerThreads, AwaitTypes DEF Launch, AwaitInv
    <3> QED
      BY <1>un, <3>4, <3>5 DEF Here
  <2>2. CASE Finish \/ SyncAwaitReturns
    BY <2>2, AwaitTypes DEF Finish, SyncAwaitReturns, AwaitInv
  <2> QED
    BY <2>1, <2>2
<1>5. TypeOK'
  BY <1>un, <1>1, <1>2, <1>sg, AwaitTypes DEF AwaitInv, SignalStep, TypeOK, Awaiters, Resumptions, SignalTypes
<1>6. LocalInv'
  BY <1>un DEF AwaitInv, LocalInv
<1>7. OnceInv'
  BY <1>un, <1>1 DEF AwaitInv, OnceInv
<1>8. PlaceInv'
  BY <1>un, <1>1, <1>2 DEF AwaitInv, PlaceInv, Running
<1>9. TruthInv'
  BY <1>un, <1>1, <1>sg DEF AwaitInv, TruthInv, Answered, TrueOutcome, SignalStep
<1> QED
  BY <1>5, <1>6, <1>7, <1>8, <1>9 DEF AwaitInv

----
(* The theorems *)

LEMMA InitAwait == Init => AwaitInv
<1> SUFFICES ASSUME Init PROVE AwaitInv
  OBVIOUS
<1>1. PICK e \in Starts : executor = [l \in Lazies |-> e]
  BY DEF Init
<1>2. PICK program \in [Points -> Kinds] :
         await = [n \in Points |-> [kind |-> program[n], suspend |-> "none",
                    home |-> Outside, ex |-> NoExecutor, armed |-> FALSE, holds |-> "future",
                    future |-> "pending", continuation |-> "none", by |-> {},
                    timer |-> "none", elapsed |-> FALSE, outcome |-> "none"]]
  BY DEF Init
<1>3. \A n \in Points :
        /\ await[n] \in Awaiters /\ Untouched(await[n]) /\ await[n].outcome = "none"
        /\ await[n].kind \in AllKinds
  <2> SUFFICES ASSUME NEW n \in Points
               PROVE  /\ await[n] \in Awaiters /\ Untouched(await[n]) /\ await[n].outcome = "none"
                      /\ await[n].kind \in AllKinds
    OBVIOUS
  <2>1. program[n] \in AllKinds
    BY AwaitAssumption
  <2>2. Outside \in Threads
    BY DEF Threads
  <2> QED
    BY <1>2, <2>1, <2>2 DEF Awaiters, Untouched
<1>4. TypeOK
  <2>1. executor \in [Lazies -> Executors \cup {NoExecutor}]
    BY <1>1, AwaitAssumption
  <2>2. await \in [Points -> Awaiters]
    BY <1>2, <1>3
  <2>3. 0 \in 0 .. Emitted /\ 0 \in 0 .. Awaits /\ Outside \in Threads
    BY AwaitAssumption DEF Emitted, Threads
  <2> QED
    BY <2>1, <2>2, <2>3, AwaitTypes DEF Init, SignalTypes
<1>5. LocalInv
  BY <1>3 DEF LocalInv, Local, Untouched
<1>6. OnceInv
  <2>1. executor["inner"] = executor["outer"]
    BY <1>1 DEF Lazies
  <2>2. \A n \in Points : ~Live(await[n])
    BY <1>3 DEF Live, Untouched
  <2> QED
    BY <2>1, <2>2 DEF Init, OnceInv
<1>7. PlaceInv
  BY <1>1 DEF Init, PlaceInv, Running, Lazies
<1>8. TruthInv
  BY <1>3 DEF Init, TruthInv, TrueOutcome, Untouched
<1> QED
  BY <1>4, <1>5, <1>6, <1>7, <1>8 DEF AwaitInv

LEMMA StepAwait ==
    ASSUME AwaitInv, [Next]_vars
    PROVE  AwaitInv'
<1>1. CASE Come
  BY <1>1, CaseAwaitResult, CaseAwaitSleep, CaseAwaitYield, CaseAwaitDispatch DEF Come
<1>2. ASSUME NEW n \in Points, Suspend(n) PROVE AwaitInv'
  BY <1>2, CaseEmplaceHandler, CaseSetContinuation, CaseNotSuspended, CaseScheduleYield,
     CaseScheduleDispatch DEF Suspend
<1>3. ASSUME NEW n \in Points, Call(n) PROVE AwaitInv'
  BY <1>3, CaseCallContinuation DEF Call
<1>4. ASSUME NEW n \in Points, NEW t \in {Outside, await[n].home}, SetPromise(n, t) PROVE AwaitInv'
  <2>1. t \in Threads
    BY AwaitTypes DEF AwaitInv, Awaiters, Threads
  <2> QED
    BY <1>4, <2>1, CaseSetPromise
<1>5. CASE Emit
  BY <1>5, CaseSignal, CaseCallHandler DEF Emit
<1>6. CASE Work
  BY <1>6, CaseWork DEF Work
<1>7. CASE UNCHANGED vars
  <2>1. /\ UNCHANGED <<executor, coro, current, thread, host, await, queue, refused, strayed, misuse,
                       caller>>
        /\ UNCHANGED signals
    BY <1>7 DEF vars, failures
  <2> QED
    BY <2>1, SameSignals, SignalFrame
<1> QED
  BY <1>1, <1>2, <1>3, <1>4, <1>5, <1>6, <1>7, CaseCaller, CaseSignal, CaseAwaitResume, CaseTimer DEF Next

\* The invariant of co_await holds in every reachable state.
THEOREM AwaitInvariant == Spec => []AwaitInv
BY InitAwait, StepAwait, PTL DEF Spec

\* FutureAwaiter's flag, the single func of a timer, checkin and schedule: for any number
\* of awaits a coroutine is resumed at most once for every suspension, and the variables
\* keep their types.
THEOREM AwaitResumesOnce == Spec => []ResumedOnce
<1>1. ASSUME AwaitInv PROVE ResumedOnce
  <2>1. TypeOK /\ ~misuse /\ (\A r \in queue : coro = "suspended" /\ current = r.of)
    BY <1>1 DEF AwaitInv, OnceInv
  <2>2. Cardinality(queue) <= 1
    <3>1. CASE queue = {}
      BY <3>1, FS_EmptySet
    <3>2. CASE queue # {}
      <4>1. PICK r \in queue : queue = {r}
        BY <1>1, <3>2 DEF AwaitInv, OnceInv
      <4>2. Cardinality({r}) = 1
        BY FS_Singleton
      <4> QED
        BY <4>1, <4>2
    <3> QED
      BY <3>1, <3>2
  <2> QED
    BY <2>1, <2>2 DEF ResumedOnce
<1> QED
  BY <1>1, AwaitInvariant, PTL

\* await_resume: the answer of every co_await is what happened, whoever resumed it.
THEOREM AwaitAnswersTruly == Spec => []OutcomeIsTrue
<1>1. AwaitInv => OutcomeIsTrue
  BY DEF AwaitInv, TruthInv, TrueOutcome, OutcomeIsTrue
<1> QED
  BY <1>1, AwaitInvariant, PTL

\* checkin, schedule, dispatch and sleep: the coroutine runs on a thread of the executor
\* that the Lazies on its stack record, or where a sleep resumed it, and a Future or
\* another awaitable brings it back to the context it left.
THEOREM AwaitRunsInPlace == Spec => []RunsInPlace
<1>1. ASSUME AwaitInv PROVE RunsInPlace
  <2>1. \A l \in Stack(current) : executor[l] = executor["outer"]
    BY <1>1 DEF AwaitInv, PlaceInv, Stack, Lazies
  <2>2. Running => Here(executor["outer"])
    BY <1>1 DEF AwaitInv, PlaceInv
  <2>3. coro = "resuming" => current \in Points
    BY <1>1 DEF AwaitInv, OnceInv
  <2>4. coro = "resuming" /\ await[current].kind \in Futures \cup {"awaitable"}
          /\ await[current].ex # NoExecutor => thread = await[current].home
    BY <1>1, <2>3 DEF AwaitInv, PlaceInv
  <2> QED
    BY <2>1, <2>2, <2>4 DEF RunsInPlace, Here
<1> QED
  BY <1>1, AwaitInvariant, PTL
====
