---- MODULE ThreadPoolProofs ----
(* ThreadPool and SimpleExecutor, for every number of threads, clients and jobs: no job *)
(* is lost, doubled or run away from home, and no worker sleeps through a push or stop. *)
EXTENDS ThreadPool, FiniteSetTheorems, TLAPS

\* How SimpleExecutor is used: a context is checked out on a thread of the pool, and the
\* ids leave bit 30, which marks a context, free.
ContextContract == ContextThreads \subseteq Workers /\ ThreadNum <= ContextMask

\* A thread inside scheduleById, past the early returns, with job j.
CallLabels == {"tryPush", "push", "notify"}
InCall(t, j) == pc[t] \in CallLabels /\ call[t].job = j
InQueue(j) == \E w \in Workers : \E i \in DOMAIN queue[w] : queue[w][i].job = j
Arrived(j) == InQueue(j) \/ started[j] # <<>>

\* What a worker runs was started there, and nowhere else.
RunInv ==
    /\ \A w \in Workers : pc[w] \in CallLabels \cup {"user"} => running[w] # <<>>
    /\ \A w \in Workers : \A i \in DOMAIN running[w] :
          started[running[w][i]] # <<>> /\ started[running[w][i]][1] = w

\* A job is handed over by its parent, before its status is known, and is nowhere until
\* the push and somewhere after it.
CallInv ==
    /\ \A t \in Threads : pc[t] \in CallLabels => call[t].job \in Jobs
    /\ \A t \in Threads : pc[t] = "notify" => call[t].id \in Workers
    /\ \A t \in Threads, j \in Jobs : InCall(t, j) =>
          /\ Caller(t) = Parent[j] /\ status[j] = "new"
          /\ pc[t] = "notify" <=> Arrived(j)

\* Where a job is: in one queue at one place, or started, once.
PlaceInv ==
    /\ \A w, v \in Workers : \A i \in DOMAIN queue[w], k \in DOMAIN queue[v] :
          queue[w][i].job = queue[v][k].job => w = v /\ i = k
    /\ \A j \in Jobs : InQueue(j) => started[j] = <<>>
    /\ \A j \in Jobs : Len(started[j]) <= 1
    /\ \A j \in Jobs : status[j] = "accepted" => Arrived(j)
    /\ \A j \in Jobs : status[j] \in {"rejected", "null"} => ~Arrived(j)
    /\ \A j \in Jobs : status[j] = "new" /\ (Arrived(j) \/ home[j] # AnyQueue) =>
          \E t \in Threads : InCall(t, j)

\* A job that was checked in is on its way to its home and cannot be stolen.
HomeInv ==
    /\ \A w \in Workers : \A i \in DOMAIN queue[w] :
          \/ home[queue[w][i].job] = AnyQueue
          \/ home[queue[w][i].job] = w /\ ~queue[w][i].canSteal
    /\ \A t \in Threads : pc[t] \in {"tryPush", "push"} =>
          /\ home[call[t].job] = call[t].id
          /\ pc[t] = "tryPush" => call[t].id = AnyQueue
    /\ RunsAtHome

\* ~ThreadPool stops the queues in their order.
StopInv ==
    /\ NoLostWakeup
    /\ \A w, v \in Workers : queueStop[v] /\ w < v => queueStop[w]

PoolInv == TypeOK /\ RunInv /\ CallInv /\ PlaceInv /\ HomeInv /\ StopInv

----
(* Facts the cases share *)

LEMMA PoolFacts ==
    /\ \A w \in Workers : w \in Int /\ w \in Threads /\ w \notin Clients
    /\ \A t \in Clients : t \in Threads /\ t \notin Workers
    /\ \A t \in Threads : t \in Clients \/ t \in Workers
    /\ AnyQueue \notin Workers
BY PoolAssumption DEF Workers, Threads, AnyQueue

\* The bit above a number below m.
LEMMA DivFacts ==
    ASSUME NEW m \in Nat, m > 0, NEW o \in 0 .. m - 1
    PROVE  o \div m = 0 /\ (o + m) \div m = 1
<1>1. o \div m = 0
  OBVIOUS
<1>2. (o + m) \div m = 1
  OBVIOUS
<1> QED
  BY <1>1, <1>2

\* A context that was checked out on thread o leads checkin back to o.
LEMMA ContextId ==
    ASSUME ContextContract, NEW o \in ContextThreads
    PROVE  o \in Workers /\ ClearBit(Checkout(o)) = o /\ CurrentId(o) = o
<1>0. ContextMask \in Nat /\ ContextMask > 0
  BY SMT DEF ContextMask
<1>1. o \in Workers /\ o \in 0 .. ContextMask - 1
  BY <1>0, PoolAssumption DEF ContextContract, Workers
<1>2. CurrentId(o) = o
  BY <1>1 DEF CurrentId
<1>3. o \div ContextMask = 0 /\ (o + ContextMask) \div ContextMask = 1
  BY <1>0, <1>1, DivFacts
<1>4. SetBit(o) = o + ContextMask
  BY <1>3 DEF SetBit
<1>5. ClearBit(o + ContextMask) = o
  BY <1>0, <1>1, <1>3 DEF ClearBit
<1> QED
  BY <1>1, <1>2, <1>4, <1>5 DEF Checkout

\* The code of one client or job is executed by one thread.
LEMMA CallerUnique ==
    ASSUME TypeOK, RunInv, NEW t \in Threads, NEW u \in Threads,
           pc[t] \in CallLabels \cup {"user"}, pc[u] \in CallLabels \cup {"user"},
           Caller(t) = Caller(u)
    PROVE  t = u
<1>1. \A w \in Workers : pc[w] \in CallLabels \cup {"user"} =>
         /\ running[w] \in Seq(Jobs) /\ running[w] # <<>>
         /\ Head(running[w]) \in Jobs /\ started[Head(running[w])][1] = w
  BY DEF TypeOK, RunInv
<1>2. \A w \in Workers : w \notin Clients
  BY PoolFacts
<1>3. CASE t \in Workers /\ u \in Workers
  BY <1>1, <1>2, <1>3 DEF Caller
<1>4. CASE t \in Clients /\ u \in Clients
  BY <1>4 DEF Caller
<1>5. CASE t \in Clients /\ u \in Workers
  BY <1>1, <1>2, <1>5, PoolAssumption DEF Caller
<1>6. CASE t \in Workers /\ u \in Clients
  BY <1>1, <1>2, <1>6, PoolAssumption DEF Caller
<1> QED
  BY <1>3, <1>4, <1>5, <1>6, PoolFacts

\* A job that may be handed over is nowhere yet.
LEMMA FreshJob ==
    ASSUME PoolInv, NEW t \in Threads, NEW j \in Jobs, MayCall(t, j)
    PROVE  /\ \A u \in Threads : ~InCall(u, j)
           /\ ~Arrived(j) /\ home[j] = AnyQueue
           /\ started[j] = <<>> /\ status[j] = "new"
<1>1. \A u \in Threads : ~InCall(u, j)
  <2> SUFFICES ASSUME NEW u \in Threads, InCall(u, j) PROVE FALSE
    OBVIOUS
  <2>1. pc[u] \in CallLabels /\ Caller(u) = Parent[j]
    BY DEF InCall, PoolInv, CallInv
  <2>2. Caller(t) = Parent[j] /\ pc[t] = "user"
    BY DEF MayCall
  <2>3. t = u
    BY <2>1, <2>2, CallerUnique DEF PoolInv
  <2> QED
    BY <2>1, <2>2, <2>3 DEF CallLabels
<1>2. status[j] = "new"
  BY DEF MayCall
<1>3. ~Arrived(j) /\ home[j] = AnyQueue
  BY <1>1, <1>2 DEF PoolInv, PlaceInv
<1> QED
  BY <1>1, <1>2, <1>3 DEF Arrived

\* Two callers hand over different jobs.
LEMMA OneCaller ==
    ASSUME PoolInv, NEW t \in Threads, NEW u \in Threads,
           pc[t] \in CallLabels, pc[u] \in CallLabels, call[t].job = call[u].job
    PROVE  t = u
<1>1. Caller(t) = Caller(u)
  BY DEF PoolInv, CallInv, InCall
<1> QED
  BY <1>1, CallerUnique DEF PoolInv

\* The predicates on the queues depend on the queues and the starts alone.
LEMMA ArrivedFrame ==
    ASSUME UNCHANGED <<queue, started>>
    PROVE  \A j : (InQueue(j)' <=> InQueue(j)) /\ (Arrived(j)' <=> Arrived(j))
BY DEF InQueue, Arrived

\* A step that leaves the jobs where they are.
LEMMA PlaceFrame ==
    ASSUME PlaceInv, HomeInv, UNCHANGED <<queue, started, status, home>>,
           \A t \in Threads : pc[t] \in CallLabels =>
              pc'[t] = pc[t] /\ call'[t] = call[t],
           \A t \in Threads : pc'[t] \in {"tryPush", "push"} => pc[t] = pc'[t]
    PROVE  PlaceInv' /\ HomeInv'
<1>1. \A t \in Threads : \A j \in Jobs : InCall(t, j) => InCall(t, j)'
  BY DEF InCall
<1>2. PlaceInv'
  BY <1>1, ArrivedFrame DEF PlaceInv
<1>3. HomeInv'
  <2>1. RunsAtHome'
    BY DEF HomeInv, RunsAtHome
  <2>2. \A t \in Threads : pc'[t] \in {"tryPush", "push"} =>
          /\ home'[call'[t].job] = call'[t].id
          /\ pc'[t] = "tryPush" => call'[t].id = AnyQueue
    BY DEF HomeInv, CallLabels
  <2> QED
    BY <2>1, <2>2 DEF HomeInv
<1> QED
  BY <1>2, <1>3

\* A step that neither pushes nor stops, lets no worker fall asleep and takes back no notification.
LEMMA StopFrame ==
    ASSUME StopInv, UNCHANGED <<queueStop, owner>>,
           \A w \in Workers : pc'[w] = "wait" =>
              /\ pc[w] = "wait"
              /\ queue'[w] # <<>> => queue[w] # <<>>,
           \A t \in Threads : pc[t] = "notify" => pc'[t] = "notify" /\ call'[t].id = call[t].id
    PROVE  StopInv'
<1>1. NoLostWakeup'
  BY DEF StopInv, NoLostWakeup
<1> QED
  BY <1>1 DEF StopInv

----
(* One case per action *)

\* schedule and checkin up to the early returns of scheduleById.
LEMMA StepHandsOver ==
    ASSUME PoolInv, NEW t \in Threads, NEW j \in Jobs, NEW id \in Workers \cup {AnyQueue},
           MayCall(t, j), ScheduleById(t, j, id), home' = [home EXCEPT ![j] = id],
           UNCHANGED <<steal, pool, running, started>>
    PROVE  PoolInv'
<1> USE PoolFacts
<1>un. UNCHANGED <<steal, stop, queue, queueStop, owner, running, started>>
  BY DEF pool
<1>fr. /\ \A u \in Threads : ~InCall(u, j)
       /\ ~Arrived(j) /\ started[j] = <<>>
       /\ status[j] = "new" /\ pc[t] = "user"
  BY FreshJob DEF MayCall
<1>q. \A w \in Workers : \A i \in DOMAIN queue[w] : queue[w][i].job # j
  BY <1>fr DEF Arrived, InQueue
<1>st. \A k \in Jobs : k # j => status'[k] = status[k] /\ home'[k] = home[k]
  BY DEF ScheduleById, PoolInv, TypeOK
<1>h. home'[j] = id
  BY DEF PoolInv, TypeOK
<1>ar. \A k : Arrived(k)' <=> Arrived(k)
  BY <1>un, ArrivedFrame
<1>cl. \A u \in Threads : Caller(u)' = Caller(u)
  BY <1>un DEF Caller
<1>1. CASE UNCHANGED <<pc, call>> /\ status'[j] \in {"null", "rejected"} /\ status' = [status EXCEPT ![j] = status'[j]]
  <2>1. TypeOK'
    BY <1>un, <1>1 DEF PoolInv, TypeOK
  <2>2. \A u \in Threads : pc[u] \in CallLabels => call[u].job # j
    BY <1>fr DEF InCall
  <2>i. \A u \in Threads : \A k \in Jobs : InCall(u, k)' <=> InCall(u, k)
    BY <1>1 DEF InCall
  <2>3. RunInv' /\ CallInv'
    <3>1. RunInv'
      BY <1>un, <1>1 DEF PoolInv, RunInv
    <3>2. CallInv'
      BY <1>1, <2>i, <1>fr, <1>st, <1>ar, <1>cl DEF PoolInv, CallInv
    <3> QED
      BY <3>1, <3>2
  <2>4. PlaceInv'
    <3>1. \A u \in Threads : \A k \in Jobs : InCall(u, k)' <=> InCall(u, k)
      BY <2>i
    <3>2. \A k \in Jobs : InQueue(k)' <=> InQueue(k)
      BY <1>un, ArrivedFrame
    <3> QED
      BY <1>un, <1>1, <1>fr, <1>st, <1>ar, <3>1, <3>2 DEF PoolInv, PlaceInv
  <2>5. HomeInv'
    <3>1. RunsAtHome'
      BY <1>un, <1>fr, <1>st DEF PoolInv, HomeInv, RunsAtHome
    <3>2. \A w \in Workers : \A i \in DOMAIN queue[w] : home'[queue[w][i].job] = home[queue[w][i].job]
      BY <1>q, <1>st DEF PoolInv, TypeOK
    <3>3. \A u \in Threads : pc[u] \in CallLabels => home'[call[u].job] = home[call[u].job]
      BY <2>2, <1>st DEF PoolInv, CallInv
    <3> QED
      BY <1>un, <1>1, <3>1, <3>2, <3>3 DEF PoolInv, HomeInv, CallLabels
  <2>6. StopInv'
    BY <1>un, <1>1, StopFrame DEF PoolInv
  <2> QED
    BY <2>1, <2>3, <2>4, <2>5, <2>6 DEF PoolInv
<1>2. CASE /\ call' = [call EXCEPT ![t] = [job |-> j, id |-> id]]
           /\ Goto(t, IF id = AnyQueue /\ steal THEN "tryPush" ELSE "push")
           /\ UNCHANGED status
  <2>0. /\ \A u \in Threads : u # t => pc'[u] = pc[u] /\ call'[u] = call[u]
        /\ pc'[t] \in {"tryPush", "push"} /\ (pc'[t] = "tryPush" => id = AnyQueue)
        /\ call'[t].job = j /\ call'[t].id = id
    BY <1>2 DEF Goto, PoolInv, TypeOK
  <2>1. TypeOK'
    <3>1. pc' \in [Threads -> {"user", "tryPush", "push", "notify", "steal", "pop",
                           "wait", "checkStop", "exit"}]
      BY <1>2 DEF Goto, PoolInv, TypeOK
    <3>2. call' \in [Threads -> [job : Jobs \cup {"none"}, id : Workers \cup {AnyQueue}]]
      BY <1>2 DEF PoolInv, TypeOK
    <3> QED
      BY <1>un, <1>2, <3>1, <3>2 DEF PoolInv, TypeOK
  <2>2. \A u \in Threads : u # t /\ pc[u] \in CallLabels => call[u].job # j
    BY <1>fr DEF InCall
  <2>i. \A u \in Threads : \A k \in Jobs : InCall(u, k)' <=> InCall(u, k) \/ (u = t /\ k = j)
    BY <2>0, <1>fr DEF InCall, CallLabels
  <2>3. RunInv' /\ CallInv'
    <3>1. RunInv'
      BY <1>un, <1>fr, <2>0 DEF PoolInv, RunInv
    <3>2. \A u \in Threads : pc'[u] \in CallLabels => call'[u].job \in Jobs
      BY <2>0 DEF PoolInv, CallInv
    <3>3. \A u \in Threads : pc'[u] = "notify" => call'[u].id \in Workers
      BY <2>0 DEF PoolInv, CallInv
    <3>4. \A u \in Threads, k \in Jobs : InCall(u, k)' =>
             /\ Caller(u)' = Parent[k] /\ status'[k] = "new"
             /\ pc'[u] = "notify" <=> Arrived(k)'
      <4>1. \A u \in Threads, k \in Jobs : InCall(u, k) =>
               /\ u # t /\ Caller(u) = Parent[k] /\ status[k] = "new"
               /\ pc[u] = "notify" <=> Arrived(k)
        BY <1>fr DEF PoolInv, CallInv, InCall, CallLabels
      <4>2. Caller(t) = Parent[j]
        BY DEF MayCall
      <4> QED
        BY <4>1, <4>2, <2>i, <2>0, <1>2, <1>fr, <1>ar, <1>cl
    <3> QED
      BY <3>1, <3>2, <3>3, <3>4 DEF CallInv
  <2>4. PlaceInv'
    <3>1. \A u \in Threads : \A k \in Jobs : InCall(u, k) => InCall(u, k)'
      BY <2>0, <1>fr DEF InCall, CallLabels
    <3>2. InCall(t, j)'
      BY <2>0 DEF InCall, CallLabels
    <3>3. \A k \in Jobs : InQueue(k)' <=> InQueue(k)
      BY <1>un, ArrivedFrame
    <3> QED
      BY <1>un, <1>2, <1>st, <1>ar, <3>1, <3>2, <3>3 DEF PoolInv, PlaceInv
  <2>5. HomeInv'
    <3>1. RunsAtHome'
      BY <1>un, <1>fr, <1>st DEF PoolInv, HomeInv, RunsAtHome
    <3>2. \A w \in Workers : \A i \in DOMAIN queue[w] : home'[queue[w][i].job] = home[queue[w][i].job]
      BY <1>q, <1>st DEF PoolInv, TypeOK
    <3>3. \A u \in Threads : u # t /\ pc[u] \in CallLabels => home'[call[u].job] = home[call[u].job]
      BY <2>2, <1>st DEF PoolInv, CallInv
    <3> QED
      BY <1>un, <1>h, <2>0, <3>1, <3>2, <3>3 DEF PoolInv, HomeInv, CallLabels
  <2>6. StopInv'
    BY <1>un, <1>fr, <2>0, StopFrame DEF PoolInv
  <2> QED
    BY <2>1, <2>3, <2>4, <2>5, <2>6 DEF PoolInv
<1>3. ScheduleById(t, j, id) =>
        \/ /\ UNCHANGED <<pc, call>> /\ status'[j] \in {"null", "rejected"}
           /\ status' = [status EXCEPT ![j] = status'[j]]
        \/ /\ call' = [call EXCEPT ![t] = [job |-> j, id |-> id]]
           /\ Goto(t, IF id = AnyQueue /\ steal THEN "tryPush" ELSE "push")
           /\ UNCHANGED status
  BY DEF ScheduleById, PoolInv, TypeOK
<1> QED
  BY <1>1, <1>2, <1>3

LEMMA StepSchedule ==
    ASSUME PoolInv, NEW t \in Threads, NEW j \in Jobs, Schedule(t, j)
    PROVE  PoolInv'
<1>1. MayCall(t, j) /\ home[j] = AnyQueue
  BY FreshJob DEF Schedule
<1>2. home' = [home EXCEPT ![j] = AnyQueue]
  BY <1>1 DEF Schedule, PoolInv, TypeOK
<1> QED
  BY <1>1, <1>2, StepHandsOver DEF Schedule

\* checkin on the context's own thread calls the job in place.
LEMMA StepInPlace ==
    ASSUME PoolInv, NEW t \in Workers, NEW j \in Jobs, MayCall(t, j),
           running' = [running EXCEPT ![t] = <<j>> \o @],
           status' = [status EXCEPT ![j] = "accepted"],
           started' = [started EXCEPT ![j] = Append(@, t)],
           home' = [home EXCEPT ![j] = t],
           UNCHANGED <<steal, stop, queue, queueStop, owner, pc, call>>
    PROVE  PoolInv'
<1> USE PoolFacts
<1>fr. /\ \A u \in Threads : ~InCall(u, j)
       /\ ~Arrived(j) /\ started[j] = <<>>
       /\ status[j] = "new" /\ pc[t] = "user"
  BY FreshJob DEF MayCall
<1>q. \A w \in Workers : \A i \in DOMAIN queue[w] : queue[w][i].job # j
  BY <1>fr DEF Arrived, InQueue
<1>st. /\ \A k \in Jobs : k # j => status'[k] = status[k] /\ home'[k] = home[k] /\ started'[k] = started[k]
       /\ status'[j] = "accepted" /\ home'[j] = t /\ started'[j] = <<t>>
  <2>1. started'[j] = Append(<<>>, t)
    BY <1>fr DEF PoolInv, TypeOK
  <2>2. Append(<<>>, t) = <<t>>
    OBVIOUS
  <2> QED
    BY <2>1, <2>2 DEF PoolInv, TypeOK
<1>iq. \A k \in Jobs : InQueue(k)' <=> InQueue(k)
  BY DEF InQueue
<1>ar. Arrived(j)' /\ \A k \in Jobs : k # j => (Arrived(k)' <=> Arrived(k))
  BY <1>iq, <1>st DEF Arrived
<1>cj. \A u \in Threads : pc[u] \in CallLabels => call[u].job \in Jobs /\ call[u].job # j
  BY <1>fr DEF InCall, PoolInv, CallInv
<1>rn. /\ \A w \in Workers : w # t => running'[w] = running[w]
       /\ running'[t] = <<j>> \o running[t] /\ running[t] \in Seq(Jobs) /\ running'[t] \in Seq(Jobs)
  BY DEF PoolInv, TypeOK
<1>rj. \A w \in Workers : \A i \in DOMAIN running[w] : running[w][i] \in Jobs /\ running[w][i] # j
  <2>1. \A w \in Workers : \A i \in DOMAIN running[w] : running[w][i] \in Jobs
    BY DEF PoolInv, TypeOK
  <2>2. \A w \in Workers : \A i \in DOMAIN running[w] : started[running[w][i]] # <<>>
    BY DEF PoolInv, RunInv
  <2> QED
    BY <2>1, <2>2, <1>fr
<1>1. TypeOK'
  <2>1. running' \in [Workers -> Seq(Jobs)]
    BY <1>rn DEF PoolInv, TypeOK
  <2>2. started' \in [Jobs -> Seq(Workers)]
    BY DEF PoolInv, TypeOK
  <2>3. status' \in [Jobs -> {"new", "accepted", "rejected", "null"}]
    BY DEF PoolInv, TypeOK
  <2>4. home' \in [Jobs -> Workers \cup {AnyQueue}]
    BY DEF PoolInv, TypeOK
  <2> QED
    BY <2>1, <2>2, <2>3, <2>4 DEF PoolInv, TypeOK
<1>2. RunInv' /\ CallInv'
  <2>0. \A w \in Workers : \A i \in DOMAIN running[w] :
           started[running[w][i]] # <<>> /\ started[running[w][i]][1] = w
    BY DEF PoolInv, RunInv
  <2>1. \A w \in Workers : pc'[w] \in CallLabels \cup {"user"} => running'[w] # <<>>
    BY <1>rn DEF PoolInv, RunInv
  <2>2. \A w \in Workers : \A i \in DOMAIN running'[w] :
           started'[running'[w][i]] # <<>> /\ started'[running'[w][i]][1] = w
    <3> SUFFICES ASSUME NEW w \in Workers, NEW i \in DOMAIN running'[w]
                 PROVE  started'[running'[w][i]] # <<>> /\ started'[running'[w][i]][1] = w
      OBVIOUS
    <3>1. CASE w # t
      BY <3>1, <2>0, <1>rn, <1>rj, <1>st
    <3>2. CASE w = t
      <4>1. CASE i = 1
        <5>1. running'[t][1] = j
          BY <1>rn
        <5>2. <<t>> # <<>> /\ <<t>>[1] = t
          OBVIOUS
        <5> QED
          BY <3>2, <4>1, <5>1, <5>2, <1>st
      <4>2. CASE i # 1
        <5>1. i - 1 \in DOMAIN running[t] /\ running'[t][i] = running[t][i - 1]
          BY <3>2, <4>2, <1>rn
        <5> QED
          BY <5>1, <2>0, <3>2, <1>rj, <1>st
      <4> QED
        BY <4>1, <4>2
    <3> QED
      BY <3>1, <3>2
  <2>3. \A u \in Threads : pc[u] \in CallLabels => Caller(u)' = Caller(u)
    <3>1. \A u \in Threads : pc[u] \in CallLabels => u # t
      BY <1>fr DEF CallLabels
    <3> QED
      BY <3>1, <1>rn DEF Caller
  <2>4. \A u \in Threads : \A k \in Jobs : InCall(u, k)' => InCall(u, k) /\ k # j
    BY <1>fr DEF InCall
  <2>5. CallInv'
    BY <2>3, <2>4, <1>st, <1>ar DEF PoolInv, CallInv, InCall
  <2> QED
    BY <2>1, <2>2, <2>5 DEF RunInv
<1>3. PlaceInv'
  <2>1. \A u \in Threads : \A k \in Jobs : InCall(u, k)' <=> InCall(u, k)
    BY DEF InCall
  <2>2. \A k \in Jobs : InQueue(k)' => started'[k] = <<>>
    <3>1. ~InQueue(j)
      BY <1>fr DEF Arrived
    <3> QED
      BY <3>1, <1>iq, <1>st DEF PoolInv, PlaceInv
  <2>3. \A k \in Jobs : Len(started'[k]) <= 1
    BY <1>st DEF PoolInv, PlaceInv
  <2> QED
    BY <2>1, <2>2, <2>3, <1>ar, <1>st DEF PoolInv, PlaceInv
<1>4. HomeInv'
  <2>1. RunsAtHome'
    BY <1>st DEF PoolInv, HomeInv, RunsAtHome
  <2>2. \A w \in Workers : \A i \in DOMAIN queue[w] : home'[queue[w][i].job] = home[queue[w][i].job]
    BY <1>q, <1>st DEF PoolInv, TypeOK
  <2>3. \A u \in Threads : pc[u] \in CallLabels => home'[call[u].job] = home[call[u].job]
    BY <1>cj, <1>st
  <2> QED
    BY <2>1, <2>2, <2>3 DEF PoolInv, HomeInv, CallLabels
<1>5. StopInv'
  BY StopFrame DEF PoolInv
<1> QED
  BY <1>1, <1>2, <1>3, <1>4, <1>5 DEF PoolInv

LEMMA StepCheckin ==
    ASSUME ContextContract, PoolInv, NEW t \in Threads, NEW j \in Jobs,
           NEW o \in ContextThreads, NEW prompt \in BOOLEAN, Checkin(t, j, o, prompt)
    PROVE  PoolInv'
<1>1. o \in Workers /\ ClearBit(Checkout(o)) = o /\ CurrentId(o) = o
  BY ContextId
<1>2. MayCall(t, j) /\ home' = [home EXCEPT ![j] = o] /\ UNCHANGED <<steal, pool>>
  BY <1>1 DEF Checkin
<1>3. CASE CurrentId(t) = o /\ prompt
  <2>1. t = o
    BY <1>1, <1>3, PoolFacts DEF CurrentId, AnyQueue
  <2> QED
    BY <1>1, <1>2, <1>3, <2>1, StepInPlace DEF Checkin, pool
<1>4. CASE ~(CurrentId(t) = o /\ prompt)
  BY <1>1, <1>2, <1>4, StepHandsOver DEF Checkin
<1> QED
  BY <1>3, <1>4

LEMMA HeadFacts ==
    ASSUME NEW S, NEW s \in Seq(S), s # <<>>
    PROVE  Head(s) = s[1] /\ 1 \in DOMAIN s /\ s[1] \in S
OBVIOUS

LEMMA AppendType ==
    ASSUME NEW S, NEW s \in Seq(S), NEW x \in S PROVE Append(s, x) \in Seq(S)
OBVIOUS

\* A push on queue q, by try_push or push: the caller has still to notify.
LEMMA StepPushes ==
    ASSUME PoolInv, NEW t \in Threads, pc[t] \in {"tryPush", "push"},
           NEW q \in Workers, NEW c \in BOOLEAN,
           home[call[t].job] = AnyQueue \/ (home[call[t].job] = q /\ ~c),
           queue' = [queue EXCEPT ![q] = Append(@, [job |-> call[t].job, canSteal |-> c])],
           call' = [call EXCEPT ![t].id = q], Goto(t, "notify"),
           UNCHANGED <<steal, stop, queueStop, owner, running, status, started, home>>
    PROVE  PoolInv'
<1> USE PoolFacts
<1>c. PICK j \in Jobs : j = call[t].job
  BY DEF PoolInv, CallInv, CallLabels
<1>j. /\ j \in Jobs /\ InCall(t, j) /\ ~Arrived(j) /\ started[j] = <<>> /\ status[j] = "new"
      /\ ~InQueue(j)
  BY <1>c DEF PoolInv, CallInv, InCall, CallLabels, Arrived
<1>pc. /\ pc'[t] = "notify" /\ call'[t].job = j /\ call'[t].id = q
       /\ \A u \in Threads : u # t => pc'[u] = pc[u] /\ call'[u] = call[u]
  BY <1>c DEF Goto, PoolInv, TypeOK
<1> DEFINE item == [job |-> j, canSteal |-> c]
<1>it. item \in [job : Jobs, canSteal : BOOLEAN] /\ item.job = j /\ item.canSteal = c
  BY <1>j
<1>q. /\ queue'[q] = Append(queue[q], item) /\ \A v \in Workers : v # q => queue'[v] = queue[v]
      /\ queue[q] \in Seq([job : Jobs, canSteal : BOOLEAN])
  BY <1>c DEF PoolInv, TypeOK
<1> HIDE DEF item
<1>l. PICK n \in Nat : n = Len(queue[q])
  BY <1>q
<1>d. /\ DOMAIN queue[q] = 1 .. n /\ DOMAIN queue'[q] = 1 .. n + 1
      /\ \A i \in 1 .. n : queue'[q][i] = queue[q][i]
      /\ queue'[q][n + 1] = item
  BY <1>q, <1>l, <1>it
\* the items of the queues: the old ones at their places, and the new one
<1>nq. \A v \in Workers : \A i \in DOMAIN queue'[v] :
         \/ i \in DOMAIN queue[v] /\ queue'[v][i] = queue[v][i]
         \/ v = q /\ i = n + 1 /\ queue'[v][i] = item
  BY <1>q, <1>d
<1>nj. \A v \in Workers : \A i \in DOMAIN queue[v] : queue[v][i].job # j
  BY <1>j DEF InQueue
<1>iq. \A k \in Jobs : InQueue(k)' <=> InQueue(k) \/ k = j
  <2>1. ASSUME NEW k \in Jobs, InQueue(k)' PROVE InQueue(k) \/ k = j
    BY <2>1, <1>nq, <1>it DEF InQueue
  <2>2. ASSUME NEW k \in Jobs, InQueue(k) PROVE InQueue(k)'
    <3>1. PICK v \in Workers : \E i \in DOMAIN queue[v] : queue[v][i].job = k
      BY <2>2 DEF InQueue
    <3>2. PICK i \in DOMAIN queue[v] : queue[v][i].job = k
      BY <3>1
    <3>3. i \in DOMAIN queue'[v] /\ queue'[v][i] = queue[v][i]
      BY <1>q, <1>d
    <3> QED
      BY <3>2, <3>3 DEF InQueue
  <2>3. InQueue(j)'
    <3>1. n + 1 \in DOMAIN queue'[q] /\ queue'[q][n + 1].job = j
      BY <1>d, <1>it
    <3> QED
      BY <3>1 DEF InQueue
  <2> QED
    BY <2>1, <2>2, <2>3
<1>ar. \A k \in Jobs : Arrived(k)' <=> Arrived(k) \/ k = j
  BY <1>iq DEF Arrived
<1>in. \A u \in Threads : \A k \in Jobs : InCall(u, k)' <=> InCall(u, k)
  BY <1>c, <1>pc DEF InCall, CallLabels
<1>1. TypeOK'
  <2>1. pc' \in [Threads -> {"user", "tryPush", "push", "notify", "steal", "pop",
                           "wait", "checkStop", "exit"}]
    BY DEF Goto, PoolInv, TypeOK
  <2>2. call' \in [Threads -> [job : Jobs \cup {"none"}, id : Workers \cup {AnyQueue}]]
    BY DEF PoolInv, TypeOK
  <2>3. queue'[q] \in Seq([job : Jobs, canSteal : BOOLEAN])
    <3> DEFINE S == [job : Jobs, canSteal : BOOLEAN]
    <3>1. queue[q] \in Seq(S) /\ item \in S
      BY <1>q, <1>it
    <3> HIDE DEF S
    <3>2. Append(queue[q], item) \in Seq(S)
      BY <3>1, AppendType, Zenon
    <3>3. queue'[q] \in Seq(S)
      BY <3>2, <1>q
    <3> QED
      BY <3>3 DEF S
  <2>4. queue' \in [Workers -> Seq([job : Jobs, canSteal : BOOLEAN])]
    BY <2>3, <1>q DEF PoolInv, TypeOK
  <2> QED
    BY <2>1, <2>2, <2>4 DEF PoolInv, TypeOK
<1>2. RunInv'
  BY <1>pc DEF PoolInv, RunInv, CallLabels
<1>3. CallInv'
  <2>1. \A u \in Threads : Caller(u)' = Caller(u)
    BY DEF Caller
  <2>2. \A u \in Threads, k \in Jobs : InCall(u, k) =>
           /\ Caller(u) = Parent[k] /\ status[k] = "new"
           /\ pc[u] = "notify" <=> Arrived(k)
    BY DEF PoolInv, CallInv
  <2>3. \A u \in Threads : InCall(u, j) => u = t
    BY <1>c, OneCaller DEF InCall, CallLabels
  <2>4. \A u \in Threads, k \in Jobs : InCall(u, k)' =>
           /\ Caller(u)' = Parent[k] /\ status'[k] = "new"
           /\ pc'[u] = "notify" <=> Arrived(k)'
    <3> SUFFICES ASSUME NEW u \in Threads, NEW k \in Jobs, InCall(u, k)
                 PROVE  pc'[u] = "notify" <=> Arrived(k)'
      BY <2>1, <2>2, <1>in
    <3>1. CASE u = t
      <4>1. k = j
        BY <1>c, <3>1 DEF InCall
      <4> QED
        BY <3>1, <4>1, <1>pc, <1>ar, <1>j
    <3>2. CASE u # t
      BY <3>2, <2>2, <2>3, <1>pc, <1>ar
    <3> QED
      BY <3>1, <3>2
  <2>5. \A u \in Threads : pc'[u] \in CallLabels => call'[u].job \in Jobs
    BY <1>pc, <1>j DEF PoolInv, CallInv
  <2>6. \A u \in Threads : pc'[u] = "notify" => call'[u].id \in Workers
    BY <1>pc DEF PoolInv, CallInv
  <2> QED
    BY <2>4, <2>5, <2>6 DEF CallInv
<1>4. PlaceInv'
  <2>1. \A w, v \in Workers : \A i \in DOMAIN queue'[w], k \in DOMAIN queue'[v] :
          queue'[w][i].job = queue'[v][k].job => w = v /\ i = k
    <3> SUFFICES ASSUME NEW w \in Workers, NEW v \in Workers,
                        NEW i \in DOMAIN queue'[w], NEW k \in DOMAIN queue'[v],
                        queue'[w][i].job = queue'[v][k].job
                 PROVE  w = v /\ i = k
      OBVIOUS
    <3>1. CASE i \in DOMAIN queue[w] /\ queue'[w][i] = queue[w][i]
               /\ k \in DOMAIN queue[v] /\ queue'[v][k] = queue[v][k]
      BY <3>1 DEF PoolInv, PlaceInv
    <3>2. CASE w = q /\ i = n + 1 /\ v = q /\ k = n + 1
      BY <3>2
    <3> QED
      BY <3>1, <3>2, <1>nq, <1>nj, <1>it
  <2>2. \A k \in Jobs : InQueue(k)' => started'[k] = <<>>
    BY <1>iq, <1>j DEF PoolInv, PlaceInv
  <2>3. \A k \in Jobs : status'[k] = "accepted" => Arrived(k)'
    BY <1>ar DEF PoolInv, PlaceInv
  <2>4. \A k \in Jobs : status'[k] \in {"rejected", "null"} => ~Arrived(k)'
    BY <1>ar, <1>j DEF PoolInv, PlaceInv
  <2>5. \A k \in Jobs : status'[k] = "new" /\ (Arrived(k)' \/ home'[k] # AnyQueue) =>
          \E u \in Threads : InCall(u, k)'
    <3> SUFFICES ASSUME NEW k \in Jobs, status[k] = "new", Arrived(k)' \/ home[k] # AnyQueue
                 PROVE  \E u \in Threads : InCall(u, k)'
      OBVIOUS
    <3>1. CASE k = j
      BY <3>1, <1>in, <1>j
    <3>2. CASE k # j
      <4>1. Arrived(k) \/ home[k] # AnyQueue
        BY <3>2, <1>ar
      <4>2. PICK u \in Threads : InCall(u, k)
        BY <4>1 DEF PoolInv, PlaceInv
      <4> QED
        BY <4>2, <1>in
    <3> QED
      BY <3>1, <3>2
  <2> QED
    BY <2>1, <2>2, <2>3, <2>4, <2>5 DEF PoolInv, PlaceInv
<1>5. HomeInv'
  <2>1. RunsAtHome'
    BY DEF PoolInv, HomeInv, RunsAtHome
  <2>2. \A v \in Workers : \A i \in DOMAIN queue'[v] :
          \/ home'[queue'[v][i].job] = AnyQueue
          \/ home'[queue'[v][i].job] = v /\ ~queue'[v][i].canSteal
    <3>1. home[j] = AnyQueue \/ (home[j] = q /\ ~c)
      BY <1>c
    <3>2. \A v \in Workers : \A i \in DOMAIN queue[v] :
             \/ home[queue[v][i].job] = AnyQueue
             \/ home[queue[v][i].job] = v /\ ~queue[v][i].canSteal
      BY DEF PoolInv, HomeInv
    <3> QED
      BY <1>nq, <1>it, <3>1, <3>2
  <2>3. \A u \in Threads : pc'[u] \in {"tryPush", "push"} =>
          /\ home'[call'[u].job] = call'[u].id
          /\ pc'[u] = "tryPush" => call'[u].id = AnyQueue
    BY <1>pc DEF PoolInv, HomeInv
  <2> QED
    BY <2>1, <2>2, <2>3 DEF HomeInv
<1>6. StopInv'
  <2>1. \A w \in Workers : pc'[w] = "wait" => pc[w] = "wait"
    BY <1>pc
  <2>2. \A w \in Workers : pc[w] = "wait" =>
          /\ queue[w] # <<>> => \E u \in Threads : pc[u] = "notify" /\ call[u].id = w
          /\ queueStop[w] => owner = "notifyAll" /\ \A r \in Workers : r > w => ~queueStop[r]
    BY DEF PoolInv, StopInv, NoLostWakeup
  <2>3. \A u \in Threads : pc[u] = "notify" => pc'[u] = "notify" /\ call'[u].id = call[u].id
    BY <1>pc
  <2>4. \A w \in Workers : pc'[w] = "wait" /\ queue'[w] # <<>> =>
          \E u \in Threads : pc'[u] = "notify" /\ call'[u].id = w
    BY <1>pc, <1>q, <2>1, <2>2, <2>3
  <2>5. NoLostWakeup'
    BY <2>1, <2>2, <2>4 DEF NoLostWakeup
  <2> QED
    BY <2>5 DEF PoolInv, StopInv
<1> QED
  BY <1>1, <1>2, <1>3, <1>4, <1>5, <1>6 DEF PoolInv

\* try_push on one queue, or on none.
LEMMA StepTryPush ==
    ASSUME PoolInv, NEW t \in Threads, TryPush(t)
    PROVE  PoolInv'
<1> USE PoolFacts
<1>h. home[call[t].job] = AnyQueue /\ pc[t] = "tryPush" /\ call[t].id = AnyQueue
  BY DEF TryPush, PoolInv, HomeInv
<1>un. UNCHANGED <<steal, stop, queueStop, owner, running, status, started, home>>
  BY DEF TryPush
<1>1. CASE \E q \in Workers :
            /\ queue' = [queue EXCEPT ![q] = Append(@, [job |-> call[t].job, canSteal |-> TRUE])]
            /\ call' = [call EXCEPT ![t].id = q]
            /\ Goto(t, "notify")
  BY <1>1, <1>h, <1>un, StepPushes
<1>2. CASE Goto(t, "push") /\ UNCHANGED <<queue, call>>
  <2>0. pc'[t] = "push" /\ \A u \in Threads : u # t => pc'[u] = pc[u]
    BY <1>2 DEF Goto, PoolInv, TypeOK
  <2>1. TypeOK'
    BY <1>un, <1>2 DEF Goto, PoolInv, TypeOK
  <2>2. RunInv'
    BY <1>un, <1>h, <2>0 DEF PoolInv, RunInv, CallLabels
  <2>i. \A u \in Threads : \A k \in Jobs : InCall(u, k)' <=> InCall(u, k)
    BY <2>0, <1>h, <1>2 DEF InCall, CallLabels
  <2>a. \A k \in Jobs : (Arrived(k)' <=> Arrived(k)) /\ (InQueue(k)' <=> InQueue(k))
    BY <1>un, <1>2, ArrivedFrame
  <2>3. CallInv'
    <3>1. \A u \in Threads : Caller(u)' = Caller(u)
      BY <1>un DEF Caller
    <3>2. \A u \in Threads : (pc'[u] = "notify" <=> pc[u] = "notify")
                             /\ (pc'[u] \in CallLabels <=> pc[u] \in CallLabels)
      BY <2>0, <1>h DEF CallLabels
    <3> QED
      BY <3>1, <3>2, <2>i, <2>a, <1>un, <1>2 DEF PoolInv, CallInv
  <2>4. PlaceInv'
    BY <2>i, <2>a, <1>un, <1>2 DEF PoolInv, PlaceInv
  <2>5. HomeInv'
    <3>1. RunsAtHome'
      BY <1>un DEF PoolInv, HomeInv, RunsAtHome
    <3> QED
      BY <3>1, <2>0, <1>h, <1>un, <1>2 DEF PoolInv, HomeInv
  <2>6. StopInv'
    BY <1>un, <1>2, <1>h, <2>0, StopFrame DEF PoolInv
  <2> QED
    BY <2>1, <2>2, <2>3, <2>4, <2>5, <2>6 DEF PoolInv
<1> QED
  BY <1>1, <1>2 DEF TryPush

LEMMA StepPush ==
    ASSUME PoolInv, NEW t \in Threads, Push(t)
    PROVE  PoolInv'
<1>1. pc[t] = "push" /\ home[call[t].job] = call[t].id
  BY DEF Push, PoolInv, HomeInv
<1>2. PICK q \in IF call[t].id = AnyQueue THEN Workers ELSE {call[t].id} :
         /\ queue' = [queue EXCEPT ![q] =
                 Append(@, [job |-> call[t].job, canSteal |-> steal /\ call[t].id = AnyQueue])]
         /\ call' = [call EXCEPT ![t].id = q]
  BY DEF Push
<1>3. q \in Workers /\ (call[t].id = AnyQueue \/ call[t].id = q)
  BY <1>2 DEF Push
<1> DEFINE c == steal /\ call[t].id = AnyQueue
<1>4. c \in BOOLEAN /\ (home[call[t].job] = AnyQueue \/ (home[call[t].job] = q /\ ~c))
  BY <1>1, <1>3
<1>5. queue' = [queue EXCEPT ![q] = Append(@, [job |-> call[t].job, canSteal |-> c])]
  BY <1>2
<1> HIDE DEF c
<1> QED
  BY <1>1, <1>2, <1>3, <1>4, <1>5, StepPushes DEF Push

\* A step that leaves the calls and the stacks alone.
LEMMA CallFrame ==
    ASSUME TypeOK, RunInv, CallInv, UNCHANGED <<queue, started, status, running, call>>,
           \A t \in Threads : /\ pc[t] \in CallLabels => pc'[t] = pc[t]
                              /\ pc'[t] \in CallLabels \cup {"user"} => pc[t] = pc'[t]
    PROVE  RunInv' /\ CallInv'
<1> USE PoolFacts
<1>1. RunInv'
  BY DEF RunInv
<1>2. \A u \in Threads : \A k \in Jobs : InCall(u, k)' <=> InCall(u, k)
  BY DEF InCall
<1>3. \A u \in Threads : Caller(u)' = Caller(u)
  BY DEF Caller
<1>4. \A k \in Jobs : Arrived(k)' <=> Arrived(k)
  BY ArrivedFrame
<1>5. \A u \in Threads : InCall(u, call[u].job) <=> pc[u] \in CallLabels
  BY DEF InCall
<1>6. \A u \in Threads, k \in Jobs : InCall(u, k) => pc'[u] = pc[u]
  BY DEF InCall
<1>7. \A u \in Threads : pc'[u] \in CallLabels => call'[u].job \in Jobs
  BY DEF CallInv
<1>8. \A u \in Threads : pc'[u] = "notify" => call'[u].id \in Workers
  BY DEF CallInv, CallLabels
<1>9. CallInv'
  BY <1>2, <1>3, <1>4, <1>6, <1>7, <1>8 DEF CallInv
<1> QED
  BY <1>1, <1>9

\* The worker's turns that take no job.
LEMMA StepLoops ==
    ASSUME PoolInv, NEW w \in Workers, pc[w] \in {"steal", "pop", "checkStop"},
           NEW l \in {"steal", "pop", "wait", "checkStop", "exit"}, Goto(w, l),
           l = "wait" => queue[w] = <<>> /\ ~queueStop[w],
           UNCHANGED <<steal, stop, queue, queueStop, owner, call, running, status, started, home>>
    PROVE  PoolInv'
<1> USE PoolFacts
<1>0. pc'[w] = l /\ \A u \in Threads : u # w => pc'[u] = pc[u]
  BY DEF Goto, PoolInv, TypeOK
<1>1. TypeOK'
  BY DEF Goto, PoolInv, TypeOK
<1>2. RunInv' /\ CallInv'
  BY <1>0, CallFrame DEF PoolInv, CallLabels
<1>3. PlaceInv' /\ HomeInv'
  BY <1>0, PlaceFrame DEF PoolInv, CallLabels
<1>4. StopInv'
  <2>1. \A v \in Workers : pc[v] = "wait" =>
          /\ queue[v] # <<>> => \E t \in Threads : pc[t] = "notify" /\ call[t].id = v
          /\ queueStop[v] => owner = "notifyAll" /\ \A r \in Workers : r > v => ~queueStop[r]
    BY DEF PoolInv, StopInv, NoLostWakeup
  <2>2. \A v \in Workers : pc'[v] = "wait" => pc[v] = "wait" \/ (v = w /\ queue[v] = <<>> /\ ~queueStop[v])
    BY <1>0
  <2>3. \A t \in Threads : pc[t] = "notify" => pc'[t] = "notify"
    BY <1>0
  <2>4. NoLostWakeup'
    BY <2>1, <2>2, <2>3 DEF NoLostWakeup
  <2> QED
    BY <2>4 DEF PoolInv, StopInv
<1> QED
  BY <1>1, <1>2, <1>3, <1>4 DEF PoolInv

\* A worker takes the first job of queue q, its own or, if it may be stolen, another's.
LEMMA StepRun ==
    ASSUME PoolInv, NEW w \in Workers, NEW q \in Workers, pc[w] \in {"steal", "pop"},
           queue[q] # <<>>, q = w \/ Head(queue[q]).canSteal, Run(w, q),
           UNCHANGED <<steal, stop, queueStop, owner, call, status, home>>
    PROVE  PoolInv'
<1> USE PoolFacts
<1> DEFINE S == [job : Jobs, canSteal : BOOLEAN]
<1>q. queue[q] \in Seq(S) /\ queue'[q] = Tail(queue[q]) /\ \A v \in Workers : v # q => queue'[v] = queue[v]
  BY DEF Run, PoolInv, TypeOK
<1>h. Head(queue[q]) = queue[q][1] /\ 1 \in DOMAIN queue[q] /\ queue[q][1] \in S
  <2> HIDE DEF S
  <2> QED
    BY <1>q, HeadFacts, Zenon
<1>c. PICK j \in Jobs : j = queue[q][1].job
  BY <1>h
<1>t. queue'[q] \in Seq(S)
  <2> HIDE DEF S
  <2> QED
    BY <1>q
<1> HIDE DEF S
<1>l. PICK n \in Nat : n = Len(queue[q])
  BY <1>q
<1>d. /\ DOMAIN queue[q] = 1 .. n /\ n # 0 /\ DOMAIN queue'[q] = 1 .. n - 1
      /\ \A i \in 1 .. n - 1 : queue'[q][i] = queue[q][i + 1]
  BY <1>q, <1>l
<1>u. \A u, v \in Workers : \A i \in DOMAIN queue[u], k \in DOMAIN queue[v] :
          queue[u][i].job = queue[v][k].job => u = v /\ i = k
  BY DEF PoolInv, PlaceInv
<1>j. InQueue(j) /\ started[j] = <<>>
  BY <1>c, <1>h DEF InQueue, PoolInv, PlaceInv
\* where the items of the new queues were
<1>nq. \A v \in Workers : \A i \in DOMAIN queue'[v] :
         \/ v # q /\ i \in DOMAIN queue[v] /\ queue'[v][i] = queue[v][i]
         \/ v = q /\ i + 1 \in DOMAIN queue[q] /\ i # 0 /\ i \in Int /\ queue'[v][i] = queue[q][i + 1]
  <2>1. \A i \in 1 .. n - 1 : i + 1 \in 1 .. n /\ i # 0 /\ i \in Int
    OBVIOUS
  <2>2. \A i \in DOMAIN queue'[q] : i + 1 \in DOMAIN queue[q] /\ i # 0 /\ i \in Int
                                    /\ queue'[q][i] = queue[q][i + 1]
    BY <2>1, <1>d
  <2> QED
    BY <2>2, <1>q
<1>nj. \A v \in Workers : \A i \in DOMAIN queue'[v] : queue'[v][i].job # j
  <2> SUFFICES ASSUME NEW v \in Workers, NEW i \in DOMAIN queue'[v], queue'[v][i].job = j
               PROVE  FALSE
    OBVIOUS
  <2>1. CASE v # q
    BY <2>1, <1>nq, <1>u, <1>c, <1>h
  <2>2. CASE v = q
    <3>1. i + 1 \in DOMAIN queue[q] /\ i # 0 /\ i \in Int /\ queue[q][i + 1].job = queue[q][1].job
      BY <2>2, <1>nq, <1>c
    <3>2. i + 1 = 1
      BY <3>1, <1>u, <1>h
    <3> QED
      BY <3>1, <3>2
  <2> QED
    BY <2>1, <2>2
<1>iq. \A k \in Jobs : InQueue(k)' <=> InQueue(k) /\ k # j
  <2>1. ASSUME NEW k \in Jobs, InQueue(k)' PROVE InQueue(k) /\ k # j
    BY <2>1, <1>nq, <1>nj DEF InQueue
  <2>2. ASSUME NEW k \in Jobs, InQueue(k), k # j PROVE InQueue(k)'
    <3>1. PICK v \in Workers : \E i \in DOMAIN queue[v] : queue[v][i].job = k
      BY <2>2 DEF InQueue
    <3>2. PICK i \in DOMAIN queue[v] : queue[v][i].job = k
      BY <3>1
    <3>3. CASE v # q
      BY <3>2, <3>3, <1>q DEF InQueue
    <3>4. CASE v = q
      <4>1. i # 1
        BY <3>2, <3>4, <2>2, <1>c
      <4>2. i - 1 \in DOMAIN queue'[q] /\ queue'[q][i - 1] = queue[q][i]
        BY <4>1, <3>4, <1>d
      <4> QED
        BY <3>2, <3>4, <4>2 DEF InQueue
    <3> QED
      BY <3>3, <3>4
  <2> QED
    BY <2>1, <2>2
<1>s. started'[j] = <<w>> /\ \A k \in Jobs : k # j => started'[k] = started[k]
  <2>1. started' = [started EXCEPT ![j] = Append(@, w)]
    BY <1>c, <1>h DEF Run
  <2>2. Append(<<>>, w) = <<w>>
    OBVIOUS
  <2> QED
    BY <2>1, <2>2, <1>j DEF PoolInv, TypeOK
<1>w. <<w>> # <<>> /\ <<w>>[1] = w /\ Len(<<w>>) = 1 /\ DOMAIN <<w>> = {1}
  OBVIOUS
<1>ar. \A k \in Jobs : Arrived(k)' <=> Arrived(k)
  BY <1>iq, <1>s, <1>w, <1>j DEF Arrived
<1>r. running'[w] = <<j>> /\ \A v \in Workers : v # w => running'[v] = running[v]
  BY <1>c, <1>h DEF Run, PoolInv, TypeOK
<1>pc. pc'[w] = "user" /\ \A u \in Threads : u # w => pc'[u] = pc[u]
  BY DEF Run, Goto, PoolInv, TypeOK
<1>in. \A u \in Threads : \A k \in Jobs : InCall(u, k)' <=> InCall(u, k)
  BY <1>pc DEF InCall, CallLabels
<1>1. TypeOK'
  <2>1. pc' \in [Threads -> {"user", "tryPush", "push", "notify", "steal", "pop",
                           "wait", "checkStop", "exit"}]
    BY DEF Run, Goto, PoolInv, TypeOK
  <2>2. queue' \in [Workers -> Seq(S)]
    BY <1>t, <1>q DEF Run, PoolInv, TypeOK, S
  <2>3. running' \in [Workers -> Seq(Jobs)]
    <3>1. <<j>> \in Seq(Jobs)
      OBVIOUS
    <3> QED
      BY <3>1, <1>c, <1>h DEF Run, PoolInv, TypeOK
  <2>4. started' \in [Jobs -> Seq(Workers)]
    BY <1>c, <1>h DEF Run, PoolInv, TypeOK
  <2> QED
    BY <2>1, <2>2, <2>3, <2>4 DEF PoolInv, TypeOK, S
<1>2. RunInv'
  <2>1. \A v \in Workers : \A i \in DOMAIN running[v] :
           started[running[v][i]] # <<>> /\ started[running[v][i]][1] = v
    BY DEF PoolInv, RunInv
  <2>2. \A v \in Workers : \A i \in DOMAIN running[v] : running[v][i] \in Jobs
    BY DEF PoolInv, TypeOK
  <2>3. \A v \in Workers : \A i \in DOMAIN running'[v] :
           started'[running'[v][i]] # <<>> /\ started'[running'[v][i]][1] = v
    <3> SUFFICES ASSUME NEW v \in Workers, NEW i \in DOMAIN running'[v]
                 PROVE  started'[running'[v][i]] # <<>> /\ started'[running'[v][i]][1] = v
      OBVIOUS
    <3>1. CASE v = w
      <4>1. running'[v][i] = j
        BY <3>1, <1>r
      <4> QED
        BY <3>1, <4>1, <1>s, <1>w
    <3>2. CASE v # w
      BY <3>2, <2>1, <2>2, <1>r, <1>s, <1>j
    <3> QED
      BY <3>1, <3>2
  <2>4. \A v \in Workers : pc'[v] \in CallLabels \cup {"user"} => running'[v] # <<>>
    <3>1. <<j>> # <<>>
      OBVIOUS
    <3> QED
      BY <3>1, <1>r, <1>pc DEF PoolInv, RunInv
  <2> QED
    BY <2>3, <2>4 DEF RunInv
<1>3. CallInv'
  <2>1. \A u \in Threads : u # w => Caller(u)' = Caller(u)
    BY <1>r DEF Caller
  <2>2. \A u \in Threads, k \in Jobs : InCall(u, k) => u # w /\ pc'[u] = pc[u]
    BY <1>pc DEF InCall, CallLabels
  <2>3. \A u \in Threads : pc'[u] \in CallLabels => call'[u].job \in Jobs
    BY <1>pc DEF PoolInv, CallInv, CallLabels
  <2>4. \A u \in Threads : pc'[u] = "notify" => call'[u].id \in Workers
    BY <1>pc DEF PoolInv, CallInv
  <2> QED
    BY <2>1, <2>2, <2>3, <2>4, <1>in, <1>ar DEF PoolInv, CallInv
<1>4. PlaceInv'
  <2>1. \A u, v \in Workers : \A i \in DOMAIN queue'[u], k \in DOMAIN queue'[v] :
          queue'[u][i].job = queue'[v][k].job => u = v /\ i = k
    <3> SUFFICES ASSUME NEW u \in Workers, NEW v \in Workers,
                        NEW i \in DOMAIN queue'[u], NEW k \in DOMAIN queue'[v],
                        queue'[u][i].job = queue'[v][k].job
                 PROVE  u = v /\ i = k
      OBVIOUS
    <3>1. CASE u # q /\ v # q
      BY <3>1, <1>nq, <1>u
    <3>2. CASE u = q /\ v # q
      BY <3>2, <1>nq, <1>u
    <3>3. CASE u # q /\ v = q
      BY <3>3, <1>nq, <1>u
    <3>4. CASE u = q /\ v = q
      <4>1. i + 1 = k + 1 /\ i \in Int /\ k \in Int
        BY <3>4, <1>nq, <1>u
      <4> QED
        BY <3>4, <4>1
    <3> QED
      BY <3>1, <3>2, <3>3, <3>4
  <2>2. \A k \in Jobs : InQueue(k)' => started'[k] = <<>>
    BY <1>iq, <1>s DEF PoolInv, PlaceInv
  <2>3. \A k \in Jobs : Len(started'[k]) <= 1
    <3>1. \A k \in Jobs : Len(started[k]) <= 1
      BY DEF PoolInv, PlaceInv
    <3>2. Len(started'[j]) <= 1
      BY <1>s, <1>w
    <3> QED
      BY <3>1, <3>2, <1>s
  <2> QED
    BY <2>1, <2>2, <2>3, <1>in, <1>ar DEF PoolInv, PlaceInv
<1>5. HomeInv'
  <2>1. \A v \in Workers : \A i \in DOMAIN queue[v] :
             \/ home[queue[v][i].job] = AnyQueue
             \/ home[queue[v][i].job] = v /\ ~queue[v][i].canSteal
    BY DEF PoolInv, HomeInv
  <2>2. home[j] \in {AnyQueue, w}
    BY <2>1, <1>h, <1>c
  <2>3. RunsAtHome'
    BY <2>2, <1>s, <1>w DEF PoolInv, HomeInv, RunsAtHome
  <2>4. \A v \in Workers : \A i \in DOMAIN queue'[v] :
             \/ home'[queue'[v][i].job] = AnyQueue
             \/ home'[queue'[v][i].job] = v /\ ~queue'[v][i].canSteal
    BY <1>nq, <2>1
  <2>5. \A u \in Threads : pc'[u] \in {"tryPush", "push"} =>
          /\ home'[call'[u].job] = call'[u].id
          /\ pc'[u] = "tryPush" => call'[u].id = AnyQueue
    BY <1>pc DEF PoolInv, HomeInv
  <2> QED
    BY <2>3, <2>4, <2>5 DEF HomeInv
<1>6. StopInv'
  <2>1. \A v \in Workers : pc'[v] = "wait" => pc[v] = "wait" /\ (queue'[v] # <<>> => queue[v] # <<>>)
    BY <1>pc, <1>q
  <2>2. \A t \in Threads : pc[t] = "notify" => pc'[t] = "notify" /\ call'[t].id = call[t].id
    BY <1>pc
  <2> QED
    BY <2>1, <2>2, StopFrame DEF PoolInv
<1> QED
  BY <1>1, <1>2, <1>3, <1>4, <1>5, <1>6 DEF PoolInv

\* notify_one after the push; scheduleById returns and the job counts as accepted.
LEMMA StepNotify ==
    ASSUME PoolInv, NEW t \in Threads, Notify(t)
    PROVE  PoolInv'
<1> USE PoolFacts
<1>un. UNCHANGED <<steal, stop, queue, queueStop, owner, running, started, home>>
  BY DEF Notify, pool
<1>c. PICK j \in Jobs : j = call[t].job
  BY DEF Notify, PoolInv, CallInv, CallLabels
<1>g. pc[t] = "notify" /\ call[t].id \in Workers /\ InCall(t, j) /\ Arrived(j) /\ status[j] = "new"
  BY <1>c DEF Notify, PoolInv, CallInv, CallLabels, InCall
<1>pc. /\ pc'[t] = "user"
       /\ \A u \in Threads : u # t => pc'[u] = IF u = call[t].id /\ pc[u] = "wait" THEN "pop" ELSE pc[u]
  BY <1>g DEF Notify, Woken, PoolInv, TypeOK
<1>ca. call'[t] = NoCall /\ \A u \in Threads : u # t => call'[u] = call[u]
  BY DEF Notify, PoolInv, TypeOK
<1>st. status' = [status EXCEPT ![j] = "accepted"]
  BY <1>c DEF Notify
<1>sk. status'[j] = "accepted" /\ \A k \in Jobs : k # j => status'[k] = status[k]
  BY <1>st DEF PoolInv, TypeOK
<1>ar. \A k \in Jobs : (Arrived(k)' <=> Arrived(k)) /\ (InQueue(k)' <=> InQueue(k))
  BY <1>un, ArrivedFrame
<1>in. \A u \in Threads : \A k \in Jobs : InCall(u, k)' <=> InCall(u, k) /\ u # t
  BY <1>pc, <1>ca DEF InCall, CallLabels
<1>one. \A u \in Threads : \A k \in Jobs : InCall(u, k) => (k = j <=> u = t)
  <2>1. \A u \in Threads : InCall(u, j) => u = t
    BY <1>c, <1>g, OneCaller DEF InCall, CallLabels
  <2> QED
    BY <2>1, <1>c DEF InCall
<1>1. TypeOK'
  <2>1. pc' \in [Threads -> {"user", "tryPush", "push", "notify", "steal", "pop",
                           "wait", "checkStop", "exit"}]
    BY DEF Notify, Woken, PoolInv, TypeOK
  <2>2. NoCall \in [job : Jobs \cup {"none"}, id : Workers \cup {AnyQueue}]
    BY DEF NoCall
  <2>3. call' \in [Threads -> [job : Jobs \cup {"none"}, id : Workers \cup {AnyQueue}]]
    BY <2>2 DEF Notify, PoolInv, TypeOK
  <2>4. status' \in [Jobs -> {"new", "accepted", "rejected", "null"}]
    BY <1>st DEF PoolInv, TypeOK
  <2> QED
    BY <1>un, <2>1, <2>3, <2>4 DEF PoolInv, TypeOK
<1>2. RunInv'
  BY <1>un, <1>g, <1>pc DEF PoolInv, RunInv, CallLabels
<1>3. CallInv'
  <2>1. \A u \in Threads : Caller(u)' = Caller(u)
    BY <1>un DEF Caller
  <2>2. \A u \in Threads : u # t => (pc'[u] \in CallLabels <=> pc[u] \in CallLabels)
                                    /\ (pc'[u] = "notify" <=> pc[u] = "notify")
    BY <1>pc DEF CallLabels
  <2>3. \A u \in Threads : pc'[u] \in CallLabels => u # t
    BY <1>pc DEF CallLabels
  <2>4. \A u \in Threads : pc'[u] \in CallLabels => call'[u].job \in Jobs
    BY <2>2, <2>3, <1>ca DEF PoolInv, CallInv
  <2>5. \A u \in Threads : pc'[u] = "notify" => call'[u].id \in Workers
    BY <2>2, <2>3, <1>ca DEF PoolInv, CallInv, CallLabels
  <2>6. \A u \in Threads, k \in Jobs : InCall(u, k)' =>
           /\ Caller(u)' = Parent[k] /\ status'[k] = "new"
           /\ pc'[u] = "notify" <=> Arrived(k)'
    <3> SUFFICES ASSUME NEW u \in Threads, NEW k \in Jobs, InCall(u, k), u # t
                 PROVE  /\ Caller(u)' = Parent[k] /\ status'[k] = "new"
                        /\ pc'[u] = "notify" <=> Arrived(k)'
      BY <1>in
    <3>1. Caller(u) = Parent[k] /\ status[k] = "new" /\ (pc[u] = "notify" <=> Arrived(k))
      BY DEF PoolInv, CallInv
    <3> QED
      BY <3>1, <2>1, <2>2, <1>one, <1>sk, <1>ar
  <2> QED
    BY <2>4, <2>5, <2>6 DEF CallInv
<1>4. PlaceInv'
  <2>1. \A k \in Jobs : status'[k] = "new" /\ (Arrived(k)' \/ home'[k] # AnyQueue) =>
          \E u \in Threads : InCall(u, k)'
    <3> SUFFICES ASSUME NEW k \in Jobs, status'[k] = "new", Arrived(k) \/ home[k] # AnyQueue
                 PROVE  \E u \in Threads : InCall(u, k)'
      BY <1>un, <1>ar
    <3>1. k # j /\ status[k] = "new"
      BY <1>sk
    <3>2. PICK u \in Threads : InCall(u, k)
      BY <3>1 DEF PoolInv, PlaceInv
    <3> QED
      BY <3>1, <3>2, <1>one, <1>in
  <2>2. \A k \in Jobs : status'[k] = "accepted" => Arrived(k)'
    BY <1>sk, <1>ar, <1>g DEF PoolInv, PlaceInv
  <2>3. \A k \in Jobs : status'[k] \in {"rejected", "null"} => ~Arrived(k)'
    BY <1>sk, <1>ar DEF PoolInv, PlaceInv
  <2>4. \A k \in Jobs : InQueue(k)' => started'[k] = <<>>
    BY <1>un, <1>ar DEF PoolInv, PlaceInv
  <2> QED
    BY <1>un, <2>1, <2>2, <2>3, <2>4 DEF PoolInv, PlaceInv
<1>5. HomeInv'
  <2>1. RunsAtHome'
    BY <1>un DEF PoolInv, HomeInv, RunsAtHome
  <2>2. \A u \in Threads : pc'[u] \in {"tryPush", "push"} => u # t /\ pc[u] = pc'[u] /\ call'[u] = call[u]
    BY <1>pc, <1>ca
  <2> QED
    BY <1>un, <2>1, <2>2 DEF PoolInv, HomeInv
<1>6. StopInv'
  <2>1. \A v \in Workers : pc[v] = "wait" =>
          /\ queue[v] # <<>> => \E u \in Threads : pc[u] = "notify" /\ call[u].id = v
          /\ queueStop[v] => owner = "notifyAll" /\ \A r \in Workers : r > v => ~queueStop[r]
    BY DEF PoolInv, StopInv, NoLostWakeup
  <2>2. \A v \in Workers : pc'[v] = "wait" => pc[v] = "wait" /\ v # call[t].id
    BY <1>pc
  <2>3. \A u \in Threads : u # t /\ pc[u] = "notify" => pc'[u] = "notify" /\ call'[u].id = call[u].id
    BY <1>pc, <1>ca
  <2>4. \A v \in Workers : pc'[v] = "wait" /\ queue'[v] # <<>> =>
          \E u \in Threads : pc'[u] = "notify" /\ call'[u].id = v
    <3> SUFFICES ASSUME NEW v \in Workers, pc'[v] = "wait", queue[v] # <<>>
                 PROVE  \E u \in Threads : pc'[u] = "notify" /\ call'[u].id = v
      BY <1>un
    <3>1. PICK u \in Threads : pc[u] = "notify" /\ call[u].id = v
      BY <2>1, <2>2
    <3> QED
      BY <3>1, <2>2, <2>3
  <2>5. NoLostWakeup'
    BY <1>un, <2>1, <2>2, <2>4 DEF NoLostWakeup
  <2> QED
    BY <1>un, <2>5 DEF PoolInv, StopInv
<1> QED
  BY <1>1, <1>2, <1>3, <1>4, <1>5, <1>6 DEF PoolInv

LEMMA TailFacts ==
    ASSUME NEW S, NEW s \in Seq(S), s # <<>>
    PROVE  /\ Tail(s) \in Seq(S)
           /\ \A i \in DOMAIN Tail(s) : i + 1 \in DOMAIN s /\ Tail(s)[i] = s[i + 1]
           /\ Len(s) # 1 => Tail(s) # <<>>
<1>1. Len(s) \in Nat /\ Len(s) # 0
  OBVIOUS
<1>2. Tail(s) \in Seq(S) /\ Len(Tail(s)) = Len(s) - 1
  OBVIOUS
<1>3. DOMAIN s = 1 .. Len(s) /\ DOMAIN Tail(s) = 1 .. Len(s) - 1
  BY <1>2
<1>4. ASSUME NEW i \in DOMAIN Tail(s)
      PROVE  i + 1 \in DOMAIN s /\ Tail(s)[i] = s[i + 1]
  BY <1>1, <1>3, <1>4
<1>5. Len(s) # 1 => Tail(s) # <<>>
  <2>1. Len(s) # 1 => Len(Tail(s)) # 0
    BY <1>1, <1>2
  <2>2. \A x : x = <<>> => Len(x) = 0
    OBVIOUS
  <2> QED
    BY <2>1, <2>2, Zenon
<1> QED
  BY <1>2, <1>4, <1>5

\* The innermost job returns.
LEMMA StepReturn ==
    ASSUME PoolInv, NEW w \in Workers, Return(w)
    PROVE  PoolInv'
<1> USE PoolFacts
<1>un. UNCHANGED <<steal, stop, queue, queueStop, owner, call, status, started, home>>
  BY DEF Return, pool
<1>pc. /\ pc[w] = "user" /\ \A u \in Threads : u # w => pc'[u] = pc[u]
       /\ pc'[w] \in {"steal", "pop", "user"} /\ (pc'[w] = "user" => Len(running[w]) # 1)
  <2>1. LoopTop \in {"steal", "pop"}
    BY DEF LoopTop
  <2> QED
    BY <2>1 DEF Return, Goto, PoolInv, TypeOK
<1>r. /\ running[w] \in Seq(Jobs) /\ running[w] # <<>> /\ running'[w] = Tail(running[w])
      /\ \A v \in Workers : v # w => running'[v] = running[v]
  BY <1>pc DEF Return, PoolInv, TypeOK, RunInv
<1>t. /\ running'[w] \in Seq(Jobs)
      /\ \A i \in DOMAIN running'[w] : i + 1 \in DOMAIN running[w] /\ running'[w][i] = running[w][i + 1]
      /\ Len(running[w]) # 1 => running'[w] # <<>>
  BY <1>r, TailFacts
<1>1. TypeOK'
  <2>1. pc' \in [Threads -> {"user", "tryPush", "push", "notify", "steal", "pop",
                           "wait", "checkStop", "exit"}]
    BY DEF Return, Goto, LoopTop, PoolInv, TypeOK
  <2>2. running' \in [Workers -> Seq(Jobs)]
    BY <1>r, <1>t DEF Return, PoolInv, TypeOK
  <2> QED
    BY <1>un, <2>1, <2>2 DEF PoolInv, TypeOK
<1>2. RunInv'
  <2>1. \A v \in Workers : pc'[v] \in CallLabels \cup {"user"} => running'[v] # <<>>
    BY <1>pc, <1>r, <1>t DEF PoolInv, RunInv, CallLabels
  <2>2. \A v \in Workers : \A i \in DOMAIN running[v] :
           started[running[v][i]] # <<>> /\ started[running[v][i]][1] = v
    BY DEF PoolInv, RunInv
  <2>3. \A v \in Workers : \A i \in DOMAIN running'[v] :
           started'[running'[v][i]] # <<>> /\ started'[running'[v][i]][1] = v
    <3> SUFFICES ASSUME NEW v \in Workers, NEW i \in DOMAIN running'[v]
                 PROVE  started[running'[v][i]] # <<>> /\ started[running'[v][i]][1] = v
      BY <1>un
    <3>1. CASE v = w
      <4>1. PICK k \in DOMAIN running[w] : k = i + 1
        BY <1>t, <3>1
      <4>2. running'[v][i] = running[w][k]
        BY <1>t, <3>1, <4>1
      <4> QED
        BY <2>2, <3>1, <4>1, <4>2
    <3>2. CASE v # w
      BY <2>2, <1>r, <3>2
    <3> QED
      BY <3>1, <3>2
  <2> QED
    BY <2>1, <2>3 DEF RunInv
<1>3. CallInv'
  <2>1. \A u \in Threads : u # w => Caller(u)' = Caller(u)
    BY <1>r DEF Caller
  <2>2. \A u \in Threads : pc'[u] \in CallLabels => u # w
    BY <1>pc DEF CallLabels
  <2>3. \A u \in Threads : \A k \in Jobs : InCall(u, k)' <=> InCall(u, k) /\ u # w
    BY <1>un, <1>pc, <2>2 DEF InCall, CallLabels
  <2>4. \A k \in Jobs : Arrived(k)' <=> Arrived(k)
    BY <1>un, ArrivedFrame
  <2>5. \A u \in Threads : pc'[u] \in CallLabels => call'[u].job \in Jobs
    BY <1>un, <1>pc, <2>2 DEF PoolInv, CallInv
  <2>6. \A u \in Threads : pc'[u] = "notify" => call'[u].id \in Workers
    BY <1>un, <1>pc DEF PoolInv, CallInv
  <2> QED
    BY <1>un, <1>pc, <2>1, <2>3, <2>4, <2>5, <2>6 DEF PoolInv, CallInv
<1>4. PlaceInv' /\ HomeInv'
  BY <1>un, <1>pc, PlaceFrame DEF PoolInv, CallLabels
<1>5. StopInv'
  BY <1>un, <1>pc, StopFrame DEF PoolInv
<1> QED
  BY <1>1, <1>2, <1>3, <1>4, <1>5 DEF PoolInv

\* The turns of the worker's loop.
LEMMA StepWorker ==
    ASSUME PoolInv, NEW w \in Workers, WorkerStep(w)
    PROVE  PoolInv'
<1>1. CASE Steal(w)
  <2>1. CASE \E q \in Workers : queue[q] # <<>> /\ Head(queue[q]).canSteal /\ Run(w, q)
    BY <1>1, <2>1, StepRun DEF Steal
  <2>2. CASE Goto(w, "pop") /\ UNCHANGED <<queue, running, started>>
    BY <1>1, <2>2, StepLoops DEF Steal
  <2> QED
    BY <1>1, <2>1, <2>2 DEF Steal
<1>2. CASE Pop(w)
  <2>1. CASE queue[w] # <<>> /\ Run(w, w)
    BY <1>2, <2>1, StepRun DEF Pop
  <2>2. CASE /\ queue[w] = <<>>
             /\ Goto(w, IF queueStop[w] THEN "checkStop" ELSE "wait")
             /\ UNCHANGED <<queue, running, started>>
    <3> DEFINE l == IF queueStop[w] THEN "checkStop" ELSE "wait"
    <3>1. l \in {"steal", "pop", "wait", "checkStop", "exit"} /\ (l = "wait" => ~queueStop[w])
      OBVIOUS
    <3>2. Goto(w, l)
      BY <2>2
    <3> HIDE DEF l
    <3> QED
      BY <1>2, <2>2, <3>1, <3>2, StepLoops DEF Pop
  <2> QED
    BY <1>2, <2>1, <2>2 DEF Pop
<1>3. CASE CheckStop(w)
  <2> DEFINE l == IF stop THEN "exit" ELSE LoopTop
  <2>1. l \in {"steal", "pop", "wait", "checkStop", "exit"} /\ l # "wait"
    BY DEF LoopTop
  <2>2. Goto(w, l)
    BY <1>3 DEF CheckStop
  <2> HIDE DEF l
  <2> QED
    BY <1>3, <2>1, <2>2, StepLoops DEF CheckStop, pool
<1> QED
  BY <1>1, <1>2, <1>3, StepReturn DEF WorkerStep

\* ~ThreadPool.
LEMMA StepOwner ==
    ASSUME PoolInv, OwnerStep
    PROVE  PoolInv'
<1> USE PoolFacts
<1>un. UNCHANGED <<steal, queue, call, running, status, started, home>>
  BY DEF OwnerStep, DestroyPool, Join, StopQueue, NotifyAll
<1>pc. \A u \in Threads : pc'[u] = pc[u] \/ (pc[u] = "wait" /\ pc'[u] = "pop")
  BY DEF OwnerStep, DestroyPool, Join, StopQueue, NotifyAll, Woken, PoolInv, TypeOK
<1>1. TypeOK'
  <2>1. pc' \in [Threads -> {"user", "tryPush", "push", "notify", "steal", "pop",
                           "wait", "checkStop", "exit"}]
    <3>1. CASE UNCHANGED pc
      BY <3>1 DEF PoolInv, TypeOK
    <3>2. ASSUME NEW q \in Workers, NotifyAll(q) PROVE pc' = pc \/ pc' = [pc EXCEPT ![q] = "pop"]
      BY <3>2 DEF NotifyAll, Woken
    <3>3. ASSUME NEW q \in Workers, pc' = [pc EXCEPT ![q] = "pop"]
          PROVE  pc' \in [Threads -> {"user", "tryPush", "push", "notify", "steal", "pop",
                           "wait", "checkStop", "exit"}]
      BY <3>3 DEF PoolInv, TypeOK
    <3>4. UNCHANGED pc \/ \E q \in Workers : NotifyAll(q)
      BY DEF OwnerStep, DestroyPool, Join, StopQueue
    <3> QED
      BY <3>1, <3>2, <3>3, <3>4
  <2>2. queueStop' \in [Workers -> BOOLEAN] /\ stop' \in BOOLEAN
    BY DEF OwnerStep, DestroyPool, Join, StopQueue, NotifyAll, PoolInv, TypeOK
  <2>3. owner' \in {"alive", "stopQueue", "notifyAll", "join", "destroyed"}
    BY DEF OwnerStep, DestroyPool, Join, StopQueue, NotifyAll, PoolInv, TypeOK
  <2> QED
    BY <1>un, <2>1, <2>2, <2>3 DEF PoolInv, TypeOK
<1>2. RunInv' /\ CallInv'
  BY <1>un, <1>pc, CallFrame DEF PoolInv, CallLabels
<1>3. PlaceInv' /\ HomeInv'
  BY <1>un, <1>pc, PlaceFrame DEF PoolInv, CallLabels
<1>4. StopInv'
  <2>1. \A v \in Workers : pc[v] = "wait" =>
          /\ queue[v] # <<>> => \E u \in Threads : pc[u] = "notify" /\ call[u].id = v
          /\ queueStop[v] => owner = "notifyAll" /\ \A r \in Workers : r > v => ~queueStop[r]
    BY DEF PoolInv, StopInv, NoLostWakeup
  <2>2. \A w, v \in Workers : queueStop[v] /\ w < v => queueStop[w]
    BY DEF PoolInv, StopInv
  <2>3. \A v \in Workers : pc'[v] = "wait" /\ queue'[v] # <<>> =>
          \E u \in Threads : pc'[u] = "notify" /\ call'[u].id = v
    BY <2>1, <1>pc, <1>un
  <2>4. CASE DestroyPool \/ Join
    <3>1. UNCHANGED <<pc, queueStop>> /\ owner # "notifyAll"
      BY <2>4 DEF DestroyPool, Join
    <3>2. \A v \in Workers : pc[v] = "wait" => ~queueStop[v]
      BY <3>1, <2>1
    <3>3. NoLostWakeup'
      BY <3>1, <3>2, <2>3 DEF NoLostWakeup
    <3> QED
      BY <3>1, <3>3, <2>2 DEF StopInv
  <2>5. ASSUME NEW q \in Workers, StopQueue(q) PROVE StopInv'
    <3>1. /\ UNCHANGED pc /\ owner # "notifyAll" /\ owner' = "notifyAll" /\ ~queueStop[q]
          /\ \A r \in 0 .. q - 1 : queueStop[r]
          /\ \A r \in Workers : queueStop'[r] = IF r = q THEN TRUE ELSE queueStop[r]
      BY <2>5 DEF StopQueue, PoolInv, TypeOK
    <3>2. \A v \in Workers : pc[v] = "wait" => ~queueStop[v]
      BY <3>1, <2>1
    <3>3. \A r \in Workers : r > q => ~queueStop[r]
      BY <3>1, <2>2
    <3>4. \A r \in Workers : r < q => queueStop[r]
      BY <3>1, PoolAssumption DEF Workers
    <3>5. \A v \in Workers : pc'[v] = "wait" /\ queueStop'[v] => v = q
      BY <3>1, <3>2
    <3>6. \A r \in Workers : r > q => ~queueStop'[r]
      <4> SUFFICES ASSUME NEW r \in Workers, r > q PROVE ~queueStop'[r]
        OBVIOUS
      <4>1. r # q
        OBVIOUS
      <4>2. queueStop'[r] = queueStop[r]
        BY <4>1, <3>1
      <4> QED
        BY <4>2, <3>3
    <3>7. NoLostWakeup'
      BY <3>1, <3>5, <3>6, <2>3 DEF NoLostWakeup
    <3>8. \A w, v \in Workers : queueStop'[v] /\ w < v => queueStop'[w]
      BY <3>1, <3>4, <2>2
    <3> QED
      BY <3>7, <3>8 DEF StopInv
  <2>6. ASSUME NEW q \in Workers, NotifyAll(q) PROVE StopInv'
    <3>1. /\ UNCHANGED queueStop /\ queueStop[q] /\ \A r \in Workers : r > q => ~queueStop[r]
          /\ pc'[q] # "wait"
      BY <2>6 DEF NotifyAll, Woken, PoolInv, TypeOK
    <3>2. \A v \in Workers : pc'[v] = "wait" => ~queueStop[v]
      <4> SUFFICES ASSUME NEW v \in Workers, pc'[v] = "wait", queueStop[v] PROVE FALSE
        OBVIOUS
      <4>1. pc[v] = "wait" /\ v # q
        BY <1>pc, <3>1
      <4>2. ~(q > v)
        BY <4>1, <3>1, <2>1
      <4>3. ~(v > q)
        BY <3>1
      <4> QED
        BY <4>1, <4>2, <4>3
    <3>3. NoLostWakeup'
      BY <3>1, <3>2, <2>3 DEF NoLostWakeup
    <3> QED
      BY <3>1, <3>3, <2>2 DEF StopInv
  <2> QED
    BY <2>4, <2>5, <2>6 DEF OwnerStep
<1> QED
  BY <1>1, <1>2, <1>3, <1>4 DEF PoolInv

----
(* The theorems *)

LEMMA InitPool == Init => PoolInv
<1> SUFFICES ASSUME Init PROVE PoolInv
  OBVIOUS
<1> USE PoolFacts DEF Init
<1>1. \A t \in Threads : pc[t] \notin CallLabels /\ pc[t] # "wait" /\ (t \in Workers => pc[t] # "user")
  BY DEF CallLabels, LoopTop
<1>2. \A j \in Jobs : ~Arrived(j) /\ ~InQueue(j)
  BY DEF Arrived, InQueue
<1>3. TypeOK
  <2>1. pc \in [Threads -> {"user", "tryPush", "push", "notify", "steal", "pop",
                           "wait", "checkStop", "exit"}]
    BY DEF LoopTop
  <2>2. queue \in [Workers -> Seq([job : Jobs, canSteal : BOOLEAN])]
    <3> DEFINE S == [job : Jobs, canSteal : BOOLEAN]
    <3> HIDE DEF S
    <3>1. queue \in [Workers -> Seq(S)]
      OBVIOUS
    <3> QED
      BY <3>1 DEF S
  <2>3. call \in [Threads -> [job : Jobs \cup {"none"}, id : Workers \cup {AnyQueue}]]
    BY DEF NoCall
  <2>4. {steal, stop} \subseteq BOOLEAN /\ queueStop \in [Workers -> BOOLEAN]
    OBVIOUS
  <2>5. running \in [Workers -> Seq(Jobs)] /\ started \in [Jobs -> Seq(Workers)]
    OBVIOUS
  <2> QED
    BY <2>1, <2>2, <2>3, <2>4, <2>5 DEF TypeOK
<1>4. RunInv
  BY <1>1 DEF RunInv
<1>5. CallInv
  BY <1>1 DEF CallInv, InCall, CallLabels
<1>6. PlaceInv
  BY <1>2 DEF PlaceInv
<1>7. HomeInv
  BY <1>1 DEF HomeInv, RunsAtHome, CallLabels
<1>8. StopInv
  BY <1>1 DEF StopInv, NoLostWakeup
<1> QED
  BY <1>3, <1>4, <1>5, <1>6, <1>7, <1>8 DEF PoolInv

LEMMA StepPool ==
    ASSUME ContextContract, PoolInv, [Next]_vars
    PROVE  PoolInv'
<1>1. ASSUME NEW t \in Threads, UserStep(t) PROVE PoolInv'
  BY <1>1, StepSchedule, StepCheckin DEF UserStep
<1>2. ASSUME NEW t \in Threads, CallStep(t) PROVE PoolInv'
  BY <1>2, StepTryPush, StepPush, StepNotify DEF CallStep
<1>3. CASE UNCHANGED vars
  <2>1. UNCHANGED <<steal, stop, queue, queueStop, pc, call, running, status, home, started, owner>>
    BY <1>3 DEF vars
  <2>2. TypeOK'
    BY <2>1 DEF PoolInv, TypeOK
  <2>3. RunInv' /\ CallInv'
    BY <2>1, CallFrame DEF PoolInv
  <2>4. PlaceInv' /\ HomeInv'
    BY <2>1, PlaceFrame DEF PoolInv
  <2>5. StopInv'
    BY <2>1, StopFrame DEF PoolInv
  <2> QED
    BY <2>2, <2>3, <2>4, <2>5 DEF PoolInv
<1> QED
  BY <1>1, <1>2, <1>3, StepWorker, StepOwner DEF Next, Terminated

\* The pool's invariant holds in every reachable state.
THEOREM PoolInvariant ==
    ASSUME ContextContract PROVE Spec => []PoolInv
BY InitPool, StepPool, PTL DEF Spec

\* ThreadPool: the variables keep their types; in particular the id that checkin
\* computes from a context is always that of a queue.
THEOREM PoolTypes ==
    ASSUME ContextContract PROVE Spec => []TypeOK
<1>1. PoolInv => TypeOK
  BY DEF PoolInv
<1> QED
  BY <1>1, PoolInvariant, PTL

\* Queue::push, pop and stop: no worker sleeps on an item or on a stop unless the thread
\* that put it there is still to notify, for any number of workers and callers.
THEOREM PoolWakes ==
    ASSUME ContextContract PROVE Spec => []NoLostWakeup
<1>1. PoolInv => NoLostWakeup
  BY DEF PoolInv, StopInv
<1> QED
  BY <1>1, PoolInvariant, PTL

\* SimpleExecutor::checkin: a job is started by the worker of its context, whoever steals.
THEOREM PoolRunsAtHome ==
    ASSUME ContextContract PROVE Spec => []RunsAtHome
<1>1. PoolInv => RunsAtHome
  BY DEF PoolInv, HomeInv
<1> QED
  BY <1>1, PoolInvariant, PTL

\* A set in which no two elements differ counts for zero or one.
LEMMA AtMostOne ==
    ASSUME NEW S, \A x, y \in S : x = y
    PROVE  Cardinality(S) = IF S = {} THEN 0 ELSE 1
<1>1. CASE S = {}
  BY <1>1, FS_EmptySet
<1>2. CASE S # {}
  <2>1. PICK x \in S : TRUE
    BY <1>2
  <2>2. S = {x}
    BY <2>1
  <2>3. Cardinality({x}) = 1
    BY FS_Singleton
  <2> QED
    BY <1>2, <2>2, <2>3
<1> QED
  BY <1>1, <1>2

\* A job counts once in the queue it is in, and once with the thread that pushes it.
LEMMA QueuedOnce ==
    ASSUME PoolInv, NEW j \in Jobs
    PROVE  Cardinality(Queued(j)) = IF InQueue(j) THEN 1 ELSE 0
<1>1. \A x \in Queued(j) : \E w \in Workers : \E i \in DOMAIN queue[w] :
         x = <<w, i>> /\ queue[w][i].job = j
  BY Zenon DEF Queued
<1>2. \A x, y \in Queued(j) : x = y
  <2> SUFFICES ASSUME NEW x \in Queued(j), NEW y \in Queued(j) PROVE x = y
    OBVIOUS
  <2>1. PICK w \in Workers : \E i \in DOMAIN queue[w] : x = <<w, i>> /\ queue[w][i].job = j
    BY <1>1
  <2>2. PICK i \in DOMAIN queue[w] : x = <<w, i>> /\ queue[w][i].job = j
    BY <2>1
  <2>3. PICK v \in Workers : \E k \in DOMAIN queue[v] : y = <<v, k>> /\ queue[v][k].job = j
    BY <1>1
  <2>4. PICK k \in DOMAIN queue[v] : y = <<v, k>> /\ queue[v][k].job = j
    BY <2>3
  <2>5. w = v /\ i = k
    BY <2>2, <2>4 DEF PoolInv, PlaceInv
  <2> QED
    BY <2>2, <2>4, <2>5
<1>3. ASSUME InQueue(j) PROVE Queued(j) # {}
  <2>1. PICK w \in Workers : \E i \in DOMAIN queue[w] : queue[w][i].job = j
    BY <1>3 DEF InQueue
  <2>2. PICK i \in DOMAIN queue[w] : queue[w][i].job = j
    BY <2>1
  <2>3. <<w, i>> \in Queued(j)
    <3> DEFINE T(v) == {<<v, n>> : n \in {k \in DOMAIN queue[v] : queue[v][k].job = j}}
    <3>1. i \in {k \in DOMAIN queue[w] : queue[w][k].job = j}
      BY <2>2
    <3>2. <<w, i>> \in T(w)
      BY <3>1, Zenon
    <3>3. Queued(j) = UNION {T(v) : v \in Workers}
      BY Zenon DEF Queued
    <3> HIDE DEF T
    <3> QED
      BY <3>2, <3>3, Zenon
  <2> QED
    BY <2>3
<1>4. Queued(j) # {} => InQueue(j)
  BY <1>1 DEF InQueue
<1> QED
  BY <1>2, <1>3, <1>4, AtMostOne

LEMMA PushedOnce ==
    ASSUME PoolInv, NEW j \in Jobs
    PROVE  /\ Cardinality(Pushing(j)) \in {0, 1}
           /\ Cardinality(Pushing(j)) = 1 => ~Arrived(j) /\ status[j] = "new"
<1>1. \A t \in Pushing(j) : t \in Threads /\ InCall(t, j) /\ pc[t] # "notify"
  BY DEF Pushing, InCall, CallLabels
<1>2. \A t, u \in Pushing(j) : t = u
  BY <1>1, OneCaller DEF InCall
<1>3. \A t \in Pushing(j) : ~Arrived(j) /\ status[j] = "new"
  BY <1>1 DEF PoolInv, CallInv
<1>4. Cardinality(Pushing(j)) = IF Pushing(j) = {} THEN 0 ELSE 1
  BY <1>2, AtMostOne
<1> QED
  BY <1>3, <1>4

\* scheduleById, Queue and the worker's loop: whoever steals, a job is with its caller,
\* in one queue once or started once, and one that was turned away is nowhere.
THEOREM PoolConserves ==
    ASSUME ContextContract PROVE Spec => []ConservesJobs
<1>1. ASSUME PoolInv PROVE ConservesJobs
  <2> SUFFICES ASSUME NEW j \in Jobs
               PROVE  LET places == Len(started[j]) + Cardinality(Queued(j)) + Cardinality(Pushing(j))
                      IN  /\ status[j] = "accepted" => places = 1
                          /\ status[j] \in {"rejected", "null"} => places = 0
                          /\ places <= 1
    BY DEF ConservesJobs
  <2> DEFINE a == Len(started[j])
             b == Cardinality(Queued(j))
             c == Cardinality(Pushing(j))
  <2>1. a \in {0, 1} /\ (a = 0 <=> started[j] = <<>>)
    <3>1. started[j] \in Seq(Workers) /\ Len(started[j]) <= 1
      BY <1>1 DEF PoolInv, TypeOK, PlaceInv
    <3>2. \A x \in Seq(Workers) : Len(x) \in Nat /\ (Len(x) = 0 <=> x = <<>>)
      OBVIOUS
    <3>3. \A n \in Nat : n <= 1 => n = 0 \/ n = 1
      OBVIOUS
    <3> QED
      BY <3>1, <3>2, <3>3
  <2>2. b \in {0, 1} /\ (b = 1 <=> InQueue(j))
    BY <1>1, QueuedOnce
  <2>3. c \in {0, 1} /\ (c = 1 => ~Arrived(j) /\ status[j] = "new")
    BY <1>1, PushedOnce
  <2> HIDE DEF a, b, c
  <2>4. b = 1 => a = 0
    BY <1>1, <2>1, <2>2 DEF PoolInv, PlaceInv
  <2>5. c = 1 => a = 0 /\ b = 0
    BY <2>1, <2>2, <2>3 DEF Arrived
  <2>6. status[j] = "accepted" => (a = 1 \/ b = 1) /\ c = 0
    BY <1>1, <2>1, <2>2, <2>3 DEF PoolInv, PlaceInv, Arrived
  <2>7. status[j] \in {"rejected", "null"} => a = 0 /\ b = 0 /\ c = 0
    BY <1>1, <2>1, <2>2, <2>3 DEF PoolInv, PlaceInv, Arrived
  <2>8. /\ status[j] = "accepted" => a + b + c = 1
        /\ status[j] \in {"rejected", "null"} => a + b + c = 0
        /\ a + b + c <= 1
    BY <2>1, <2>2, <2>3, <2>4, <2>5, <2>6, <2>7
  <2> QED
    BY <2>8 DEF a, b, c
<1> QED
  BY <1>1, PoolInvariant, PTL
====
