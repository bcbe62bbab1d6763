---- MODULE CollectProofs ----
(* collectAll, collectAny and CountEvent, for every size of the input, every            *)
(* maxConcurrency and every order of starting, suspending, completing and cancelling:   *)
(* the awaiter is alive whenever it is touched, the parent is resumed once for each      *)
(* co_await, and what is returned is what the tasks completed with. Then the same for   *)
(* uthread::collectAll: a uthread is switched in and freed only when it is off its       *)
(* stack, and nothing awaited is reported before it is there.                            *)
EXTENDS Collect, FiniteSetTheorems, SequenceTheorems, TLAPS

\* uthread::collectAll, with the uthreads it starts and what they await. The two modules
\* have nothing to do with each other: a variable that has the same name in both stands
\* for one thing in Spec and for another in U!Spec.
CONSTANTS Workers, N, Programs
VARIABLES policy, program, pc, stack, jobs, awaiting, inner, home, joined, refs, launched,
          refused
U == INSTANCE Uthread WITH Tasks <- N

\* The tasks of the window that the CountEvent still waits for: not yet started, started,
\* or before their down().
Unfinished == {"new", "queued", "refused", "running", "suspended", "finish"}
Open == {i \in Batch : task[i] \in Unfinished}

\* The last task of the window.
BatchEnd == IF start + Width <= call.size THEN start + Width ELSE call.size

\* collectAny's CountEvent exists, and whether the handler has still to count it down.
Begun == parent = "suspended" \/ next > 1 \/ handler \in {"installed", "taken", "cleared"}
Uncalled == IF handler = "taken" /\ emitter \in {"resume", "over"} THEN 0 ELSE 1

\* What the arguments are does not change.
CallInv ==
    /\ call.kind \in {"all", "any"} /\ call.size \in Nat /\ call.window \in Nat
    /\ {call.para, call.executor, call.yield, call.slot, call.cancel,
        call.stale} \subseteq BOOLEAN
    /\ call.stale => call.slot
    /\ call.kind = "any" => call.window = 0 /\ ~call.para /\ ~call.yield

\* Windows begin at the multiples of their width, so that the tasks whose callbacks count
\* one CountEvent down are exactly those of the window it was made for.
WindowInv == start = call.size \/ \E k \in Nat : start = k * Width

\* The loop starts the tasks in the order of the input.
OrderInv ==
    /\ \A i \in Tasks : task[i] = "new" <=> next <= i
    /\ loop = "inline" => next > 1
    /\ loop \in {"start", "emplace"} => next \in Tasks

\* What is stored is what the task completed with.
ResultInv ==
    /\ \A i \in Tasks :
         /\ task[i] \in {"finish", "emit", "win", "resume", "done"} => result[i] # "none"
         /\ call.kind = "all" /\ task[i] \in {"emit", "resume", "done"} =>
              output[i] = result[i]
    /\ winner # 0 => task[winner] \in {"resume", "done"} /\ output[winner] = result[winner]
    /\ parent = "threw" => Canceled \/ (call.yield /\ ~call.executor)

\* The thread that emits Terminate; only collectAny gives it a handler to call.
EmitterInv ==
    /\ terminated \in BOOLEAN /\ (emitter = "idle" <=> ~terminated)
    /\ terminated => call.slot
    /\ handler \notin {"none", "stale"} => call.kind = "any" /\ call.slot
    /\ handler = "stale" => call.stale
    /\ handler = "taken" => terminated
    /\ emitter \in {"call", "resume"} => handler = "taken"
    /\ handler = "taken" => emitter \in {"call", "resume", "over"}

\* collectAll between and inside its windows.
AllInv == call.kind = "all" =>
    /\ loop # "emplace" /\ winner = 0
    /\ \A i \in Tasks : task[i] # "win"
    /\ \A i \in Tasks : i <= start => task[i] \in {"emit", "done"}
    /\ parent = "await" => start < call.size \/ call.size = 0
    /\ parent = "returned" => start = call.size
    /\ parent = "yield" => call.yield
    /\ parent \in {"suspended", "resumed"} \/ next = start + 1
    /\ parent = "suspended" =>
         /\ start + 1 <= next /\ next <= BatchEnd + 1 /\ alive = Batch
         /\ count = Cardinality(Open)
         /\ count = 0 <=> handle # 0
    /\ parent = "resumed" => next = BatchEnd + 1 /\ Open = {}
    /\ loop = "start" => parent = "suspended" /\ next \in Batch
    /\ \A i \in Tasks : task[i] = "resume" => handle = i
    /\ handle # 0 /\ parent = "suspended" =>
         handle \in Batch /\ task[handle] \in {"emit", "resume"}
    /\ handle # 0 /\ parent # "suspended" => task[handle] = "done"

\* collectAny: the first of the tasks and the handler, and nobody else, resumes the parent.
AnyInv == call.kind = "any" =>
    /\ start = 0 /\ parent \notin {"yield", "refused"}
    /\ \A i \in Tasks : task[i] \notin {"queued", "refused", "emit"}
    /\ Begun => count = Cardinality(Open) + Uncalled
    /\ Begun /\ count = call.size + 1 => parent = "suspended"
    /\ parent = "suspended" => alive = Tasks
    /\ parent = "await" => next = 1 /\ loop = "idle" /\ winner = 0
    /\ parent = "await" \/ loop = "emplace" => handler \in {"none", "stale"}
    /\ handler = "stale" => next = 1 /\ winner = 0 /\ loop \in {"idle", "emplace"}
    /\ loop # "idle" => Begun
    /\ loop = "emplace" => parent = "suspended" /\ next = 1
    /\ \A i \in Tasks : task[i] \in {"win", "resume"} =>
         /\ parent = "suspended" /\ emitter # "resume"
         /\ \A j \in Tasks : task[j] \in {"win", "resume"} => j = i
    /\ emitter = "resume" => parent = "suspended"
    /\ \A i \in Tasks : task[i] = "resume" => winner = i
    /\ parent = "resumed" /\ winner = 0 =>
         call.size = 0 \/ (Canceled /\ handler # "installed")
    /\ parent = "returned" /\ winner = 0 =>
         call.size = 0 \/ (call.stale /\ Canceled /\ next = 1 /\ loop = "idle")

CollectInv ==
    /\ CallInv /\ TypeOK /\ WindowInv /\ OrderInv /\ ResultInv /\ EmitterInv
    /\ AllInv /\ AnyInv /\ ~misuse

----
(* The windows *)

\* The tasks of the k-th window, counted from 0.
LEMMA WindowOf ==
    ASSUME NEW w \in Nat \ {0}, NEW k \in Nat, NEW i \in Nat \ {0}
    PROVE  (i - 1) \div w = k <=> k * w < i /\ i <= k * w + w
<1> DEFINE q == (i - 1) \div w
<1>1. i - 1 \in Nat /\ q \in Int /\ k * w \in Int /\ q * w \in Int
  OBVIOUS
<1>2. q * w <= i - 1 /\ i - 1 < q * w + w
  OBVIOUS
<1>3. q < k => q * w + w <= k * w
  BY <1>1
<1>4. k < q => k * w + w <= q * w
  BY <1>1
<1> HIDE DEF q
<1>5. q = k <=> k * w < i /\ i <= k * w + w
  BY <1>1, <1>2, <1>3, <1>4
<1> QED
  BY <1>5 DEF q

\* maxConcurrency 0, or not less than the size, makes one window.
LEMMA WidthFacts ==
    ASSUME CallInv
    PROVE  /\ Width \in 0 .. call.size /\ (call.size # 0 => Width # 0)
           /\ call.window > 0 => Width <= call.window
           /\ call.kind = "any" => Width = call.size
BY DEF CallInv, Width

\* The window at start: its tasks, how many they are, and that they are each other's.
LEMMA BatchFacts ==
    ASSUME CallInv, TypeOK, WindowInv
    PROVE  /\ BatchEnd \in start .. call.size /\ BatchEnd <= start + Width
           /\ \A i : i \in Batch <=> i \in Tasks /\ start < i /\ i <= BatchEnd
           /\ IsFiniteSet(Batch) /\ Cardinality(Batch) = BatchEnd - start
           /\ \A i \in Batch : BatchOf(i) = Batch
<1>1. Width \in 0 .. call.size /\ start \in 0 .. call.size /\ call.size \in Nat
  BY WidthFacts DEF TypeOK, CallInv
<1>2. BatchEnd \in start .. call.size /\ BatchEnd <= start + Width
  BY <1>1 DEF BatchEnd
<1>3. \A i : i \in Batch <=> i \in Tasks /\ start < i /\ i <= BatchEnd
  BY <1>1 DEF Batch, BatchEnd, Tasks
<1>4. IsFiniteSet(Batch) /\ Cardinality(Batch) = BatchEnd - start
  <2>1. PICK a \in Int : a = start + 1
    BY <1>1
  <2>2. PICK b \in Int : b = BatchEnd
    BY <1>1, <1>2
  <2>3. \A i : i \in Batch <=> i \in a .. b
    BY <1>1, <1>2, <1>3, <2>1, <2>2 DEF Tasks
  <2>4. Batch = a .. b
    BY <2>3
  <2>5. IsFiniteSet(a .. b) /\ Cardinality(a .. b) = IF a > b THEN 0 ELSE b - a + 1
    BY FS_Interval
  <2>6. Cardinality(a .. b) = b - (a - 1)
    BY <1>1, <1>2, <2>1, <2>2, <2>5
  <2> QED
    BY <1>1, <2>1, <2>2, <2>4, <2>5, <2>6
<1>5. ASSUME NEW i \in Batch PROVE BatchOf(i) = Batch
  <2>1. i \in Tasks /\ start < i /\ i <= start + Width /\ start < call.size
    BY <1>1, <1>2, <1>3 DEF Tasks
  <2>2. PICK k \in Nat : start = k * Width
    BY <1>1, <2>1 DEF WindowInv
  <2>3. Width \in Nat \ {0}
    BY <1>1, <2>1, WidthFacts DEF Tasks
  <2>4. PICK w \in Nat \ {0} : w = Width
    BY <2>3
  <2>5. \A j \in Tasks : (j - 1) \div w = k <=> k * w < j /\ j <= k * w + w
    <3> TAKE j \in Tasks
    <3>1. j \in Nat \ {0}
      BY DEF Tasks
    <3> QED
      BY <3>1, WindowOf
  <2>6. (i - 1) \div w = k
    BY <2>1, <2>2, <2>4, <2>5
  <2>7. BatchOf(i) = {j \in Tasks : (j - 1) \div w = k}
    BY <2>4, <2>6 DEF BatchOf
  <2> QED
    BY <2>2, <2>4, <2>5, <2>7 DEF Batch
<1> QED
  BY <1>2, <1>3, <1>4, <1>5

\* The loop has a task left only inside a window, before its last task.
LEMMA LoopGoesOn ==
    ASSUME CallInv, TypeOK, WindowInv, NEW i \in Tasks, LoopAfter(i) # "idle"
    PROVE  /\ LoopAfter(i) = "start" /\ i + 1 \in Tasks
           /\ i # start /\ i # BatchEnd
<1>1. LoopAfter(i) = "start" /\ i + 1 \in BatchOf(i)
  BY DEF LoopAfter
<1>2. i + 1 \in Tasks /\ i \in BatchOf(i + 1)
  BY <1>1 DEF BatchOf
<1>3. i \in Nat /\ call.size \in Nat /\ start \in Nat
  BY DEF Tasks, TypeOK, CallInv
<1>4. ASSUME i = start PROVE FALSE
  <2>1. Width # 0 /\ Width \in Nat
    BY <1>2, <1>3, WidthFacts DEF Tasks
  <2>2. i + 1 \in Batch
    BY <1>2, <1>3, <1>4, <2>1 DEF Batch
  <2>3. i \in Batch
    BY <1>2, <2>2, BatchFacts
  <2> QED
    BY <1>3, <1>4, <2>3 DEF Batch
<1>5. ASSUME i = BatchEnd PROVE FALSE
  <2>1. i \in Batch
    BY <1>2, <1>3, <1>4, <1>5, BatchFacts
  <2>2. i + 1 \in Batch
    BY <1>1, <2>1, BatchFacts
  <2> QED
    BY <1>3, <1>5, <2>2, BatchFacts
<1> QED
  BY <1>1, <1>2, <1>4, <1>5

----
(* Counting *)

\* The arguments stay, and with start the window stays.
LEMMA SameWindow ==
    ASSUME CallInv, WindowInv, call' = call, start' = start
    PROVE  /\ CallInv' /\ WindowInv' /\ Tasks' = Tasks /\ Width' = Width /\ Batch' = Batch
           /\ BatchEnd' = BatchEnd
BY DEF CallInv, WindowInv, Tasks, Width, Batch, BatchEnd

\* How many tasks are left to wait for.
LEMMA OpenFacts ==
    ASSUME CallInv, TypeOK, WindowInv
    PROVE  /\ IsFiniteSet(Open) /\ Cardinality(Open) \in Nat
           /\ Cardinality(Open) <= BatchEnd - start
           /\ Cardinality(Open) = 0 => Open = {}
           /\ Cardinality(Open) = BatchEnd - start => Open = Batch
<1>1. Open \in SUBSET Batch /\ IsFiniteSet(Batch) /\ Cardinality(Batch) = BatchEnd - start
  BY BatchFacts DEF Open
<1>2. IsFiniteSet(Open) /\ Cardinality(Open) <= Cardinality(Batch)
      /\ (Cardinality(Open) = Cardinality(Batch) => Open = Batch)
  BY <1>1, FS_Subset
<1>3. Cardinality(Open) \in Nat
  BY <1>2, FS_CardinalityType
<1>4. Cardinality(Open) = 0 => Open = {}
  BY <1>2, FS_EmptySet
<1> QED
  BY <1>1, <1>2, <1>3, <1>4

\* A task that moves without finishing, or after it has finished, is counted as before.
LEMMA OpenKept ==
    ASSUME TypeOK, Tasks' = Tasks, Batch' = Batch, NEW i \in Tasks, NEW label, Goto(i, label),
           task[i] \in Unfinished <=> label \in Unfinished
    PROVE  Open' = Open
<1>1. \A j \in Tasks : task'[j] = IF j = i THEN label ELSE task[j]
  BY DEF Goto, TypeOK
<1>2. \A j \in Batch : j \in Tasks
  BY DEF Batch
<1>3. \A j \in Batch : task'[j] \in Unfinished <=> task[j] \in Unfinished
  BY <1>1, <1>2
<1> QED
  BY <1>3 DEF Open

\* down(): one task less to wait for.
LEMMA OneDown ==
    ASSUME CallInv, TypeOK, WindowInv, Tasks' = Tasks, Batch' = Batch, NEW i \in Batch,
           NEW label \in {"emit", "win", "resume", "done"}, Goto(i, label),
           task[i] = "finish"
    PROVE  /\ Open' = Open \ {i} /\ i \in Open
           /\ Cardinality(Open') = Cardinality(Open) - 1 /\ Cardinality(Open) > 0
           /\ Cardinality(Open) = 1 => Open' = {}
<1>1. i \in Tasks /\ \A j \in Batch : j \in Tasks
  BY DEF Batch
<1>2. \A j \in Tasks : task'[j] = IF j = i THEN label ELSE task[j]
  BY <1>1 DEF Goto, TypeOK
<1>3. Open' = Open \ {i} /\ i \in Open
  BY <1>1, <1>2 DEF Open, Unfinished
<1>4. PICK S : S = Open
  OBVIOUS
<1>5. IsFiniteSet(S) /\ i \in S /\ Cardinality(S) \in Nat
  BY <1>3, <1>4, OpenFacts
<1>6. IsFiniteSet(S \ {i}) /\ Cardinality(S \ {i}) = Cardinality(S) - 1
  BY <1>5, FS_RemoveElement
<1>7. Cardinality(S \ {i}) \in Nat /\ (Cardinality(S \ {i}) = 0 => S \ {i} = {})
  BY <1>6, FS_CardinalityType, FS_EmptySet
<1> QED
  BY <1>3, <1>4, <1>5, <1>6, <1>7

----
(* The initial states *)

LEMMA InitCollectInv ==
    ASSUME Init PROVE CollectInv
<1>1. CallInv
  <2>1. /\ call \in [kind : {"all", "any"}, size : Sizes, window : Windows, para : BOOLEAN,
                     executor : BOOLEAN, yield : BOOLEAN, slot : BOOLEAN, cancel : BOOLEAN,
                     stale : BOOLEAN]
        /\ call.kind = "any" => call.window = 0 /\ ~call.para
        /\ call.yield => call.window > 0
        /\ call.stale => call.slot
    BY DEF Init
  <2>2. call.size \in Nat /\ call.window \in Nat
    BY <2>1, CollectAssumption
  <2>3. ~(0 > 0)
    OBVIOUS
  <2> QED
    BY <2>1, <2>2, <2>3 DEF CallInv
<1>2. call.size \in Nat /\ Tasks = 1 .. call.size /\ Width \in Nat
  BY <1>1, WidthFacts DEF CallInv, Tasks
<1>3. TypeOK
  BY <1>2 DEF Init, TypeOK
<1>4. WindowInv
  <2>1. 0 \in Nat /\ 0 = 0 * Width
    BY <1>2
  <2> QED
    BY <2>1 DEF Init, WindowInv
<1>5. OrderInv
  BY <1>2 DEF Init, OrderInv
<1>6. ResultInv /\ EmitterInv /\ ~misuse
  BY <1>2 DEF Init, ResultInv, EmitterInv
<1>7. AllInv /\ AnyInv
  BY <1>1, <1>2 DEF Init, AllInv, AnyInv, Begun, CallInv
<1> QED
  BY <1>1, <1>3, <1>4, <1>5, <1>6, <1>7 DEF CollectInv

----
(* The thread that emits Terminate *)

\* Terminate is emitted, passed on to the tasks, and the handler is taken.
LEMMA StepEmits ==
    ASSUME CollectInv, Terminate \/ EmitChained \/ TakeHandler PROVE CollectInv'
<1> USE DEF CollectInv, Terminate, EmitChained, TakeHandler, awaiter
<1>1. CallInv' /\ WindowInv' /\ Tasks' = Tasks /\ Batch' = Batch /\ BatchEnd' = BatchEnd
  BY SameWindow
<1>2. Open' = Open /\ Uncalled' = Uncalled /\ (Begun' <=> Begun)
  BY <1>1 DEF Open, Uncalled, Begun, EmitterInv
<1>3. TypeOK' /\ OrderInv' /\ EmitterInv' /\ ~misuse'
  <2>1. TypeOK' /\ ~misuse'
    BY <1>1 DEF TypeOK
  <2>2. OrderInv'
    BY <1>1 DEF OrderInv
  <2>3. EmitterInv'
    BY DEF EmitterInv
  <2> QED
    BY <2>1, <2>2, <2>3
<1>4. ResultInv'
  BY <1>1 DEF ResultInv, Canceled
<1>5. AllInv'
  BY <1>1, <1>2 DEF AllInv
<1>6. AnyInv'
  BY <1>1, <1>2 DEF AnyInv, Canceled, EmitterInv
<1> QED
  BY <1>1, <1>3, <1>4, <1>5, <1>6

\* collectAny has one window.
LEMMA AnyWindow ==
    ASSUME CollectInv, call.kind = "any"
    PROVE  start = 0 /\ BatchEnd = call.size /\ Batch = Tasks
<1> USE DEF CollectInv
<1>1. start = 0 /\ call.size \in Nat
  BY DEF AnyInv, CallInv
<1>2. BatchEnd = call.size
  BY <1>1, WidthFacts DEF BatchEnd
<1>3. \A i \in Tasks : start < i /\ i <= BatchEnd
  BY <1>1, <1>2 DEF Tasks
<1>4. \A i : i \in Batch <=> i \in Tasks
  BY <1>3, BatchFacts
<1> QED
  BY <1>1, <1>2, <1>4 DEF Batch

\* collectAny: whoever finds the count at n + 1 is the first of the n tasks and the handler.
LEMMA FirstDown ==
    ASSUME CollectInv, call.kind = "any", Begun
    PROVE  /\ Batch = Tasks /\ BatchEnd = call.size /\ start = 0
           /\ Uncalled \in {0, 1} /\ count = Cardinality(Open) + Uncalled
           /\ count = call.size + 1 =>
                Open = Tasks /\ Uncalled = 1 /\ parent = "suspended"
<1> USE DEF CollectInv
<1>1. /\ start = 0 /\ count = Cardinality(Open) + Uncalled
      /\ count = call.size + 1 => parent = "suspended"
  BY DEF AnyInv
<1>2. Uncalled \in {0, 1} /\ call.size \in Nat
  BY DEF Uncalled, CallInv
<1>3. BatchEnd = call.size /\ Batch = Tasks
  BY AnyWindow
<1>4. count = call.size + 1 => Cardinality(Open) = BatchEnd - start /\ Uncalled = 1
  BY <1>1, <1>2, <1>3, OpenFacts
<1> QED
  BY <1>1, <1>2, <1>3, <1>4, OpenFacts

\* The handler counts down and, if it is the first, will resume the parent.
LEMMA StepCallHandler ==
    ASSUME CollectInv, CallHandler PROVE CollectInv'
<1> USE DEF CollectInv
<1>1. CallInv' /\ WindowInv' /\ Tasks' = Tasks /\ Batch' = Batch /\ BatchEnd' = BatchEnd
  BY SameWindow DEF CallHandler
<1>2. /\ emitter = "call" /\ handler = "taken" /\ call.kind = "any" /\ Begun /\ Uncalled = 1
      /\ call.size \in Nat
  BY DEF CallHandler, EmitterInv, Begun, Uncalled, CallInv
<1>3. /\ Open' = Open /\ Begun' /\ count = Cardinality(Open) + 1 /\ count' = count - 1
      /\ emitter' \in {"resume", "over"} /\ Uncalled' = 0 /\ handler' = "taken"
  BY <1>1, <1>2, FirstDown DEF Open, Uncalled, Begun, CallHandler, DownCount
<1>4. count' = Cardinality(Open) /\ count' \in 0 .. call.size
  BY <1>2, <1>3, OpenFacts, FirstDown
<1>5. TypeOK' /\ OrderInv' /\ ~misuse'
  BY <1>1, <1>2, <1>3, <1>4 DEF TypeOK, OrderInv, CallHandler
<1>6. EmitterInv'
  BY <1>2, <1>3 DEF EmitterInv, CallHandler
<1>7. ResultInv' /\ AllInv'
  BY <1>1, <1>2 DEF ResultInv, Canceled, AllInv, CallHandler
<1>8. ASSUME emitter' = "resume"
      PROVE  parent = "suspended" /\ \A i \in Tasks : task[i] \notin {"win", "resume"}
  <2>1. Open = Tasks /\ parent = "suspended"
    BY <1>2, <1>8, FirstDown DEF CallHandler
  <2> QED
    BY <2>1 DEF Open, Unfinished
<1>9. AnyInv'
  <2> USE DEF CallHandler
  <2>1. Begun' => count' = Cardinality(Open') + Uncalled'
    BY <1>2, <1>3, <1>4, OpenFacts
  <2>2. ~(count' = call.size + 1)
    BY <1>2, <1>4
  <2> QED
    BY <1>1, <1>2, <1>3, <1>8, <2>1, <2>2 DEF AnyInv, Canceled
<1> QED
  BY <1>1, <1>5, <1>6, <1>7, <1>9

\* The handler resumes the parent, which is suspended.
LEMMA StepHandlerResumes ==
    ASSUME CollectInv, HandlerResumes PROVE CollectInv'
<1> USE DEF CollectInv, awaiter
<1>1. CallInv' /\ WindowInv' /\ Tasks' = Tasks /\ Batch' = Batch /\ BatchEnd' = BatchEnd
  BY SameWindow DEF HandlerResumes
<1>2. /\ emitter = "resume" /\ handler = "taken" /\ call.kind = "any" /\ terminated /\ call.slot
      /\ Begun /\ Begun' /\ call.size \in Nat
  BY DEF HandlerResumes, EmitterInv, Begun, CallInv
<1>3. parent = "suspended" /\ \A i \in Tasks : task[i] \notin {"win", "resume"}
  BY <1>2 DEF AnyInv
<1>4. Open' = Open /\ Uncalled = 0 /\ Uncalled' = 0 /\ ~(count = call.size + 1)
  BY <1>1, <1>2, FirstDown DEF Open, Uncalled, HandlerResumes
<1>5. TypeOK' /\ OrderInv' /\ ~misuse'
  BY <1>1, <1>3 DEF TypeOK, OrderInv, HandlerResumes, Resume
<1>6. EmitterInv' /\ ResultInv' /\ AllInv'
  BY <1>1, <1>2 DEF EmitterInv, ResultInv, Canceled, AllInv, HandlerResumes, Resume
<1>7. AnyInv'
  BY <1>1, <1>2, <1>3, <1>4 DEF AnyInv, Canceled, HandlerResumes, Resume
<1> QED
  BY <1>1, <1>5, <1>6, <1>7

----
(* The parent and the loop *)

\* Before a window none of its tasks has been started.
LEMMA NothingOpenYet ==
    ASSUME CollectInv, parent = "await"
    PROVE  /\ next = start + 1 /\ Open = Batch /\ \A i \in Batch : task[i] = "new"
           /\ Batch # {} => next \in Batch /\ next \in Tasks
<1> USE DEF CollectInv
<1>1. next = start + 1
  BY DEF AllInv, AnyInv, CallInv
<1>2. start \in Nat /\ call.size \in Nat
  BY DEF TypeOK, CallInv
<1>3. \A i \in Batch : task[i] = "new"
  BY <1>1, <1>2, BatchFacts DEF OrderInv, Tasks
<1>4. Batch # {} => next \in Batch /\ next \in Tasks
  <2> SUFFICES ASSUME NEW i \in Batch PROVE next \in Batch /\ next \in Tasks
    OBVIOUS
  <2>1. /\ i \in Nat /\ start < i /\ i <= BatchEnd
        /\ BatchEnd \in Nat /\ BatchEnd <= call.size
    BY <1>2, BatchFacts DEF Tasks
  <2>2. next \in Tasks /\ start < next /\ next <= BatchEnd
    BY <1>1, <1>2, <2>1 DEF Tasks
  <2> QED
    BY <2>2, BatchFacts
<1> QED
  BY <1>1, <1>3, <1>4 DEF Open, Unfinished

\* collectAll's await_suspend, or await_ready for an empty input.
LEMMA StepBeginAll ==
    ASSUME CollectInv, BeginAll PROVE CollectInv'
<1> USE DEF CollectInv
<1>1. CallInv' /\ WindowInv' /\ Tasks' = Tasks /\ Batch' = Batch /\ BatchEnd' = BatchEnd
  BY SameWindow DEF BeginAll
<1>2. /\ parent = "await" /\ call.kind = "all" /\ next = start + 1 /\ next' = next
      /\ parent' \in {"resumed", "suspended"} /\ loop' \in {loop, "start"}
  BY NothingOpenYet DEF BeginAll, Suspend
<1>3. Open' = Open /\ Open = Batch
  BY <1>1, NothingOpenYet DEF BeginAll, Open
<1>4. start \in Nat /\ call.size \in Nat /\ BatchEnd \in start .. call.size
  BY BatchFacts DEF TypeOK, CallInv
<1>5. EmitterInv' /\ ResultInv' /\ AnyInv' /\ ~misuse'
  BY <1>1, <1>2 DEF EmitterInv, ResultInv, AnyInv, Canceled, BeginAll
<1>6. CASE Batch = {}
  <2>1. /\ parent' = "resumed" /\ count' = count /\ handle' = handle /\ alive' = alive
        /\ chain' = chain /\ loop' = loop
    BY <1>6 DEF BeginAll
  <2>2. BatchEnd = start
    BY <1>4, <1>6, BatchFacts, FS_EmptySet
  <2>3. TypeOK' /\ OrderInv'
    BY <1>1, <1>2, <2>1 DEF TypeOK, OrderInv, BeginAll
  <2>4. AllInv'
    BY <1>1, <1>2, <1>3, <1>6, <2>1, <2>2 DEF AllInv, BeginAll
  <2> QED
    BY <1>1, <1>5, <2>3, <2>4
<1>7. CASE Batch # {}
  <2>1. /\ parent' = "suspended" /\ count' = Cardinality(Batch) /\ handle' = 0 /\ alive' = Batch
        /\ chain' \in {Batch, chain} /\ loop' = "start"
    BY <1>7 DEF BeginAll, Suspend
  <2>2. next \in Batch /\ next \in Tasks /\ Batch \subseteq Tasks
    BY <1>2, <1>7, NothingOpenYet DEF Batch
  <2>3. Cardinality(Batch) \in 1 .. call.size
    <3>1. Cardinality(Batch) \in 0 .. call.size
      BY <1>4, BatchFacts
    <3>2. Cardinality(Batch) # 0
      BY <1>7, BatchFacts, FS_EmptySet
    <3> QED
      BY <1>4, <3>1, <3>2
  <2>4. TypeOK'
    BY <1>1, <1>2, <1>4, <2>1, <2>2, <2>3 DEF TypeOK, BeginAll
  <2>5. OrderInv'
    BY <1>1, <1>2, <2>1, <2>2 DEF OrderInv, BeginAll
  <2>6. next <= BatchEnd
    BY <2>2, BatchFacts
  <2>7. ASSUME NEW i \in Tasks PROVE task[i] # "resume"
    BY <1>2, <1>4, <2>7 DEF AllInv, OrderInv, Tasks, TypeOK
  <2>8. AllInv'
    BY <1>1, <1>2, <1>3, <1>4, <2>1, <2>2, <2>3, <2>6, <2>7 DEF AllInv, BeginAll
  <2> QED
    BY <1>1, <1>5, <2>4, <2>5, <2>8
<1> QED
  BY <1>6, <1>7

\* collectAny's await_suspend, or await_ready for an empty input or a cancelled parent.
LEMMA StepBeginAny ==
    ASSUME CollectInv, BeginAny PROVE CollectInv'
<1> USE DEF CollectInv
<1>1. CallInv' /\ WindowInv' /\ Tasks' = Tasks /\ Batch' = Batch /\ BatchEnd' = BatchEnd
  BY SameWindow DEF BeginAny
<1>2. /\ parent = "await" /\ call.kind = "any" /\ next = 1 /\ next' = next
      /\ handler \in {"none", "stale"} /\ loop = "idle" /\ start = 0 /\ Batch = Tasks /\ BatchEnd = call.size
      /\ winner = 0 /\ call.size \in Nat
      /\ parent' \in {"resumed", "suspended"} /\ loop' \in {loop, "emplace"}
  BY AnyWindow DEF BeginAny, Suspend, AnyInv, CallInv
<1>3. Open' = Tasks /\ \A i \in Tasks : task[i] = "new"
  BY <1>1, <1>2, NothingOpenYet DEF BeginAny, Open
<1>4. EmitterInv' /\ ResultInv' /\ AllInv' /\ OrderInv' /\ ~misuse'
  <2>1. EmitterInv' /\ AllInv' /\ ~misuse'
    BY <1>1, <1>2 DEF EmitterInv, AllInv, BeginAny
  <2>2. ResultInv'
    BY <1>1, <1>2 DEF ResultInv, Canceled, BeginAny
  <2>3. loop' = "emplace" => next \in Tasks
    BY <1>2, NothingOpenYet DEF BeginAny, Suspend
  <2>4. OrderInv'
    BY <1>1, <1>2, <2>3 DEF OrderInv, BeginAny
  <2> QED
    BY <2>1, <2>2, <2>4
<1>5. Uncalled' = 1 /\ Cardinality(Tasks) = call.size /\ emitter # "resume"
  BY <1>2, BatchFacts DEF Uncalled, BeginAny, EmitterInv
<1>6. CASE Batch = {} \/ Canceled
  <2>1. /\ parent' = "resumed" /\ count' = count /\ handle' = handle /\ alive' = alive
        /\ chain' = chain /\ loop' = loop
    BY <1>6 DEF BeginAny
  <2>2. call.size = 0 \/ Canceled'
    <3>1. Tasks = {} => call.size = 0
      BY <1>2, <1>5, FS_EmptySet
    <3> QED
      BY <1>2, <1>6, <3>1 DEF Canceled, BeginAny
  <2>3. TypeOK'
    BY <1>1, <1>2, <2>1 DEF TypeOK, BeginAny
  <2>4. AnyInv'
    BY <1>1, <1>2, <1>3, <1>5, <2>1, <2>2 DEF AnyInv, Begun, BeginAny
  <2> QED
    BY <1>1, <1>4, <2>3, <2>4
<1>7. CASE ~(Batch = {} \/ Canceled)
  <2>1. /\ parent' = "suspended" /\ count' = call.size + 1 /\ handle' = 0 /\ alive' = Tasks
        /\ chain' \in {Tasks, chain} /\ loop' = "emplace"
    BY <1>2, <1>7 DEF BeginAny, Suspend
  <2>2. TypeOK'
    BY <1>1, <1>2, <2>1 DEF TypeOK, BeginAny
  <2>3. AnyInv'
    BY <1>1, <1>2, <1>3, <1>5, <2>1 DEF AnyInv, Begun, BeginAny
  <2> QED
    BY <1>1, <1>4, <2>2, <2>3
<1> QED
  BY <1>6, <1>7

\* tryEmplace: the parent goes on without having started anything when it is cancelled.
LEMMA StepEmplaceHandler ==
    ASSUME CollectInv, EmplaceHandler PROVE CollectInv'
<1> USE DEF CollectInv, awaiter
<1>1. CallInv' /\ WindowInv' /\ Tasks' = Tasks /\ Batch' = Batch /\ BatchEnd' = BatchEnd
  BY SameWindow DEF EmplaceHandler
<1>2. /\ loop = "emplace" /\ call.kind = "any" /\ parent = "suspended" /\ next = 1
      /\ handler \in {"none", "stale"} /\ Open' = Open /\ Begun
      /\ handler = "stale" => call.slot
  BY <1>1 DEF EmplaceHandler, AllInv, AnyInv, EmitterInv, CallInv, Open, Begun
<1>3. /\ Uncalled = 1 /\ Uncalled' = 1 /\ loop' \in {"start", "idle"}
      /\ handler' \in {"none", "stale", "installed"} /\ parent' \in {"suspended", "resumed"}
      /\ emitter # "resume"
  BY <1>2 DEF EmplaceHandler, Uncalled, EmitterInv
<1>4. TypeOK' /\ ~misuse'
  BY <1>1, <1>2, <1>3 DEF TypeOK, EmplaceHandler
<1>5. OrderInv'
  BY <1>1, <1>2, <1>3 DEF OrderInv, EmplaceHandler
<1>6. ResultInv' /\ AllInv'
  BY <1>1, <1>2, <1>3 DEF ResultInv, Canceled, AllInv, EmplaceHandler
<1>7. EmitterInv'
  BY <1>2, <1>3 DEF EmitterInv, EmplaceHandler
<1>8. AnyInv'
  <2>1. \/ parent' = "suspended" /\ Begun'
        \/ parent' = "resumed" /\ ~Begun' /\ loop' = "idle" /\ Canceled /\ handler' = handler
    BY <1>2, <1>3 DEF EmplaceHandler, Begun
  <2>2. ASSUME NEW i \in Tasks PROVE task[i] = "new"
    BY <1>2 DEF OrderInv, Tasks
  <2> QED
    BY <1>1, <1>2, <1>3, <2>1, <2>2 DEF AnyInv, Canceled, EmplaceHandler
<1> QED
  BY <1>1, <1>4, <1>5, <1>6, <1>7, <1>8

\* await_resume of collectAll: the window is over and none of its tasks touches it again.
LEMMA StepResumeAll ==
    ASSUME CollectInv, ResumeAll PROVE CollectInv'
<1> USE DEF CollectInv
<1>1. CallInv' /\ Tasks' = Tasks /\ Width' = Width
  BY DEF ResumeAll, CallInv, Tasks, Width
<1>2. /\ parent = "resumed" /\ call.kind = "all" /\ next = BatchEnd + 1 /\ Open = {}
      /\ call.size \in Nat /\ start \in 0 .. call.size
  BY DEF ResumeAll, AllInv, CallInv, TypeOK
<1>3. start' = BatchEnd /\ BatchEnd \in start .. call.size
  BY <1>2, BatchFacts DEF ResumeAll
<1>4. /\ parent' \in {"yield", "await", "returned"}
      /\ parent' = "await" => start' < call.size
      /\ parent' = "returned" => start' = call.size
      /\ parent' = "yield" => call.yield
  BY <1>2, <1>3 DEF ResumeAll, AfterWindow
<1>5. WindowInv'
  <2>1. Width \in Nat
    BY <1>2, WidthFacts
  <2>2. CASE BatchEnd = call.size
    BY <1>1, <1>3, <2>2 DEF WindowInv, ResumeAll
  <2>3. CASE BatchEnd # call.size
    <3>1. BatchEnd = start + Width /\ start # call.size
      BY <1>2, <2>1, <2>3 DEF BatchEnd
    <3>2. PICK k \in Nat : start = k * Width
      BY <3>1 DEF WindowInv
    <3>3. k + 1 \in Nat /\ BatchEnd = (k + 1) * Width
      BY <2>1, <3>1, <3>2
    <3> QED
      BY <1>1, <1>3, <3>3 DEF WindowInv
  <2> QED
    BY <2>2, <2>3
<1>6. TypeOK' /\ OrderInv' /\ ~misuse'
  <2>1. TypeOK' /\ ~misuse'
    BY <1>1, <1>2, <1>3, <1>4 DEF TypeOK, ResumeAll, signals
  <2>2. OrderInv'
    BY <1>1 DEF OrderInv, ResumeAll
  <2> QED
    BY <2>1, <2>2
<1>7. EmitterInv' /\ ResultInv' /\ AnyInv'
  BY <1>1, <1>2, <1>4 DEF EmitterInv, ResultInv, Canceled, AnyInv, ResumeAll, signals
<1>8. ASSUME NEW i \in Tasks, i <= BatchEnd PROVE task[i] \in {"emit", "done"}
  <2>1. CASE i <= start
    BY <1>2, <2>1 DEF AllInv
  <2>2. CASE ~(i <= start)
    <3>1. i \in Batch
      BY <1>2, <1>3, <1>8, <2>2, BatchFacts DEF Tasks
    <3>2. task[i] \notin Unfinished
      BY <1>2, <3>1 DEF Open
    <3>3. task[i] \notin {"win", "resume"}
      <4>1. task[i] = "resume" => handle = i /\ i # 0
        BY <1>2 DEF AllInv, Tasks
      <4> QED
        BY <1>2, <4>1 DEF AllInv
    <3> QED
      BY <3>2, <3>3 DEF TypeOK, Unfinished
  <2> QED
    BY <2>1, <2>2
<1>9. AllInv'
  <2>1. loop # "start" /\ next = start' + 1
    BY <1>2, <1>3 DEF AllInv
  <2>2. \A i \in Tasks : i <= start' => task[i] \in {"emit", "done"}
    BY <1>3, <1>8
  <2> QED
    BY <1>1, <1>2, <1>4, <2>1, <2>2 DEF AllInv, ResumeAll
<1> QED
  BY <1>1, <1>5, <1>6, <1>7, <1>9

\* co_await Yield between two windows.
LEMMA StepYieldWindow ==
    ASSUME CollectInv, YieldWindow PROVE CollectInv'
<1> USE DEF CollectInv, awaiter
<1>1. CallInv' /\ WindowInv' /\ Tasks' = Tasks /\ Batch' = Batch /\ BatchEnd' = BatchEnd
  BY SameWindow DEF YieldWindow
<1>2. /\ parent = "yield" /\ call.kind = "all" /\ start \in 0 .. call.size /\ call.size \in Nat
      /\ call.yield
  BY DEF YieldWindow, AllInv, AnyInv, CallInv, TypeOK
<1>3. /\ parent' \in {"await", "returned", "threw", "refused"}
      /\ parent' = "await" => start < call.size
      /\ parent' = "returned" => start = call.size
      /\ parent' = "threw" => Canceled \/ (call.yield /\ ~call.executor)
      /\ handler \in {"none", "stale"} /\ handler' \in {handler, "none"}
  <2>1. handler \in {"none", "stale"}
    BY <1>2 DEF EmitterInv
  <2>2. CASE ~Canceled /\ UNCHANGED handler
    BY <1>2, <2>1, <2>2 DEF YieldWindow, Throws
  <2>3. CASE Clear
    BY <1>2, <2>1, <2>3 DEF YieldWindow, Clear, Throws
  <2> QED
    BY <2>2, <2>3 DEF YieldWindow
<1>4. TypeOK' /\ ~misuse'
  BY <1>1, <1>3 DEF TypeOK, YieldWindow
<1>5. OrderInv' /\ EmitterInv'
  BY <1>1, <1>2, <1>3 DEF OrderInv, EmitterInv, YieldWindow
<1>6. ResultInv'
  BY <1>1, <1>3 DEF ResultInv, Canceled, YieldWindow
<1>7. AllInv' /\ AnyInv'
  BY <1>1, <1>2, <1>3 DEF AllInv, AnyInv, YieldWindow
<1> QED
  BY <1>1, <1>4, <1>5, <1>6, <1>7

\* await_resume of collectAny: checkHasCanceled clears the handler or throws.
LEMMA StepResumeAny ==
    ASSUME CollectInv, ResumeAny PROVE CollectInv'
<1> USE DEF CollectInv
<1>1. CallInv' /\ WindowInv' /\ Tasks' = Tasks /\ Batch' = Batch /\ BatchEnd' = BatchEnd
  BY SameWindow DEF ResumeAny
<1>2. /\ parent = "resumed" /\ call.kind = "any" /\ Open' = Open
      /\ parent' \in {"threw", "returned"}
      /\ parent' = "threw" => Canceled
      /\ parent' = "returned" => ~Canceled \/ handler \in {"installed", "stale"}
      /\ handler' = "none" <=> handler \in {"none", "stale"}
      /\ handler' \in {"cleared", "taken"} <=> handler \in {"installed", "cleared", "taken"}
      /\ handler' = "taken" <=> handler = "taken"
      /\ handler' \in {"cleared", "none", "taken"}
  BY <1>1 DEF ResumeAny, Clear, Throws, Open, TypeOK
<1>3. Uncalled' = Uncalled /\ (Begun' <=> Begun) /\ (Canceled' <=> Canceled)
  <2>1. Uncalled' = Uncalled /\ (Canceled' <=> Canceled)
    BY <1>2 DEF Uncalled, Canceled, ResumeAny
  <2>2. Begun' <=> Begun
    BY <1>2 DEF Begun, ResumeAny
  <2> QED
    BY <2>1, <2>2
<1>4. TypeOK' /\ OrderInv' /\ ~misuse'
  BY <1>1, <1>2 DEF TypeOK, OrderInv, ResumeAny
<1>5. EmitterInv'
  BY <1>2 DEF EmitterInv, ResumeAny
<1>6. ResultInv' /\ AllInv'
  BY <1>1, <1>2, <1>3 DEF ResultInv, AllInv, ResumeAny
<1>7. AnyInv'
  <2>1. ASSUME parent' = "returned", winner' = 0
        PROVE  call.size = 0 \/ (call.stale /\ Canceled /\ next = 1 /\ loop = "idle")
    BY <1>2, <2>1 DEF AnyInv, EmitterInv, ResumeAny
  <2> QED
    BY <1>1, <1>2, <1>3, <2>1 DEF AnyInv, ResumeAny
<1> QED
  BY <1>1, <1>4, <1>5, <1>6, <1>7

\* The loop starts a task, on the executor or inside the loop.
LEMMA StepStartTask ==
    ASSUME CollectInv, StartTask PROVE CollectInv'
<1> USE DEF CollectInv, awaiter, signals
<1>1. CallInv' /\ WindowInv' /\ Tasks' = Tasks /\ Batch' = Batch /\ BatchEnd' = BatchEnd
  BY SameWindow DEF StartTask
<1>2. PICK i \in Tasks : i = next
  BY DEF StartTask, OrderInv
<1>3. /\ loop = "start" /\ next' = i + 1 /\ i \in Nat /\ 1 <= i /\ call.size \in Nat /\ i <= call.size
      /\ task[i] = "new"
  BY <1>2 DEF StartTask, Tasks, CallInv, OrderInv
<1>4. PICK label \in {"queued", "refused", "running"} :
        /\ Goto(i, label) /\ loop' \in {LoopAfter(i), "inline"}
        /\ call.kind = "any" => label = "running"
  BY <1>2 DEF StartTask, Scheduled, CallInv
<1>5. task' = [task EXCEPT ![i] = label] /\ \A j \in Tasks : task'[j] = IF j = i THEN label ELSE task[j]
  BY <1>4 DEF Goto, TypeOK
<1>0. UNCHANGED <<call, parent, start, result, output, winner, count, handle, alive, terminated,
                  emitter, handler>>
  BY DEF StartTask
<1>6. Open' = Open
  BY <1>1, <1>3, <1>4, OpenKept DEF Unfinished
<1>7. /\ loop' \in {"idle", "start", "inline"}
      /\ loop' = "start" => i + 1 \in Tasks /\ i # BatchEnd
  BY <1>4, LoopGoesOn
<1>8. TypeOK'
  BY <1>1, <1>3, <1>4, <1>5, <1>7 DEF TypeOK, StartTask
<1>9. OrderInv'
  <2>1. \A j \in Tasks : task'[j] = "new" <=> i + 1 <= j
    BY <1>2, <1>3, <1>4, <1>5 DEF OrderInv, Tasks
  <2> QED
    BY <1>1, <1>3, <1>7, <2>1 DEF OrderInv
<1>10. EmitterInv'
  BY DEF EmitterInv, StartTask
<1>11. ResultInv'
  BY <1>1, <1>3, <1>4, <1>5 DEF ResultInv, Canceled, StartTask, TypeOK, Tasks
<1>12. CASE call.kind = "all"
  <2>1. parent = "suspended" /\ i \in Batch /\ alive = Batch
    BY <1>2, <1>3, <1>12 DEF AllInv
  <2>2. ~misuse'
    BY <1>2, <1>12, <2>1 DEF StartTask, Touch
  <2>3. start < i /\ i <= BatchEnd /\ start \in Nat /\ BatchEnd \in Nat
    BY <1>3, <2>1, BatchFacts DEF TypeOK
  <2>4. loop' = "start" => i + 1 \in Batch
    BY <1>3, <1>7, <2>3, BatchFacts
  <2>5. handle # 0 => handle # i
    BY <1>3, <1>12, <2>1 DEF AllInv
  <2>6. handle # 0 => handle \in Tasks
    BY <1>3 DEF TypeOK, Tasks
  <2>a. \A j \in Tasks : /\ task'[j] # "win" /\ (task'[j] = "resume" => handle = j)
                         /\ j <= start => task'[j] \in {"emit", "done"}
    BY <1>3, <1>4, <1>5, <1>12, <2>1, <2>3 DEF AllInv
  <2>b. handle # 0 => handle \in Batch /\ task'[handle] \in {"emit", "resume"}
    BY <1>5, <1>12, <2>1, <2>5, <2>6 DEF AllInv
  <2>c. count = Cardinality(Open) /\ (count = 0 <=> handle # 0) /\ winner = 0
    BY <1>12, <2>1 DEF AllInv
  <2>d. start + 1 <= i + 1 /\ i + 1 <= BatchEnd + 1
    BY <1>3, <2>3
  <2>7. AllInv'
    BY <1>0, <1>1, <1>3, <1>6, <1>7, <2>1, <2>4, <2>a, <2>b, <2>c, <2>d
       DEF AllInv
  <2>8. AnyInv'
    BY <1>12 DEF AnyInv, StartTask
  <2> QED
    BY <1>1, <1>8, <1>9, <1>10, <1>11, <2>2, <2>7, <2>8
<1>13. CASE call.kind = "any"
  <2>1. Begun /\ Begun' /\ Uncalled' = Uncalled
    BY <1>3, <1>13 DEF AnyInv, Begun, Uncalled, StartTask, Tasks
  <2>2. AllInv' /\ ~misuse'
    BY <1>13 DEF AllInv, StartTask
  <2>3. label = "running" /\ parent # "await"
    BY <1>3, <1>4, <1>13 DEF AnyInv
  <2>a. \A j \in Tasks : /\ task'[j] \notin {"queued", "refused", "emit"}
                         /\ task'[j] \in {"win", "resume"} => task[j] = task'[j]
    BY <1>5, <1>13, <2>3 DEF AnyInv
  <2>b. handler' # "stale" /\ winner' = winner /\ parent' = parent
    BY <1>3, <1>13 DEF AnyInv, StartTask, awaiter, signals
  <2>4. AnyInv'
    BY <1>0, <1>1, <1>3, <1>6, <1>7, <1>13, <2>1, <2>3, <2>a, <2>b DEF AnyInv, Canceled
  <2> QED
    BY <1>1, <1>8, <1>9, <1>10, <1>11, <2>2, <2>4
<1> QED
  BY <1>12, <1>13 DEF CallInv

----
(* The tasks and their callbacks *)

\* start() returns to the loop: if it has a task left, the window is still open.
LEMMA Unblocked ==
    ASSUME CollectInv, NEW i \in Tasks, Unblock(i)
    PROVE  /\ loop' \in {loop, "idle", "start"} /\ (loop' # "idle" => loop # "idle")
           /\ loop' = "start" => next \in Tasks
           /\ loop' = "start" /\ call.kind = "all" => parent = "suspended" /\ next \in Batch
<1> USE DEF CollectInv
<1>1. CASE ~(loop = "inline" /\ i = next - 1)
  BY <1>1 DEF Unblock, OrderInv, AllInv
<1>2. CASE loop = "inline" /\ i = next - 1
  <2>1. loop' = LoopAfter(i) /\ next \in Nat /\ next = i + 1 /\ start \in Nat /\ call.size \in Nat
    BY <1>2 DEF Unblock, TypeOK, Tasks, CallInv
  <2>2. CASE LoopAfter(i) = "idle"
    BY <1>2, <2>1, <2>2
  <2>3. CASE LoopAfter(i) # "idle"
    <3>1. LoopAfter(i) = "start" /\ next \in Tasks /\ next # start + 1 /\ next # BatchEnd + 1
      BY <2>1, <2>3, LoopGoesOn, BatchFacts DEF Tasks
    <3>2. ASSUME call.kind = "all" PROVE parent = "suspended" /\ next \in Batch
      <4>1. parent = "suspended" /\ start + 1 <= next /\ next <= BatchEnd + 1
        BY <3>1, <3>2 DEF AllInv
      <4>2. start < next /\ next <= BatchEnd
        BY <2>1, <3>1, <4>1, BatchFacts
      <4> QED
        BY <3>1, <4>1, <4>2, BatchFacts
    <3> QED
      BY <1>2, <2>1, <3>1, <3>2
  <2> QED
    BY <2>2, <2>3
<1> QED
  BY <1>1, <1>2

\* collectAny starts its tasks after it replaced a stale handler.
LEMMA StartedNotStale ==
    ASSUME CollectInv, call.kind = "any", NEW i \in Tasks, task[i] # "new"
    PROVE  handler # "stale"
<1>1. next > 1
  BY DEF CollectInv, OrderInv, TypeOK, CallInv, Tasks
<1> QED
  BY <1>1 DEF CollectInv, AnyInv

\* collectAll: a task that was started and has not called down() keeps the parent suspended,
\* and with it the awaiter alive.
LEMMA StartedKeepsParent ==
    ASSUME CollectInv, call.kind = "all", NEW i \in Tasks, task[i] \in Unfinished \ {"new"}
    PROVE  parent = "suspended" /\ i \in Batch /\ alive = Batch /\ i \in Open
<1> USE DEF CollectInv
<1>1. /\ i \in Nat /\ start \in Nat /\ next \in Nat /\ BatchEnd \in Nat
      /\ call.size \in Nat
  BY BatchFacts DEF Tasks, TypeOK, CallInv
<1>2. i < next /\ start < i
  BY <1>1 DEF OrderInv, AllInv, Unfinished
<1>3. i <= BatchEnd => i \in Batch /\ i \in Open
  BY <1>2, BatchFacts DEF Open
<1>4. parent = "suspended"
  BY <1>1, <1>2, <1>3 DEF AllInv
<1>5. i <= BatchEnd
  BY <1>1, <1>2, <1>4 DEF AllInv
<1> QED
  BY <1>3, <1>4, <1>5 DEF AllInv

\* A task runs, suspends or completes.
LEMMA StepRuns ==
    ASSUME CollectInv, NEW i \in Tasks, RunQueued(i) \/ SuspendTask(i) \/ Complete(i)
    PROVE  CollectInv'
<1> USE DEF CollectInv, awaiter, signals
<1>0. UNCHANGED <<call, parent, start, next, output, winner, count, handle, alive, terminated,
                  signalled, chain, emitter, handler>>
  BY DEF RunQueued, SuspendTask, Complete
<1>1. CallInv' /\ WindowInv' /\ Tasks' = Tasks /\ Batch' = Batch /\ BatchEnd' = BatchEnd
  BY <1>0, SameWindow
<1>2. PICK label \in {"running", "suspended", "finish"} :
        /\ Goto(i, label) /\ task[i] \in {"queued", "running", "suspended"}
        /\ \/ result' = result /\ label # "finish"
           \/ \E r \in {"value", "error"} : result' = [result EXCEPT ![i] = r]
        /\ loop' = loop \/ Unblock(i)
        /\ misuse' = misuse \/ (Touch(i) /\ task[i] = "queued")
  BY DEF RunQueued, SuspendTask, Complete
<1>3. task' = [task EXCEPT ![i] = label] /\ \A j \in Tasks : task'[j] = IF j = i THEN label ELSE task[j]
  BY <1>2 DEF Goto, TypeOK
<1>4. Open' = Open /\ Uncalled' = Uncalled /\ (Begun' <=> Begun)
  BY <1>0, <1>1, <1>2, OpenKept DEF Unfinished, Uncalled, Begun
<1>5. /\ loop' \in {loop, "idle", "start"} /\ (loop' # "idle" => loop # "idle")
      /\ loop' = "start" => next \in Tasks
      /\ loop' = "start" /\ call.kind = "all" => parent = "suspended" /\ next \in Batch
  <2>1. CASE loop' = loop
    BY <2>1 DEF OrderInv, AllInv
  <2>2. CASE Unblock(i)
    BY <2>2, Unblocked
  <2> QED
    BY <1>2, <2>1, <2>2
<1>6. /\ result' \in [Tasks -> {"none", "value", "error"}]
      /\ \A j \in Tasks : j # i => result'[j] = result[j]
      /\ label = "finish" => result'[i] # "none"
  BY <1>2 DEF TypeOK
<1>7. TypeOK'
  <2>1. task' \in [Tasks -> {"new", "queued", "refused", "running", "suspended", "finish",
                            "emit", "win", "resume", "done"}]
    BY <1>3 DEF TypeOK
  <2>2. loop' \in {"idle", "emplace", "start", "inline"}
    BY <1>5 DEF TypeOK
  <2> QED
    BY <1>0, <1>1, <1>6, <2>1, <2>2 DEF TypeOK
<1>8. OrderInv' /\ EmitterInv'
  BY <1>0, <1>1, <1>2, <1>3, <1>5 DEF OrderInv, EmitterInv
<1>9. ResultInv'
  <2>1. winner # 0 => winner \in Tasks /\ winner # i
    BY <1>2 DEF ResultInv, TypeOK, Tasks, CallInv
  <2> QED
    BY <1>0, <1>1, <1>2, <1>3, <1>6, <2>1 DEF ResultInv, Canceled
<1>10. CASE call.kind = "all"
  <2>1. parent = "suspended" /\ i \in Batch /\ alive = Batch
    BY <1>2, <1>10, StartedKeepsParent DEF Unfinished
  <2>2. ~misuse'
    BY <1>2, <2>1 DEF Touch
  <2>3. handle # 0 => handle \in Tasks /\ handle # i
    BY <1>2, <1>10, <2>1 DEF AllInv, TypeOK, Tasks, CallInv
  <2>4. \A j \in Tasks : /\ task'[j] # "win" /\ (task'[j] = "resume" => handle = j)
                         /\ j <= start => task'[j] \in {"emit", "done"}
    BY <1>2, <1>3, <1>10, <2>1 DEF AllInv, Batch
  <2>5. handle # 0 => handle \in Batch /\ task'[handle] \in {"emit", "resume"}
    BY <1>3, <1>10, <2>1, <2>3 DEF AllInv
  <2>6. AllInv' /\ AnyInv'
    BY <1>0, <1>1, <1>4, <1>5, <1>10, <2>1, <2>4, <2>5 DEF AllInv, AnyInv
  <2> QED
    BY <1>1, <1>7, <1>8, <1>9, <2>2, <2>6
<1>11. CASE call.kind = "any"
  <2>1. ~misuse' /\ AllInv'
    BY <1>0, <1>2, <1>11 DEF AnyInv, AllInv
  <2>2. \A j \in Tasks : /\ task'[j] \notin {"queued", "refused", "emit"}
                         /\ task'[j] \in {"win", "resume"} => task[j] = task'[j]
    BY <1>2, <1>3, <1>11 DEF AnyInv
  <2>0. handler # "stale"
    BY <1>2, <1>11, StartedNotStale
  <2>3. AnyInv'
    BY <1>0, <1>1, <1>4, <1>5, <1>11, <2>0, <2>2 DEF AnyInv, Canceled
  <2> QED
    BY <1>1, <1>7, <1>8, <1>9, <2>1, <2>3
<1> QED
  BY <1>10, <1>11 DEF CallInv

\* collectAll's callback: the result stored and down(), by the first, the last or another.
LEMMA StepFinishAll ==
    ASSUME CollectInv, NEW i \in Tasks, FinishAll(i) PROVE CollectInv'
<1> USE DEF CollectInv, signals
<1>0. /\ UNCHANGED <<call, parent, start, next, result, winner, alive, terminated, signalled, chain,
                     emitter, handler>>
      /\ task[i] = "finish" /\ call.kind = "all" /\ count' = count - 1
      /\ output' = [output EXCEPT ![i] = result[i]]
      /\ handle' = IF count = 1 THEN i ELSE handle
  BY DEF FinishAll, DownCount
<1>1. CallInv' /\ WindowInv' /\ Tasks' = Tasks /\ Batch' = Batch /\ BatchEnd' = BatchEnd
  BY <1>0, SameWindow
<1>2. /\ parent = "suspended" /\ i \in Batch /\ alive = Batch
      /\ count = Cardinality(Open) /\ (count = 0 <=> handle # 0)
  BY <1>0, StartedKeepsParent DEF Unfinished, AllInv
<1>3. PICK label \in {"emit", "resume", "done"} :
        /\ Goto(i, label) /\ (loop' = loop \/ Unblock(i))
        /\ label = "resume" => count = 1
        /\ label = "done" => count # 1
  BY DEF FinishAll
<1>4. task' = [task EXCEPT ![i] = label] /\ \A j \in Tasks : task'[j] = IF j = i THEN label ELSE task[j]
  BY <1>3 DEF Goto, TypeOK
<1>5. /\ count' = Cardinality(Open') /\ count > 0 /\ count \in Nat /\ handle = 0
      /\ i \in Nat /\ i # 0
  BY <1>0, <1>1, <1>2, <1>3, OneDown DEF Tasks, TypeOK, CallInv
<1>6. /\ loop' \in {loop, "idle", "start"} /\ (loop' # "idle" => loop # "idle")
      /\ loop' = "start" => next \in Tasks
      /\ loop' = "start" => parent = "suspended" /\ next \in Batch
  <2>1. CASE loop' = loop
    BY <1>0, <2>1 DEF OrderInv, AllInv
  <2>2. CASE Unblock(i)
    BY <1>0, <2>2, Unblocked
  <2> QED
    BY <1>3, <2>1, <2>2
<1>7. TypeOK'
  <2>1. count' \in 0 .. call.size + 1 /\ handle' \in 0 .. call.size
    BY <1>0, <1>5 DEF TypeOK, Tasks, CallInv
  <2>2. output' \in [Tasks -> {"none", "value", "error"}]
    BY <1>0 DEF TypeOK
  <2> QED
    BY <1>0, <1>1, <1>3, <1>4, <1>6, <2>1, <2>2 DEF TypeOK
<1>8. OrderInv' /\ EmitterInv'
  BY <1>0, <1>1, <1>3, <1>4, <1>6 DEF OrderInv, EmitterInv
<1>9. ResultInv'
  <2>1. output'[i] = result[i] /\ \A j \in Tasks : j # i => output'[j] = output[j]
    BY <1>0 DEF TypeOK
  <2>2. winner = 0
    BY <1>0 DEF AllInv
  <2> QED
    BY <1>0, <1>1, <1>3, <1>4, <2>1, <2>2 DEF ResultInv, Canceled
<1>10. ~misuse'
  BY <1>2 DEF FinishAll, Touch
<1>11. AllInv' /\ AnyInv'
  <2>1. \A j \in Tasks : /\ task'[j] # "win" /\ (task'[j] = "resume" => handle' = j)
                         /\ j <= start => task'[j] \in {"emit", "done"}
    <3>1. \A j \in Tasks : task[j] # "resume"
      BY <1>0, <1>5 DEF AllInv, Tasks
    <3>2. ~(i <= start)
      BY <1>0 DEF AllInv
    <3> QED
      BY <1>0, <1>3, <1>4, <3>1, <3>2 DEF AllInv
  <2>2. handle' # 0 => handle' \in Batch /\ task'[handle'] \in {"emit", "resume"}
    BY <1>0, <1>2, <1>3, <1>4, <1>5
  <2>3. count' = 0 <=> handle' # 0
    BY <1>0, <1>5
  <2> QED
    BY <1>0, <1>1, <1>2, <1>5, <1>6, <2>1, <2>2, <2>3 DEF AllInv, AnyInv
<1> QED
  BY <1>1, <1>7, <1>8, <1>9, <1>10, <1>11

\* The first to finish has emitted; it resumes the parent if it was the last too.
LEMMA StepEmitAll ==
    ASSUME CollectInv, NEW i \in Tasks, EmitAll(i) PROVE CollectInv'
<1> USE DEF CollectInv, signals, awaiter
<1>0. /\ UNCHANGED <<call, parent, start, next, result, output, winner, count, handle, alive,
                     terminated, chain, emitter, handler, misuse>>
      /\ task[i] = "emit" /\ call.kind = "all"
  BY DEF EmitAll, AnyInv, CallInv
<1>1. CallInv' /\ WindowInv' /\ Tasks' = Tasks /\ Batch' = Batch /\ BatchEnd' = BatchEnd
  BY <1>0, SameWindow
<1>2. PICK label \in {"resume", "done"} :
        /\ Goto(i, label) /\ (loop' = loop \/ Unblock(i))
        /\ label = "resume" <=> handle = i
  BY DEF EmitAll
<1>3. task' = [task EXCEPT ![i] = label] /\ \A j \in Tasks : task'[j] = IF j = i THEN label ELSE task[j]
  BY <1>2 DEF Goto, TypeOK
<1>4. Open' = Open
  BY <1>0, <1>1, <1>2, OpenKept DEF Unfinished
<1>5. /\ loop' \in {loop, "idle", "start"} /\ (loop' # "idle" => loop # "idle")
      /\ loop' = "start" => next \in Tasks
      /\ loop' = "start" => parent = "suspended" /\ next \in Batch
  <2>1. CASE loop' = loop
    BY <1>0, <2>1 DEF OrderInv, AllInv
  <2>2. CASE Unblock(i)
    BY <1>0, <2>2, Unblocked
  <2> QED
    BY <1>2, <2>1, <2>2
<1>6. TypeOK'
  <2>1. signalled' \subseteq Tasks
    BY DEF EmitAll, BatchOf, TypeOK
  <2> QED
    BY <1>0, <1>1, <1>2, <1>3, <1>5, <2>1 DEF TypeOK
<1>7. OrderInv' /\ EmitterInv'
  BY <1>0, <1>1, <1>2, <1>3, <1>5 DEF OrderInv, EmitterInv
<1>8. ResultInv'
  <2>1. winner = 0
    BY <1>0 DEF AllInv
  <2> QED
    BY <1>0, <1>1, <1>2, <1>3, <2>1 DEF ResultInv, Canceled
<1>9. AllInv' /\ AnyInv'
  <2>1. handle = i => i # 0 /\ parent = "suspended" /\ i \in Batch
    BY <1>0 DEF AllInv, Tasks
  <2>3. \A j \in Tasks : /\ task'[j] # "win" /\ (task'[j] = "resume" => handle' = j)
                         /\ j <= start => task'[j] \in {"emit", "done"}
    <3>1. i \in Batch => ~(i <= start)
      BY DEF Batch, Tasks, TypeOK, CallInv
    <3> QED
      BY <1>0, <1>2, <1>3, <2>1, <3>1 DEF AllInv
  <2>4. handle # 0 => handle \in Tasks
    BY DEF TypeOK, Tasks, CallInv
  <2>5. /\ handle # 0 /\ parent = "suspended" =>
             handle \in Batch /\ task'[handle] \in {"emit", "resume"}
        /\ handle # 0 /\ parent # "suspended" => task'[handle] = "done"
    BY <1>0, <1>2, <1>3, <2>1, <2>4 DEF AllInv
  <2> QED
    BY <1>0, <1>1, <1>4, <1>5, <2>3, <2>5 DEF AllInv, AnyInv
<1> QED
  BY <1>0, <1>1, <1>6, <1>7, <1>8, <1>9

\* collectAny's callback counts down; the first of all wins.
LEMMA StepFinishAny ==
    ASSUME CollectInv, NEW i \in Tasks, FinishAny(i) PROVE CollectInv'
<1> USE DEF CollectInv, signals
<1>0. /\ UNCHANGED <<call, parent, start, next, result, output, winner, handle, alive, terminated,
                     signalled, chain, emitter, handler, misuse>>
      /\ task[i] = "finish" /\ call.kind = "any" /\ count' = count - 1
  BY DEF FinishAny, DownCount
<1>1. CallInv' /\ WindowInv' /\ Tasks' = Tasks /\ Batch' = Batch /\ BatchEnd' = BatchEnd
  BY <1>0, SameWindow
<1>2. PICK label \in {"win", "done"} :
        /\ Goto(i, label) /\ (loop' = loop \/ Unblock(i))
        /\ label = "win" <=> count = call.size + 1
  BY DEF FinishAny
<1>3. task' = [task EXCEPT ![i] = label] /\ \A j \in Tasks : task'[j] = IF j = i THEN label ELSE task[j]
  BY <1>2 DEF Goto, TypeOK
<1>4. Begun /\ Begun' /\ Uncalled' = Uncalled
  <2>1. next > 1
    BY <1>0 DEF OrderInv, Tasks, TypeOK, CallInv
  <2> QED
    BY <1>0, <2>1 DEF Begun, Uncalled
<1>5. /\ Batch = Tasks /\ Uncalled \in {0, 1} /\ count = Cardinality(Open) + Uncalled
      /\ count = call.size + 1 => Open = Tasks /\ Uncalled = 1 /\ parent = "suspended"
  BY <1>0, <1>4, FirstDown
<1>6. /\ count' = Cardinality(Open') + Uncalled' /\ count > 0 /\ count \in Nat
      /\ ~(count' = call.size + 1) /\ call.size \in Nat /\ count' \in 0 .. call.size
  BY <1>0, <1>1, <1>2, <1>4, <1>5, OneDown, OpenFacts DEF TypeOK, CallInv
<1>7. /\ loop' \in {loop, "idle", "start"} /\ (loop' # "idle" => loop # "idle")
      /\ loop' = "start" => next \in Tasks
  <2>1. CASE loop' = loop
    BY <1>0, <2>1 DEF OrderInv
  <2>2. CASE Unblock(i)
    BY <1>0, <2>2, Unblocked
  <2> QED
    BY <1>2, <2>1, <2>2
<1>8. TypeOK'
  BY <1>0, <1>1, <1>2, <1>3, <1>6, <1>7 DEF TypeOK
<1>9. OrderInv' /\ EmitterInv'
  BY <1>0, <1>1, <1>2, <1>3, <1>7 DEF OrderInv, EmitterInv
<1>10. ResultInv'
  <2>1. winner # 0 => winner \in Tasks /\ winner # i
    BY <1>0 DEF ResultInv, TypeOK, Tasks, CallInv
  <2> QED
    BY <1>0, <1>1, <1>2, <1>3, <2>1 DEF ResultInv, Canceled
<1>11. AllInv' /\ AnyInv'
  <2>1. label = "win" => /\ \A j \in Tasks : task[j] \notin {"win", "resume"}
                         /\ emitter # "resume" /\ parent = "suspended"
    <3>1. Open = Tasks => \A j \in Tasks : task[j] \notin {"win", "resume"}
      BY DEF Open, Unfinished
    <3>2. Uncalled = 1 => emitter # "resume"
      BY DEF Uncalled, EmitterInv
    <3> QED
      BY <1>2, <1>5, <3>1, <3>2
  <2>2. \A j \in Tasks : task'[j] \in {"win", "resume"} =>
          /\ parent = "suspended" /\ emitter # "resume"
          /\ \A k \in Tasks : task'[k] \in {"win", "resume"} => k = j
    BY <1>0, <1>2, <1>3, <2>1 DEF AnyInv
  <2>3. \A j \in Tasks : /\ task'[j] \notin {"queued", "refused", "emit"}
                         /\ task'[j] = "resume" => winner = j
    BY <1>0, <1>2, <1>3 DEF AnyInv
  <2>4. handler # "stale"
    BY <1>0, StartedNotStale
  <2> QED
    BY <1>0, <1>1, <1>4, <1>6, <1>7, <2>2, <2>3, <2>4 DEF AllInv, AnyInv, Canceled
<1> QED
  BY <1>0, <1>1, <1>8, <1>9, <1>10, <1>11

\* The winner stores its result in the awaiter, which it keeps alive, and emits.
LEMMA StepWin ==
    ASSUME CollectInv, NEW i \in Tasks, Win(i) PROVE CollectInv'
<1> USE DEF CollectInv, signals
<1>0. /\ UNCHANGED <<call, parent, start, next, loop, result, count, handle, alive, terminated, chain,
                     emitter, handler>>
      /\ task[i] = "win" /\ call.kind = "any" /\ winner' = i /\ i # 0
      /\ output' = [output EXCEPT ![i] = result[i]] /\ Goto(i, "resume")
  BY DEF Win, AllInv, CallInv, Tasks
<1>1. CallInv' /\ WindowInv' /\ Tasks' = Tasks /\ Batch' = Batch /\ BatchEnd' = BatchEnd
  BY <1>0, SameWindow
<1>2. /\ task' = [task EXCEPT ![i] = "resume"]
      /\ \A j \in Tasks : task'[j] = IF j = i THEN "resume" ELSE task[j]
  BY <1>0 DEF Goto, TypeOK
<1>3. Open' = Open /\ Uncalled' = Uncalled /\ (Begun' <=> Begun)
  BY <1>0, <1>1, OpenKept DEF Unfinished, Uncalled, Begun
<1>4. /\ parent = "suspended" /\ emitter # "resume" /\ alive = Tasks
      /\ \A j \in Tasks : task[j] \in {"win", "resume"} => j = i
  BY <1>0 DEF AnyInv
<1>5. output'[i] = result[i] /\ output' \in [Tasks -> {"none", "value", "error"}]
  BY <1>0 DEF TypeOK
<1>6. TypeOK'
  <2>1. signalled' \subseteq Tasks /\ i \in 0 .. call.size
    <3>1. i \in 0 .. call.size
      BY DEF Tasks, CallInv
    <3>2. signalled' \subseteq Tasks
      BY DEF Win, TypeOK
    <3> QED
      BY <3>1, <3>2
  <2> QED
    BY <1>0, <1>1, <1>2, <1>5, <2>1 DEF TypeOK
<1>7. OrderInv' /\ EmitterInv' /\ ~misuse'
  <2>1. OrderInv'
    BY <1>0, <1>1, <1>2 DEF OrderInv
  <2>2. EmitterInv'
    BY <1>0 DEF EmitterInv
  <2>3. ~misuse'
    BY <1>4 DEF Win, Touch
  <2> QED
    BY <2>1, <2>2, <2>3
<1>8. ResultInv'
  BY <1>0, <1>1, <1>2, <1>4, <1>5 DEF ResultInv
<1>9. AllInv' /\ AnyInv'
  <2>1. \A j \in Tasks :
          /\ task'[j] \notin {"queued", "refused", "emit"}
          /\ task'[j] \in {"win", "resume"} => j = i
    BY <1>0, <1>2, <1>4 DEF AnyInv
  <2>2. handler # "stale"
    BY <1>0, StartedNotStale
  <2> QED
    BY <1>0, <1>1, <1>3, <1>4, <2>1, <2>2 DEF AllInv, AnyInv
<1> QED
  BY <1>0, <1>1, <1>6, <1>7, <1>8, <1>9

\* The last task of the window, or the winner, resumes the parent, which is suspended.
LEMMA StepResumeParent ==
    ASSUME CollectInv, NEW i \in Tasks, ResumeParent(i) PROVE CollectInv'
<1> USE DEF CollectInv, signals, awaiter
<1>0. /\ UNCHANGED <<call, start, next, result, output, winner, count, handle, alive, terminated,
                     signalled, chain, emitter, handler>>
      /\ task[i] = "resume" /\ Goto(i, "done") /\ parent' = "resumed" /\ Unblock(i)
      /\ i \in Nat /\ i # 0
  BY DEF ResumeParent, Resume, Tasks
<1>1. CallInv' /\ WindowInv' /\ Tasks' = Tasks /\ Batch' = Batch /\ BatchEnd' = BatchEnd
  BY <1>0, SameWindow
<1>2. /\ task' = [task EXCEPT ![i] = "done"]
      /\ \A j \in Tasks : task'[j] = IF j = i THEN "done" ELSE task[j]
  BY <1>0 DEF Goto, TypeOK
<1>3. Open' = Open /\ Uncalled' = Uncalled
  BY <1>0, <1>1, OpenKept DEF Unfinished, Uncalled
<1>4. parent = "suspended" /\ (call.kind = "all" => handle = i /\ i \in Batch)
  BY <1>0 DEF AllInv, AnyInv, CallInv
<1>5. /\ loop' \in {loop, "idle", "start"} /\ (loop' # "idle" => loop # "idle")
      /\ loop' = "start" => next \in Tasks
      /\ loop' = "start" /\ call.kind = "all" => next \in Batch
  BY <1>0, Unblocked
<1>6. TypeOK'
  BY <1>0, <1>1, <1>2, <1>5 DEF TypeOK
<1>7. OrderInv' /\ EmitterInv' /\ ~misuse'
  <2>1. OrderInv'
    BY <1>0, <1>1, <1>2, <1>5 DEF OrderInv
  <2>2. EmitterInv'
    BY <1>0 DEF EmitterInv
  <2>3. ~misuse'
    BY <1>4 DEF ResumeParent, Resume
  <2> QED
    BY <2>1, <2>2, <2>3
<1>8. ResultInv'
  <2>1. winner # 0 => winner \in Tasks
    BY DEF TypeOK, Tasks, CallInv
  <2> QED
    BY <1>0, <1>1, <1>2, <2>1 DEF ResultInv
<1>9. CASE call.kind = "all"
  <2>1. count = 0 /\ Open = {} /\ start + 1 <= next /\ next <= BatchEnd + 1
    BY <1>0, <1>4, <1>9, OpenFacts DEF AllInv
  <2>2. next \notin Batch
    <3>1. next \in Batch => task[next] = "new"
      BY <2>1 DEF OrderInv, Batch, Tasks, TypeOK
    <3> QED
      BY <2>1, <3>1 DEF Open, Unfinished
  <2>3. next = BatchEnd + 1
    <3>1. /\ start \in Nat /\ next \in Nat /\ call.size \in Nat /\ BatchEnd \in start .. call.size
      BY BatchFacts DEF TypeOK, CallInv
    <3>2. ASSUME next # BatchEnd + 1 PROVE FALSE
      <4>1. next \in Tasks /\ start < next /\ next <= BatchEnd
        BY <2>1, <3>1, <3>2 DEF Tasks
      <4> QED
        BY <2>2, <4>1, BatchFacts
    <3> QED
      BY <3>2
  <2>4. \A j \in Tasks : /\ task'[j] \notin {"win", "resume"}
                         /\ j <= start => task'[j] \in {"emit", "done"}
    BY <1>0, <1>2, <1>4, <1>9 DEF AllInv
  <2>5. AllInv' /\ AnyInv'
    BY <1>0, <1>1, <1>2, <1>3, <1>4, <1>5, <1>9, <2>1, <2>2, <2>3, <2>4 DEF AllInv, AnyInv
  <2> QED
    BY <1>1, <1>6, <1>7, <1>8, <2>5
<1>10. CASE call.kind = "any"
  <2>1. Begun /\ Begun' /\ next # 1
    <3>1. next > 1 /\ next # 1
      BY <1>0 DEF OrderInv, TypeOK, CallInv
    <3> QED
      BY <1>0, <3>1 DEF Begun
  <2>2. ~(count = call.size + 1)
    BY <1>0, <1>10, <2>1, FirstDown DEF Open, Unfinished
  <2>3. \A j \in Tasks : task'[j] \notin {"queued", "refused", "emit", "win", "resume"}
    BY <1>0, <1>2, <1>10 DEF AnyInv
  <2>4. emitter # "resume" /\ winner = i
    BY <1>0, <1>10 DEF AnyInv
  <2>5. AllInv' /\ AnyInv'
    BY <1>0, <1>1, <1>3, <1>4, <1>5, <1>10, <2>1, <2>2, <2>3, <2>4 DEF AllInv, AnyInv
  <2> QED
    BY <1>1, <1>6, <1>7, <1>8, <2>5
<1> QED
  BY <1>9, <1>10 DEF CallInv

----
(* The theorems *)

LEMMA StepCollectInv ==
    ASSUME CollectInv, [Next]_vars PROVE CollectInv'
<1>1. ASSUME ParentStep \/ LoopStep PROVE CollectInv'
  BY <1>1, StepBeginAll, StepBeginAny, StepResumeAll, StepYieldWindow, StepResumeAny,
     StepEmplaceHandler, StepStartTask DEF ParentStep, LoopStep
<1>2. ASSUME Terminate \/ EmitterStep PROVE CollectInv'
  BY <1>2, StepEmits, StepCallHandler, StepHandlerResumes DEF EmitterStep
<1>3. ASSUME NEW i \in Tasks, RunQueued(i) \/ SuspendTask(i) \/ Complete(i) \/ Callback(i)
      PROVE  CollectInv'
  BY <1>3, StepRuns, StepFinishAll, StepEmitAll, StepFinishAny, StepWin, StepResumeParent
     DEF Callback
<1>4. CASE UNCHANGED vars
  <2>1. UNCHANGED <<call, parent, loop, next, start, task, result, output, winner, count, handle,
                    alive, signalled, terminated, emitter, chain, handler, misuse>>
    BY <1>4 DEF vars, awaiter, signals
  <2>2. Tasks' = Tasks /\ Batch' = Batch /\ BatchEnd' = BatchEnd /\ Width' = Width
    BY <2>1 DEF Tasks, Batch, BatchEnd, Width
  <2>3. Open' = Open /\ Uncalled' = Uncalled /\ (Begun' <=> Begun) /\ (Canceled' <=> Canceled)
    BY <2>1, <2>2 DEF Open, Uncalled, Begun, Canceled
  <2>4. CallInv' /\ TypeOK' /\ WindowInv' /\ OrderInv' /\ ResultInv' /\ EmitterInv'
    BY <2>1, <2>2, <2>3 DEF CollectInv, CallInv, TypeOK, WindowInv, OrderInv, ResultInv,
                            EmitterInv
  <2>5. AllInv' /\ AnyInv'
    BY <2>1, <2>2, <2>3 DEF CollectInv, AllInv, AnyInv
  <2> QED
    BY <2>1, <2>4, <2>5 DEF CollectInv
<1> QED
  BY <1>1, <1>2, <1>3, <1>4 DEF Next, Terminated

\* The inductive invariant of collectAll and collectAny.
THEOREM CollectInvariant == Spec => []CollectInv
<1>1. Init => CollectInv
  BY InitCollectInv
<1>2. CollectInv /\ [Next]_vars => CollectInv'
  BY StepCollectInv
<1> QED
  BY <1>1, <1>2, PTL DEF Spec

\* "Make local copies ... to avoid deleting objects too early": for every size and window,
\* the loop and the callbacks touch the awaiter only while the parent's co_await keeps it
\* alive, and the parent, suspended, is resumed once, by a task or by the handler.
THEOREM CollectOutlivesTasks == Spec => []AwaiterOutlivesTasks
<1>1. CollectInv => AwaiterOutlivesTasks
  BY DEF CollectInv, AwaiterOutlivesTasks
<1> QED
  BY <1>1, CollectInvariant, PTL

\* A window is never exceeded: what runs is part of it.
LEMMA CollectKeepsWindow ==
    ASSUME CollectInv PROVE WindowRespected
<1> USE DEF CollectInv
<1> SUFFICES ASSUME call.window > 0
             PROVE  Cardinality({i \in Tasks : task[i] \in {"queued", "running", "suspended"}})
                      <= call.window
  BY DEF WindowRespected
<1> DEFINE S == {i \in Tasks : task[i] \in {"queued", "running", "suspended"}}
<1>1. call.kind = "all"
  BY DEF CallInv
<1>2. \A i \in S : i \in Batch
  BY <1>1, StartedKeepsParent DEF Unfinished
<1>3. PICK B : B = Batch
  OBVIOUS
<1>4. S \in SUBSET B /\ IsFiniteSet(B)
  BY <1>2, <1>3, BatchFacts
<1>5. PICK T : T = S
  OBVIOUS
<1>6. IsFiniteSet(T) /\ Cardinality(T) <= Cardinality(B)
  BY <1>4, <1>5, FS_Subset
<1>7. /\ Cardinality(B) = BatchEnd - start /\ BatchEnd <= start + Width
      /\ BatchEnd \in start .. call.size
  BY <1>3, BatchFacts
<1>8. Width <= call.window /\ Width \in Nat /\ call.window \in Nat /\ start \in Nat
      /\ call.size \in Nat
  BY WidthFacts DEF CallInv, TypeOK
<1>9. Cardinality(T) \in Nat
  BY <1>6, FS_CardinalityType
<1>10. Cardinality(T) <= call.window
  BY <1>6, <1>7, <1>8, <1>9
<1> QED
  BY <1>5, <1>10

\* await_resume: for every size and window and whatever the order of completion, collectAll
\* returns every task's own result and collectAny the winner's. Unless the input was empty
\* there is one, or collectAny was cancelled before it started a task and a handler that a
\* FutureAwaiter left in the slot hid it. Both throw only when cancelled or at a Yield
\* without an executor, and no window is exceeded on the way.
THEOREM CollectReturnsResults == Spec => []ReturnsResults
<1>1. CollectInv => ReturnsResults
  <2> SUFFICES ASSUME CollectInv PROVE ReturnsResults
    OBVIOUS
  <2> USE DEF CollectInv
  <2>1. TypeOK /\ WindowRespected /\ (parent = "threw" => Canceled \/ (call.yield /\ ~call.executor))
    BY CollectKeepsWindow DEF ResultInv
  <2>2. ASSUME parent = "returned", call.kind = "all", NEW i \in Tasks
        PROVE  output[i] = result[i] /\ result[i] # "none"
    <3>1. i <= start
      BY <2>2 DEF AllInv, Tasks
    <3>2. task[i] \in {"emit", "done"}
      BY <2>2, <3>1 DEF AllInv
    <3> QED
      BY <2>2, <3>2 DEF ResultInv
  <2>3. ASSUME parent = "returned", call.kind = "any", winner # 0
        PROVE  output[winner] = result[winner] /\ result[winner] # "none"
    BY <2>3 DEF ResultInv, TypeOK, CallInv, Tasks
  <2>4. NoWinner => call.size = 0 \/ (call.stale /\ Canceled /\ next = 1)
    BY DEF NoWinner, AnyInv
  <2> QED
    BY <2>1, <2>2, <2>3, <2>4 DEF ReturnsResults
<1> QED
  BY <1>1, CollectInvariant, PTL

----
(* uthread::collectAll, await and the Latch, for every number of tasks and threads *)

\* What module Uthread assumes of its parameters.
UthreadParameters ==
    /\ Workers # {} /\ N \in Nat
    /\ Programs \subseteq {"future", "latch", "down", "none"}

\* On a stack; and the tasks whose Future or Latch a continuation waits for.
OnPc == {"body", "down", "await", "then", "switch_out", "in", "end", "final"}
OutPc == {"switch_out", "out"}
EarlyPc == {"new", "body", "down", "await", "then", "end"}

\* A thread runs nothing, a uthread, or a task that collectAll started inside the loop.
StackInv == \A w \in Workers :
    \/ stack[w] = <<>>
    \/ \E u \in U!Uthreads : stack[w] = <<u>>
    \/ \E t \in 1 .. N : stack[w] = <<U!Main, t>> /\ pc[U!Main] = "body"

\* Nobody is on two stacks, and who waits to switch out, or is in again, is at home.
PlaceInv ==
    /\ \A w \in Workers : \A u \in U!ToSet(stack[w]) : pc[u] \in OnPc
    /\ \A v, w \in Workers : v # w => U!ToSet(stack[v]) \cap U!ToSet(stack[w]) = {}
    /\ \A u \in U!Uthreads :
         pc[u] \in {"then", "switch_out", "in"} \/ (pc[u] = "final" /\ u \in joined) =>
            u \in U!ToSet(stack[home[u]])

AliveInv == \A u \in U!Uthreads :
    /\ pc[u] \notin {"new", "finished"} => u \in alive
    /\ pc[u] = "new" => u \notin alive
    /\ pc[u] \in {"out", "in"} => u \in joined
    /\ u \in joined => pc[u] \in {"out", "in", "final", "finished"}

\* Where a job may run is fixed by what it does and for whom.
Where(do, u) == IF do = "start" \/ (do = "set" /\ u # U!Main) THEN Workers ELSE {home[u]}

\* A job finds its uthread in the state that it was posted for.
JobOK(j) ==
    /\ j.on = Where(j.do, j.of)
    /\ j.do = "start" => pc[j.of] = "new" /\ j.of <= launched
    /\ j.do = "set" => pc[j.of] \in OutPc /\ j.of \notin inner /\ U!Awaited(j.of) \in result
    /\ j.do = "switch_in" => pc[j.of] \in OutPc /\ j.of \in inner
    /\ j.do = "free" => pc[j.of] \in {"final", "finished"} /\ j.of \in joined /\ j.of \in alive
JobInv == \A j \in jobs : JobOK(j)

AwaitInv == \A u \in U!Uthreads :
    /\ u \in inner => U!Awaited(u) \in result
    /\ U!Awaited(u) \in awaiting => pc[u] \in OutPc \/ u \in inner
    /\ pc[u] \in EarlyPc => U!Awaited(u) \notin awaiting /\ u \notin inner
    /\ pc[u] = "in" => u \in inner

ProgramInv ==
    /\ \A t, u \in 1 .. N : program[t] = "latch" /\ program[u] = "latch" => t = u
    /\ \A t \in 1 .. N : pc[t] # "body" /\ (pc[t] = "down" => program[t] = "down")
    /\ pc[U!Main] # "down"

\* Who has still to count the Latch down.
DownsLeft == {t \in 1 .. N : program[t] = "down" /\ pc[t] \in {"new", "down"}}
CountInv == count = Cardinality(DownsLeft) /\ (U!Latch \in result => count = 0)

\* Who has a reference to collectAll's Context.
Holds(t) == t > launched \/ U!Job("start", t, Workers) \in jobs \/ t \in alive
Holders == {t \in 1 .. N : Holds(t)}
Own == IF pc[U!Main] \in {"new", "body"} THEN 1 ELSE 0
RefInv == refs = Cardinality(Holders) + Own /\ (U!Collect \in result <=> refs = 0)

LaunchInv ==
    /\ \A t \in 1 .. N :
         /\ launched < t => pc[t] = "new"
         /\ pc[t] = "new" /\ t <= launched /\ U!Job("start", t, Workers) \notin jobs => refused
    /\ pc[U!Main] \in {"in", "end", "final", "finished"} => U!Collect \in result

UthreadInv ==
    /\ UthreadParameters /\ U!TypeOK /\ StackInv /\ PlaceInv /\ AliveInv /\ JobInv /\ AwaitInv /\ ProgramInv
    /\ CountInv /\ RefInv /\ LaunchInv /\ (misuse => refused)
----
(* Stacks of one and two uthreads, jobs, and what a uthread comes to first *)

LEMMA ShortStacks ==
    ASSUME NEW a, NEW b
    PROVE  /\ U!ToSet(<<>>) = {} /\ U!ToSet(<<a>>) = {a} /\ U!ToSet(<<a, b>>) = {a, b}
           /\ U!Last(<<a>>) = a /\ U!Last(<<a, b>>) = b
           /\ U!Front(<<a>>) = <<>> /\ U!Front(<<a, b>>) = <<a>>
           /\ Append(<<a>>, b) = <<a, b>>
           /\ <<a>> # <<>> /\ <<a, b>> # <<>> /\ <<a, b>> # <<a>>
           /\ U!IsInjective(<<>>) /\ U!IsInjective(<<a>>) /\ (a # b => U!IsInjective(<<a, b>>))
<1>1. U!ToSet(<<>>) = {} /\ U!ToSet(<<a>>) = {a} /\ U!ToSet(<<a, b>>) = {a, b}
  BY DEF U!ToSet
<1>2. U!Last(<<a>>) = a /\ U!Last(<<a, b>>) = b
  BY DEF U!Last
<1>3. U!Front(<<a>>) = <<>> /\ U!Front(<<a, b>>) = <<a>>
  <2> DEFINE S == {a, b}
  <2>1. PICK one : one = <<a>>
    OBVIOUS
  <2>2. PICK two : two = <<a, b>>
    OBVIOUS
  <2>3. one \in Seq(S) /\ Len(one) = 1 /\ one[1] = a
    BY <2>1
  <2>4. two \in Seq(S) /\ Len(two) = 2 /\ two[1] = a /\ two[2] = b
    BY <2>2
  <2>5. SubSeq(one, 1, 0) = <<>>
    BY <2>3, SubSeqEmpty
  <2>6. /\ SubSeq(two, 1, 1) \in Seq(S) /\ Len(SubSeq(two, 1, 1)) = 1
        /\ SubSeq(two, 1, 1)[1] = a
    <3>1. /\ SubSeq(two, 1, 1) \in Seq(S)
          /\ Len(SubSeq(two, 1, 1)) = IF 1 <= 1 THEN 1 - 1 + 1 ELSE 0
          /\ \A i \in 1 .. 1 - 1 + 1 : SubSeq(two, 1, 1)[i] = two[1 + i - 1]
      BY <2>4, SubSeqProperties
    <3> QED
      BY <2>4, <3>1
  <2>7. SubSeq(two, 1, 1) = one
    BY <2>3, <2>6, SeqEqual
  <2> QED
    BY <2>1, <2>2, <2>3, <2>4, <2>5, <2>7 DEF U!Front
<1>4. Append(<<a>>, b) = <<a, b>> /\ <<a>> # <<>> /\ <<a, b>> # <<>> /\ <<a, b>> # <<a>>
  <2> DEFINE S == {a, b}
  <2>1. PICK one : one = <<a>>
    OBVIOUS
  <2>2. PICK two : two = <<a, b>>
    OBVIOUS
  <2>3. one \in Seq(S) /\ Len(one) = 1 /\ one[1] = a
    BY <2>1
  <2>4. two \in Seq(S) /\ Len(two) = 2 /\ two[1] = a /\ two[2] = b
    BY <2>2
  <2>5. /\ Append(one, b) \in Seq(S) /\ Len(Append(one, b)) = 2
        /\ Append(one, b)[1] = a /\ Append(one, b)[2] = b
    <3>1. b \in S
      OBVIOUS
    <3> HIDE DEF S
    <3>2. Append(one, b) \in Seq(S) /\ Len(Append(one, b)) = Len(one) + 1
      BY <2>3, <3>1, AppendProperties
    <3>3. Append(one, b)[1] = one[1]
      <4>1. \A i \in 1 .. Len(one) : Append(one, b)[i] = one[i]
        BY <2>3, <3>1, AppendProperties, Zenon
      <4>2. 1 \in 1 .. Len(one)
        BY <2>3
      <4> QED
        BY <4>1, <4>2
    <3>4. Append(one, b)[Len(one) + 1] = b
      BY <2>3, <3>1, AppendProperties
    <3> QED
      BY <2>3, <3>2, <3>3, <3>4
  <2>6. Append(one, b) = two
    <3> HIDE DEF S
    <3>1. \A i \in 1 .. Len(two) : Append(one, b)[i] = two[i]
      BY <2>4, <2>5
    <3> QED
      BY <2>4, <2>5, <3>1, SeqEqual
  <2>7. Len(<<>>) = 0
    OBVIOUS
  <2> QED
    BY <2>1, <2>2, <2>3, <2>4, <2>6, <2>7
<1>5. U!IsInjective(<<>>) /\ U!IsInjective(<<a>>) /\ (a # b => U!IsInjective(<<a, b>>))
  BY DEF U!IsInjective
<1> QED
  BY <1>1, <1>2, <1>3, <1>4, <1>5

Jobs == [do : {"start", "set", "switch_in", "free"}, of : U!Uthreads, on : SUBSET Workers]

LEMMA JobFields ==
    ASSUME NEW do, NEW u, NEW on
    PROVE  U!Job(do, u, on).do = do /\ U!Job(do, u, on).of = u /\ U!Job(do, u, on).on = on
BY DEF U!Job

LEMMA JobType ==
    ASSUME NEW do \in {"start", "set", "switch_in", "free"}, NEW u \in U!Uthreads,
           NEW on \in SUBSET Workers
    PROVE  U!Job(do, u, on) \in Jobs
BY DEF U!Job, Jobs

LEMMA SameJob ==
    ASSUME NEW i \in Jobs, NEW j \in Jobs, i.do = j.do, i.of = j.of, i.on = j.on
    PROVE  i = j
BY DEF Jobs

LEMMA FirstFacts ==
    ASSUME UthreadParameters, U!TypeOK, NEW u \in U!Uthreads
    PROVE  /\ U!First(u) \in {"body", "await", "down", "end"}
           /\ U!First(u) = "body" <=> u = U!Main
           /\ u \in 1 .. N => (U!First(u) = "down" <=> program[u] = "down")
<1>1. CASE u = U!Main
  <2>1. U!First(u) = "body" /\ ~(u \in 1 .. N)
    BY <1>1 DEF U!First, U!Main
  <2> QED
    BY <1>1, <2>1
<1>2. CASE u # U!Main
  <2>1. u \in 1 .. N /\ program[u] \in {"future", "latch", "down", "none"}
    <3>1. u \in 1 .. N
      BY <1>2 DEF UthreadParameters, U!Uthreads, U!Main
    <3>2. program[u] \in Programs
      BY <3>1 DEF U!TypeOK
    <3> QED
      BY <3>1, <3>2 DEF UthreadParameters
  <2>2. CASE program[u] = "future"
    BY <1>2, <2>1, <2>2 DEF U!First
  <2>3. CASE program[u] = "latch"
    BY <1>2, <2>1, <2>3 DEF U!First
  <2>4. CASE program[u] = "down"
    BY <1>2, <2>1, <2>4 DEF U!First
  <2>5. CASE program[u] = "none"
    BY <1>2, <2>1, <2>5 DEF U!First
  <2> QED
    BY <2>1, <2>2, <2>3, <2>4, <2>5
<1> QED
  BY <1>1, <1>2

\* No two uthreads await the same Future.
LEMMA AwaitedFacts ==
    ASSUME UthreadParameters, U!TypeOK, ProgramInv
    PROVE  /\ \A u \in U!Uthreads : U!Awaited(u) \in 1 .. U!Collect
           /\ U!Awaited(U!Main) = U!Collect /\ U!Main \in U!Uthreads
           /\ \A u \in U!Uthreads : U!Awaited(u) = U!Collect => u = U!Main
           /\ \A t \in 1 .. N : t \in U!Uthreads /\ t # U!Main /\ t # U!Latch /\ t # U!Collect
           /\ \A u \in U!Uthreads : u # U!Main => u \in 1 .. N
           /\ U!Latch # U!Collect
           /\ \A t \in 1 .. N : program[t] = "latch" => U!Awaited(t) = U!Latch
           /\ \A t \in 1 .. N : program[t] = "future" => U!Awaited(t) = t
           /\ \A u, v \in U!Uthreads : U!Awaited(u) = U!Awaited(v) => u = v
<1>1. N \in Nat
  BY DEF UthreadParameters
<1>2. \A t \in 1 .. N : t \in U!Uthreads /\ t # U!Main /\ t # U!Latch /\ t # U!Collect
  BY <1>1 DEF U!Uthreads, U!Main, U!Latch, U!Collect
<1>3. \A u \in U!Uthreads : u # U!Main => u \in 1 .. N
  BY <1>1 DEF U!Uthreads, U!Main
<1>4. U!Latch # U!Collect /\ U!Main \in U!Uthreads /\ U!Awaited(U!Main) = U!Collect
  BY <1>1 DEF U!Uthreads, U!Main, U!Latch, U!Collect, U!Awaited
<1>5. /\ \A t \in 1 .. N : program[t] = "latch" => U!Awaited(t) = U!Latch
      /\ \A t \in 1 .. N : program[t] # "latch" => U!Awaited(t) = t
  BY <1>2 DEF U!Awaited
<1>6. \A u \in U!Uthreads : U!Awaited(u) = U!Collect => u = U!Main
  BY <1>2, <1>3, <1>4, <1>5
<1>7. \A u, v \in U!Uthreads : U!Awaited(u) = U!Awaited(v) => u = v
  BY <1>2, <1>3, <1>4, <1>5 DEF ProgramInv
<1>8. \A u \in U!Uthreads : U!Awaited(u) \in 1 .. U!Collect
  <2>1. U!Latch \in 1 .. U!Collect /\ U!Collect \in 1 .. U!Collect /\ \A t \in 1 .. N : t \in 1 .. U!Collect
    BY <1>1 DEF U!Latch, U!Collect
  <2> QED
    BY <1>3, <1>4, <1>5, <2>1
<1> QED
  BY <1>2, <1>3, <1>4, <1>5, <1>6, <1>7, <1>8

----
(* Switching on the stacks *)

\* Who runs on a thread is on that thread's stack alone: by itself, or on top of collectAll.
LEMMA Running ==
    ASSUME UthreadInv, NEW w \in Workers, NEW u, U!RunningOn(u, w)
    PROVE  /\ u \in U!Uthreads /\ u \in U!ToSet(stack[w]) /\ pc[u] \in OnPc /\ u \in alive
           /\ \/ stack[w] = <<u>>
              \/ u \in 1 .. N /\ stack[w] = <<U!Main, u>> /\ pc[U!Main] = "body"
           /\ \A v \in Workers : u \in U!ToSet(stack[v]) => v = w
           /\ u = U!Main => stack[w] = <<U!Main>>
<1> USE DEF UthreadInv
<1>1. \/ \E v \in U!Uthreads : stack[w] = <<v>>
      \/ \E t \in 1 .. N : stack[w] = <<U!Main, t>> /\ pc[U!Main] = "body"
  BY DEF StackInv, U!RunningOn
<1>2. \A t \in 1 .. N : t \in U!Uthreads /\ t # U!Main
  BY AwaitedFacts
<1>3. \/ stack[w] = <<u>> /\ u \in U!Uthreads /\ u \in U!ToSet(stack[w])
      \/ /\ u \in 1 .. N /\ stack[w] = <<U!Main, u>> /\ pc[U!Main] = "body"
         /\ u \in U!ToSet(stack[w]) /\ u # U!Main
  <2>1. CASE \E v \in U!Uthreads : stack[w] = <<v>>
    <3>1. PICK v \in U!Uthreads : stack[w] = <<v>>
      BY <2>1
    <3>2. v = u
      BY <3>1, ShortStacks DEF U!RunningOn
    <3> QED
      BY <3>1, <3>2, ShortStacks
  <2>2. CASE \E t \in 1 .. N : stack[w] = <<U!Main, t>> /\ pc[U!Main] = "body"
    <3>1. PICK t \in 1 .. N : stack[w] = <<U!Main, t>> /\ pc[U!Main] = "body"
      BY <2>2
    <3>2. U!Last(<<U!Main, t>>) = t /\ U!ToSet(<<U!Main, t>>) = {U!Main, t}
      BY ShortStacks
    <3>3. t = u
      BY <3>1, <3>2 DEF U!RunningOn
    <3> QED
      BY <1>2, <3>1, <3>2, <3>3
  <2> QED
    BY <1>1, <2>1, <2>2
<1>4. u \in U!Uthreads /\ u \in U!ToSet(stack[w])
  BY <1>2, <1>3
<1>5. pc[u] \in OnPc /\ \A v \in Workers : u \in U!ToSet(stack[v]) => v = w
  BY <1>4 DEF PlaceInv
<1>6. u \in alive
  BY <1>4, <1>5 DEF AliveInv, OnPc
<1> QED
  BY <1>3, <1>4, <1>5, <1>6

\* A uthread goes on where it is.
LEMMA Moves ==
    ASSUME UthreadInv, NEW w \in Workers, NEW u, U!RunningOn(u, w), NEW label \in OnPc,
           U!Goto(u, label), stack' = stack, joined' = joined,
           home' = home \/ home' = [home EXCEPT ![u] = w],
           label \in {"then", "switch_out", "in"} \/ (label = "final" /\ u \in joined) =>
              home'[u] = w
    PROVE  StackInv' /\ PlaceInv'
<1> USE DEF UthreadInv
<1>1. /\ u \in U!Uthreads /\ u \in U!ToSet(stack[w]) /\ pc[u] \in OnPc
      /\ \A v \in Workers : u \in U!ToSet(stack[v]) => v = w
      /\ u = U!Main => stack[w] = <<U!Main>>
  BY Running
<1>2. /\ pc' = [pc EXCEPT ![u] = label]
      /\ \A v \in U!Uthreads : pc'[v] = IF v = u THEN label ELSE pc[v]
      /\ \A v \in U!Uthreads : v # u => home'[v] = home[v]
  BY <1>1 DEF U!Goto, U!TypeOK
<1>3. U!Main \in U!Uthreads
  BY AwaitedFacts
<1>4. ASSUME NEW v \in Workers, NEW t \in 1 .. N, stack[v] = <<U!Main, t>>, pc[U!Main] = "body"
      PROVE  pc'[U!Main] = "body"
  <2>1. ASSUME u = U!Main PROVE FALSE
    <3>1. u \in U!ToSet(stack[v])
      BY <1>4, <2>1, ShortStacks
    <3>2. v = w /\ stack[w] = <<U!Main>>
      BY <1>1, <2>1, <3>1
    <3> QED
      BY <1>4, <3>2, ShortStacks
  <2> QED
    BY <1>2, <1>3, <1>4, <2>1
<1>5. StackInv'
  BY <1>4 DEF StackInv
<1>6. \A v \in Workers : \A x \in U!ToSet(stack[v]) : x \in U!Uthreads
  BY DEF U!TypeOK, U!ToSet
<1>7. PlaceInv'
  <2>1. \A v \in Workers : \A x \in U!ToSet(stack[v]) : pc'[x] \in OnPc
    BY <1>2, <1>6 DEF PlaceInv
  <2>2. ASSUME NEW x \in U!Uthreads,
               pc'[x] \in {"then", "switch_out", "in"} \/ (pc'[x] = "final" /\ x \in joined)
        PROVE  x \in U!ToSet(stack[home'[x]])
    BY <1>1, <1>2, <2>2 DEF PlaceInv
  <2> QED
    BY <2>1, <2>2 DEF PlaceInv
<1> QED
  BY <1>5, <1>7

\* A uthread leaves its stack; what is under it is left there.
LEMMA Leaves ==
    ASSUME UthreadInv, NEW w \in Workers, NEW u, U!RunningOn(u, w), NEW label \in {"out", "finished"},
           U!Goto(u, label), U!Pop(w), joined' \in {joined, joined \cup {u}}, home' = home
    PROVE  StackInv' /\ PlaceInv' /\ stack' \in [Workers -> Seq(U!Uthreads)]
<1> USE DEF UthreadInv
<1>1. /\ u \in U!Uthreads /\ u \in U!ToSet(stack[w]) /\ pc[u] \in OnPc
      /\ \/ stack[w] = <<u>>
         \/ u \in 1 .. N /\ stack[w] = <<U!Main, u>> /\ pc[U!Main] = "body"
      /\ \A v \in Workers : u \in U!ToSet(stack[v]) => v = w
      /\ u = U!Main => stack[w] = <<U!Main>>
  BY Running
<1>2. /\ pc' = [pc EXCEPT ![u] = label]
      /\ \A v \in U!Uthreads : pc'[v] = IF v = u THEN label ELSE pc[v]
  BY <1>1 DEF U!Goto, U!TypeOK
<1>3. U!Main \in U!Uthreads /\ \A t \in 1 .. N : t # U!Main
  BY AwaitedFacts
<1>4. /\ \A v \in Workers : v # w => stack'[v] = stack[v]
      /\ stack'[w] = U!Front(stack[w])
      /\ DOMAIN stack' = Workers
      /\ stack' = [v \in Workers |-> stack'[v]]
  BY DEF U!Pop, U!TypeOK
<1>5. /\ U!ToSet(stack'[w]) = U!ToSet(stack[w]) \ {u}
      /\ stack'[w] = <<>> \/ stack'[w] = <<U!Main>>
  <2>1. CASE stack[w] = <<u>>
    BY <1>4, <2>1, ShortStacks
  <2>2. CASE u \in 1 .. N /\ stack[w] = <<U!Main, u>>
    <3>1. U!Front(<<U!Main, u>>) = <<U!Main>> /\ U!ToSet(<<U!Main, u>>) = {U!Main, u}
      BY ShortStacks
    <3>2. U!ToSet(<<U!Main>>) = {U!Main}
      BY ShortStacks
    <3>3. u # U!Main
      BY <1>3, <2>2
    <3> QED
      BY <1>4, <2>2, <3>1, <3>2, <3>3
  <2> QED
    BY <1>1, <2>1, <2>2
<1>6. ASSUME NEW v \in Workers PROVE U!ToSet(stack'[v]) = U!ToSet(stack[v]) \ {u}
  BY <1>1, <1>4, <1>5
<1>7. StackInv'
  <2> SUFFICES ASSUME NEW v \in Workers
               PROVE  \/ stack'[v] = <<>>
                      \/ \E x \in U!Uthreads : stack'[v] = <<x>>
                      \/ \E t \in 1 .. N : stack'[v] = <<U!Main, t>> /\ pc'[U!Main] = "body"
    BY DEF StackInv
  <2>1. CASE v = w
    BY <1>3, <1>5, <2>1
  <2>2. CASE v # w
    <3>1. ASSUME NEW t \in 1 .. N, stack[v] = <<U!Main, t>>, pc[U!Main] = "body"
          PROVE  pc'[U!Main] = "body"
      <4>1. U!Main \in U!ToSet(stack[v])
        BY <3>1, ShortStacks
      <4>2. u # U!Main
        BY <1>1, <2>2, <4>1
      <4> QED
        BY <1>2, <1>3, <3>1, <4>2
    <3> QED
      BY <1>4, <2>2, <3>1 DEF StackInv
  <2> QED
    BY <2>1, <2>2
<1>8. \A v \in Workers : \A x \in U!ToSet(stack[v]) : x \in U!Uthreads
  BY DEF U!TypeOK, U!ToSet
<1>9. PlaceInv'
  <2>1. \A v \in Workers : \A x \in U!ToSet(stack'[v]) : pc'[x] \in OnPc
    BY <1>2, <1>6, <1>8 DEF PlaceInv
  <2>2. \A v, x \in Workers : v # x => U!ToSet(stack'[v]) \cap U!ToSet(stack'[x]) = {}
    BY <1>6 DEF PlaceInv
  <2>3. ASSUME NEW x \in U!Uthreads,
               pc'[x] \in {"then", "switch_out", "in"} \/ (pc'[x] = "final" /\ x \in joined')
        PROVE  x \in U!ToSet(stack'[home'[x]])
    <3>1. x # u
      BY <1>2, <2>3
    <3>2. x \in U!ToSet(stack[home[x]]) /\ home[x] \in Workers
      BY <1>2, <2>3, <3>1 DEF PlaceInv, U!TypeOK
    <3> QED
      BY <1>6, <3>1, <3>2
  <2> QED
    BY <2>1, <2>2, <2>3 DEF PlaceInv
<1>10. stack' \in [Workers -> Seq(U!Uthreads)]
  <2>1. <<>> \in Seq(U!Uthreads) /\ <<U!Main>> \in Seq(U!Uthreads)
    BY <1>3
  <2>2. \A v \in Workers : stack'[v] \in Seq(U!Uthreads)
    BY <1>4, <1>5, <2>1 DEF U!TypeOK
  <2> QED
    BY <1>4, <2>2
<1> QED
  BY <1>7, <1>9, <1>10

\* An idle thread switches a uthread in that is on no stack.
LEMMA Enters ==
    ASSUME UthreadInv, NEW w \in Workers, U!Idle(w), NEW u \in U!Uthreads, pc[u] \notin OnPc,
           NEW label \in {"body", "await", "down", "end", "in"}, U!Goto(u, label),
           label = "in" => home[u] = w,
           stack' = [stack EXCEPT ![w] = <<u>>], joined' = joined, home' = home
    PROVE  StackInv' /\ PlaceInv' /\ stack' \in [Workers -> Seq(U!Uthreads)]
<1> USE DEF UthreadInv
<1>1. \A v \in Workers : \A x \in U!ToSet(stack[v]) : x \in U!Uthreads /\ x # u
  BY DEF U!TypeOK, U!ToSet, PlaceInv
<1>2. /\ pc' = [pc EXCEPT ![u] = label]
      /\ \A v \in U!Uthreads : pc'[v] = IF v = u THEN label ELSE pc[v]
  BY DEF U!Goto, U!TypeOK
<1>3. /\ \A v \in Workers : v # w => stack'[v] = stack[v]
      /\ stack'[w] = <<u>> /\ stack' = [v \in Workers |-> stack'[v]]
  BY DEF U!TypeOK
<1>4. U!Main \in U!Uthreads
  BY AwaitedFacts
<1>5. U!ToSet(stack[w]) = {} /\ U!ToSet(stack'[w]) = {u}
  BY <1>3, ShortStacks DEF U!Idle
<1>6. StackInv'
  <2> SUFFICES ASSUME NEW v \in Workers
               PROVE  \/ stack'[v] = <<>>
                      \/ \E x \in U!Uthreads : stack'[v] = <<x>>
                      \/ \E t \in 1 .. N : stack'[v] = <<U!Main, t>> /\ pc'[U!Main] = "body"
    BY DEF StackInv
  <2>1. CASE v = w
    BY <1>3, <2>1
  <2>2. CASE v # w
    <3>1. ASSUME NEW t \in 1 .. N, stack[v] = <<U!Main, t>>, pc[U!Main] = "body"
          PROVE  pc'[U!Main] = "body"
      <4>1. U!Main \in U!ToSet(stack[v])
        BY <3>1, ShortStacks
      <4> QED
        BY <1>1, <1>2, <1>4, <3>1, <4>1
    <3> QED
      BY <1>3, <2>2, <3>1 DEF StackInv
  <2> QED
    BY <2>1, <2>2
<1>7. PlaceInv'
  <2>1. \A v \in Workers : \A x \in U!ToSet(stack'[v]) : pc'[x] \in OnPc
    BY <1>1, <1>2, <1>3, <1>5 DEF PlaceInv, OnPc
  <2>2. \A v, x \in Workers : v # x => U!ToSet(stack'[v]) \cap U!ToSet(stack'[x]) = {}
    BY <1>1, <1>3, <1>5 DEF PlaceInv
  <2>3. ASSUME NEW x \in U!Uthreads,
               pc'[x] \in {"then", "switch_out", "in"} \/ (pc'[x] = "final" /\ x \in joined')
        PROVE  x \in U!ToSet(stack'[home'[x]])
    <3>1. CASE x = u
      BY <1>2, <1>5, <2>3, <3>1
    <3>2. CASE x # u
      <4>1. x \in U!ToSet(stack[home[x]]) /\ home[x] \in Workers
        BY <1>2, <2>3, <3>2 DEF PlaceInv, U!TypeOK
      <4> QED
        BY <1>3, <1>5, <4>1
    <3> QED
      BY <3>1, <3>2
  <2> QED
    BY <2>1, <2>2, <2>3 DEF PlaceInv
<1>8. stack' \in [Workers -> Seq(U!Uthreads)]
  <2>1. <<u>> \in Seq(U!Uthreads)
    OBVIOUS
  <2>2. \A v \in Workers : stack'[v] \in Seq(U!Uthreads)
    BY <1>3, <2>1 DEF U!TypeOK
  <2> QED
    BY <1>3, <2>2
<1> QED
  BY <1>6, <1>7, <1>8


\* collectAll, alone on its thread, starts a task in place.
LEMMA EntersOnTop ==
    ASSUME UthreadInv, NEW w \in Workers, U!RunningOn(U!Main, w), pc[U!Main] = "body",
           NEW t \in 1 .. N, pc[t] = "new", NEW label \in {"await", "down", "end"},
           U!Goto(t, label), stack' = [stack EXCEPT ![w] = Append(@, t)], joined' = joined,
           home' = [home EXCEPT ![U!Main] = w]
    PROVE  StackInv' /\ PlaceInv' /\ stack' \in [Workers -> Seq(U!Uthreads)]
<1> USE DEF UthreadInv
<1>1. t \in U!Uthreads /\ t # U!Main /\ U!Main \in U!Uthreads
  BY AwaitedFacts
<1>2. /\ \A v \in U!Uthreads : pc'[v] = IF v = t THEN label ELSE pc[v]
      /\ \A v \in U!Uthreads : v # U!Main => home'[v] = home[v]
  BY <1>1 DEF U!Goto, U!TypeOK
<1>3. /\ stack[w] = <<U!Main>> /\ \A v \in Workers : U!Main \in U!ToSet(stack[v]) => v = w
  BY Running
<1>4. Append(<<U!Main>>, t) = <<U!Main, t>> /\ U!ToSet(<<U!Main, t>>) = {U!Main, t} /\ U!ToSet(<<U!Main>>) = {U!Main}
  BY ShortStacks
<1>5. /\ \A v \in Workers : v # w => stack'[v] = stack[v]
      /\ stack'[w] = <<U!Main, t>> /\ stack' = [v \in Workers |-> stack'[v]]
  BY <1>3, <1>4 DEF U!TypeOK
<1>6. \A v \in Workers : \A x \in U!ToSet(stack[v]) : x \in U!Uthreads /\ x # t
  <2>1. pc[t] \notin OnPc
    BY DEF OnPc
  <2> QED
    BY <2>1 DEF U!TypeOK, U!ToSet, PlaceInv
<1>7. U!ToSet(stack[w]) = {U!Main} /\ U!ToSet(stack'[w]) = {U!Main, t}
  BY <1>3, <1>4, <1>5
<1>8. StackInv'
  <2> SUFFICES ASSUME NEW v \in Workers
               PROVE  \/ stack'[v] = <<>>
                      \/ \E x \in U!Uthreads : stack'[v] = <<x>>
                      \/ \E x \in 1 .. N : stack'[v] = <<U!Main, x>> /\ pc'[U!Main] = "body"
    BY DEF StackInv
  <2>1. pc'[U!Main] = "body"
    BY <1>1, <1>2
  <2>2. CASE v = w
    BY <1>5, <2>1, <2>2
  <2>3. CASE v # w
    BY <1>5, <2>1, <2>3 DEF StackInv
  <2> QED
    BY <2>2, <2>3
<1>9. PlaceInv'
  <2>1. \A v \in Workers : \A x \in U!ToSet(stack'[v]) : pc'[x] \in OnPc
    BY <1>1, <1>2, <1>5, <1>6, <1>7 DEF PlaceInv, OnPc
  <2>2. \A v, x \in Workers : v # x => U!ToSet(stack'[v]) \cap U!ToSet(stack'[x]) = {}
    BY <1>3, <1>5, <1>6, <1>7 DEF PlaceInv
  <2>3. ASSUME NEW x \in U!Uthreads,
               pc'[x] \in {"then", "switch_out", "in"} \/ (pc'[x] = "final" /\ x \in joined')
        PROVE  x \in U!ToSet(stack'[home'[x]])
    <3>1. x # t /\ x # U!Main
      BY <1>1, <1>2, <2>3
    <3>2. x \in U!ToSet(stack[home[x]]) /\ home[x] \in Workers
      BY <1>2, <2>3, <3>1 DEF PlaceInv, U!TypeOK
    <3> QED
      BY <1>2, <1>5, <1>7, <3>1, <3>2
  <2> QED
    BY <2>1, <2>2, <2>3 DEF PlaceInv
<1>10. stack' \in [Workers -> Seq(U!Uthreads)]
  <2>1. <<U!Main, t>> \in Seq(U!Uthreads)
    BY <1>1
  <2>2. \A v \in Workers : stack'[v] \in Seq(U!Uthreads)
    BY <1>5, <2>1 DEF U!TypeOK
  <2> QED
    BY <1>5, <2>2
<1> QED
  BY <1>8, <1>9, <1>10

----
(* The executor's jobs *)

\* What a step leaves of what a job was posted for.
JobHeld(j) ==
    /\ home'[j.of] = home[j.of]
    /\ \/ pc'[j.of] = pc[j.of]
       \/ pc[j.of] = "switch_out" /\ pc'[j.of] = "out"
       \/ pc[j.of] = "final" /\ pc'[j.of] = "finished"
    /\ j.of \in joined => j.of \in joined'
    /\ j.do = "free" /\ j.of \in alive => j.of \in alive'
JobKept(j) == JobHeld(j) /\ (j.do = "set" /\ j.of \in inner' => j.of \in inner)

\* A uthread that runs, and has not yet set what it awaits or its end, has no job.
LEMMA NoJobs ==
    ASSUME UthreadInv, NEW u \in U!Uthreads,
           \/ pc[u] \in {"body", "down", "await", "then", "in", "end"}
           \/ pc[u] = "new" /\ u > launched
    PROVE  \A j \in jobs : j.of # u
<1> USE DEF UthreadInv
<1> SUFFICES ASSUME NEW j \in jobs, j.of = u PROVE FALSE
  OBVIOUS
<1>1. j.do \in {"start", "set", "switch_in", "free"} /\ JobOK(j)
  BY DEF U!TypeOK, JobInv
<1>2. u \in Nat /\ launched \in Nat
  BY DEF U!TypeOK, U!Uthreads, UthreadParameters
<1> QED
  BY <1>1, <1>2 DEF JobOK, OutPc

LEMMA JobsStay ==
    ASSUME UthreadInv, NEW STATE queued, queued \subseteq jobs, program' = program,
           result \subseteq result', inner \subseteq inner', launched <= launched',
           launched' \in Nat, \A j \in queued : JobKept(j),
           \A j \in jobs' : j \in queued \/ (j \in Jobs /\ JobOK(j)')
    PROVE  JobInv' /\ jobs' \subseteq Jobs
<1> USE DEF UthreadInv
<1>1. jobs \subseteq Jobs
  BY DEF U!TypeOK, Jobs
<1>2. ASSUME NEW j \in queued PROVE JobOK(j)'
  <2>1. JobOK(j) /\ JobKept(j) /\ j \in Jobs
    BY <1>1 DEF JobInv
  <2>2. j.of \in U!Uthreads /\ j.do \in {"start", "set", "switch_in", "free"} /\ j.of \in Nat
    BY <2>1 DEF Jobs, U!Uthreads, UthreadParameters
  <2>3. U!Awaited(j.of)' = U!Awaited(j.of)
    BY DEF U!Awaited
  <2>4. j.on = Where(j.do, j.of)'
    BY <2>1 DEF JobOK, JobKept, JobHeld, Where
  <2>5. j.do = "start" => pc'[j.of] = "new" /\ j.of <= launched'
    BY <2>1, <2>2 DEF JobOK, JobKept, JobHeld, U!TypeOK
  <2>6. j.do = "set" => pc'[j.of] \in OutPc /\ j.of \notin inner' /\ U!Awaited(j.of)' \in result'
    BY <2>1, <2>2, <2>3 DEF JobOK, JobKept, JobHeld, OutPc
  <2>7. j.do = "switch_in" => pc'[j.of] \in OutPc /\ j.of \in inner'
    BY <2>1, <2>2 DEF JobOK, JobKept, JobHeld, OutPc
  <2>8. j.do = "free" => /\ pc'[j.of] \in {"final", "finished"}
                         /\ j.of \in joined' /\ j.of \in alive'
    BY <2>1, <2>2 DEF JobOK, JobKept, JobHeld
  <2> QED
    BY <2>4, <2>5, <2>6, <2>7, <2>8 DEF JobOK
<1> QED
  BY <1>1, <1>2 DEF JobInv

\* The same when nothing is posted.
LEMMA JobsKept ==
    ASSUME UthreadInv, program' = program, result \subseteq result', inner \subseteq inner',
           launched <= launched', launched' \in Nat, jobs' \subseteq jobs,
           \A j \in jobs' : JobKept(j)
    PROVE  JobInv' /\ jobs' \subseteq Jobs
<1>1. PICK queued : queued = jobs'
  OBVIOUS
<1>2. /\ \A j \in queued : JobKept(j)
      /\ \A j \in jobs' : j \in queued \/ (j \in Jobs /\ JobOK(j)')
  BY <1>1
<1> QED
  BY <1>1, <1>2, JobsStay

----
(* Sets of tasks *)

LEMMA TaskSets ==
    ASSUME N \in Nat, NEW S \in SUBSET (1 .. N)
    PROVE  /\ IsFiniteSet(S) /\ Cardinality(S) \in 0 .. N
           /\ Cardinality(S) = 0 => S = {}
           /\ \A x \in S : Cardinality(S) > 0 /\ Cardinality(S \ {x}) = Cardinality(S) - 1
<1>1. IsFiniteSet(1 .. N) /\ Cardinality(1 .. N) = N
  <2>1. N \in Int /\ 1 \in Int
    OBVIOUS
  <2>2. IsFiniteSet(1 .. N) /\ Cardinality(1 .. N) = IF 1 > N THEN 0 ELSE N - 1 + 1
    BY <2>1, FS_Interval
  <2> QED
    BY <2>2
<1>2. IsFiniteSet(S) /\ Cardinality(S) \in Nat /\ Cardinality(S) <= N
  BY <1>1, FS_Subset, FS_CardinalityType
<1>3. Cardinality(S) = 0 => S = {}
  BY <1>2, FS_EmptySet
<1>4. ASSUME NEW x \in S
      PROVE  Cardinality(S) > 0 /\ Cardinality(S \ {x}) = Cardinality(S) - 1
  <2>1. Cardinality(S \ {x}) = Cardinality(S) - 1
    BY <1>2, FS_RemoveElement
  <2>2. Cardinality(S) # 0
    BY <1>3
  <2> QED
    BY <1>2, <2>1, <2>2
<1> QED
  BY <1>2, <1>3, <1>4

----
(* What a step leaves alone *)

\* The jobs that start a task are the same.
SameStarts == \A t \in 1 .. N :
    U!Job("start", t, Workers) \in jobs' <=> U!Job("start", t, Workers) \in jobs

LEMMA StartsKept ==
    ASSUME \A j \in jobs' : j \in jobs \/ j.do # "start",
           \A j \in jobs : j \in jobs' \/ j.do # "start"
    PROVE  SameStarts
BY JobFields DEF SameStarts

\* A refusal, and only a refusal, lets a stack be used twice.
Recorded == /\ misuse' => refused'
            /\ refused => refused'
            /\ refused' \in BOOLEAN /\ misuse' \in BOOLEAN

LEMMA NothingRecorded ==
    ASSUME UthreadInv, UNCHANGED <<refused, misuse>> PROVE Recorded
BY DEF UthreadInv, U!TypeOK, Recorded

LEMMA CountKept ==
    ASSUME UthreadInv, program' = program, count' = count, U!Latch \in result' => U!Latch \in result,
           \A t \in 1 .. N : program[t] = "down" =>
              (pc'[t] \in {"new", "down"} <=> pc[t] \in {"new", "down"})
    PROVE  CountInv'
<1>1. DownsLeft' = DownsLeft
  BY DEF DownsLeft
<1>2. count = Cardinality(DownsLeft) /\ (U!Latch \in result => count = 0)
  BY DEF UthreadInv, CountInv
<1>3. PICK S : S = DownsLeft
  OBVIOUS
<1> QED
  BY <1>1, <1>2, <1>3 DEF CountInv

LEMMA RefsKept ==
    ASSUME UthreadInv, refs' = refs, U!Collect \in result' <=> U!Collect \in result,
           \A t \in 1 .. N : Holds(t)' <=> Holds(t),
           pc'[U!Main] \in {"new", "body"} <=> pc[U!Main] \in {"new", "body"}
    PROVE  RefInv'
<1>1. Holders' = Holders /\ Own' = Own
  BY DEF Holders, Own
<1>2. refs = Cardinality(Holders) + Own /\ (U!Collect \in result <=> refs = 0)
  BY DEF UthreadInv, RefInv
<1>3. PICK S : S = Holders
  OBVIOUS
<1> QED
  BY <1>1, <1>2, <1>3 DEF RefInv

\* A step of a uthread that has started and neither launches nor counts down.
GoesOn(v) ==
    \/ pc'[v] = pc[v]
    \/ /\ pc[v] \notin {"new", "down", "body"} /\ pc'[v] \notin {"new", "down", "body"}
       /\ v = U!Main /\ pc'[v] \in {"in", "end", "final", "finished"} => U!Collect \in result

LEMMA BooksKept ==
    ASSUME UthreadInv, UNCHANGED <<program, count, refs, launched, alive>>, SameStarts,
           refused => refused', \A v \in U!Uthreads : GoesOn(v),
           \A x \in {U!Latch, U!Collect} : x \in result' <=> x \in result
    PROVE  ProgramInv' /\ CountInv' /\ RefInv' /\ LaunchInv'
<1> USE DEF UthreadInv
<1>1. U!Main \in U!Uthreads /\ \A t \in 1 .. N : t \in U!Uthreads /\ t # U!Main
  BY AwaitedFacts
<1>2. ProgramInv'
  BY <1>1 DEF ProgramInv, GoesOn
<1>3. CountInv'
  <2>1. \A t \in 1 .. N : pc'[t] \in {"new", "down"} <=> pc[t] \in {"new", "down"}
    BY <1>1 DEF GoesOn
  <2> QED
    BY <2>1, CountKept
<1>4. RefInv'
  <2>1. \A t \in 1 .. N : Holds(t)' <=> Holds(t)
    BY DEF Holds, SameStarts
  <2>2. pc'[U!Main] \in {"new", "body"} <=> pc[U!Main] \in {"new", "body"}
    BY <1>1 DEF GoesOn
  <2> QED
    BY <2>1, <2>2, RefsKept
<1>5. LaunchInv'
  <2>1. ASSUME NEW t \in 1 .. N
        PROVE  /\ launched' < t => pc'[t] = "new"
               /\ pc'[t] = "new" /\ t <= launched' /\ U!Job("start", t, Workers) \notin jobs' => refused'
    BY <1>1 DEF LaunchInv, GoesOn, SameStarts
  <2>2. pc'[U!Main] \in {"in", "end", "final", "finished"} => U!Collect \in result'
    BY <1>1 DEF LaunchInv, GoesOn
  <2> QED
    BY <2>1, <2>2 DEF LaunchInv
<1> QED
  BY <1>2, <1>3, <1>4, <1>5

----
(* Promises *)

\* p.setValue of uthread::await: the switch_in that is posted finds its uthread out, or on
\* the way out, of the thread where it will run.
LEMMA InnerSet ==
    ASSUME UthreadInv, NEW v \in U!Uthreads, NEW STATE queued, queued \subseteq jobs,
           U!SetInner(v, queued), home'[v] = home[v], pc'[v] \in OutPc,
           program' = program, result \subseteq result', launched <= launched', launched' \in Nat,
           \A j \in queued : JobHeld(j) /\ (j.do = "set" => j.of # v)
    PROVE  /\ inner' = inner \cup {v} /\ Recorded
           /\ JobInv' /\ jobs' \subseteq Jobs
           /\ \A j \in queued : j \in jobs'
           /\ \A j \in jobs' : j \in queued \/ j.do = "switch_in"
<1> USE DEF UthreadInv
<1>1. PICK n : n = U!Job("switch_in", v, {home[v]})
  OBVIOUS
<1>2. /\ inner' = inner \cup {v} /\ queued \subseteq jobs'
      /\ \A j \in jobs' : j \in queued \/ j = n
  BY <1>1 DEF U!SetInner
<1>3. Recorded
  <2>1. CASE UNCHANGED <<refused, misuse>>
    BY <2>1, NothingRecorded
  <2>2. CASE refused' = TRUE /\ misuse' = TRUE
    BY <2>2 DEF Recorded
  <2> QED
    BY <2>1, <2>2 DEF U!SetInner
<1>4. n.do = "switch_in" /\ n.of = v /\ n.on = {home[v]}
  BY <1>1, JobFields
<1>5. n \in Jobs
  <2>1. {home[v]} \in SUBSET Workers
    BY DEF U!TypeOK
  <2> QED
    BY <1>1, <2>1, JobType
<1>6. JobOK(n)'
  BY <1>2, <1>4 DEF JobOK, Where
<1>7. \A j \in queued : JobKept(j)
  BY <1>2 DEF JobKept
<1>8. JobInv' /\ jobs' \subseteq Jobs
  BY <1>2, <1>5, <1>6, <1>7, JobsStay
<1> QED
  BY <1>2, <1>3, <1>4, <1>8

\* A continuation is scheduled, or checked in.
LEMMA SetPosted ==
    ASSUME UthreadInv, NEW v \in U!Uthreads, NEW STATE queued, queued \subseteq jobs,
           NEW n, n = U!Job("set", v, IF v = U!Main THEN {home[U!Main]} ELSE Workers),
           jobs' = queued \cup {n}, inner' = inner,
           home'[v] = home[v], pc'[v] \in OutPc, v \notin inner, U!Awaited(v) \in result',
           program' = program, result \subseteq result', launched <= launched', launched' \in Nat,
           \A j \in queued : JobHeld(j)
    PROVE  JobInv' /\ jobs' \subseteq Jobs
<1> USE DEF UthreadInv
<1>1. n.do = "set" /\ n.of = v /\ n.on = IF v = U!Main THEN {home[U!Main]} ELSE Workers
  BY JobFields
<1>2. n \in Jobs
  <2>1. U!Main \in U!Uthreads
    BY AwaitedFacts
  <2>2. {home[U!Main]} \in SUBSET Workers /\ Workers \in SUBSET Workers
    BY <2>1 DEF U!TypeOK
  <2>3. CASE v = U!Main
    BY <2>2, <2>3, JobType
  <2>4. CASE v # U!Main
    BY <2>2, <2>4, JobType
  <2> QED
    BY <2>3, <2>4
<1>3. U!Awaited(v)' = U!Awaited(v)
  BY DEF U!Awaited
<1>4. JobOK(n)'
  BY <1>1, <1>3 DEF JobOK, Where
<1>5. \A j \in queued : JobKept(j)
  BY DEF JobKept
<1>6. \A j \in jobs' : j \in queued \/ j = n
  OBVIOUS
<1> QED
  BY <1>2, <1>4, <1>5, <1>6, JobsStay

----
(* One lemma per action *)

\* A part of what the owner of a Future, or collectAll, waits for: the uthread is out, or
\* on the way out, while its continuation is set and not yet called.
LEMMA AwaitingIsOut ==
    ASSUME UthreadInv, NEW u \in U!Uthreads, U!Awaited(u) \in awaiting, U!Awaited(u) \notin result
    PROVE  pc[u] \in OutPc /\ u \notin inner /\ \A j \in jobs : j.do = "set" => j.of # u
BY DEF UthreadInv, AwaitInv, JobInv, JobOK

\* Nothing moves: the stacks are as they were.
LEMMA StacksKept ==
    ASSUME UthreadInv, UNCHANGED <<pc, stack, home, joined>>
    PROVE  StackInv' /\ PlaceInv' /\ \A j \in jobs : (j.do = "free" /\ j.of \in alive => j.of \in alive') => JobHeld(j)
BY DEF UthreadInv, StackInv, PlaceInv, JobHeld

LEMMA StepSetFuture ==
    ASSUME UthreadInv, NEW t \in 1 .. N, U!SetFuture(t) PROVE UthreadInv'
<1> USE DEF UthreadInv
<1>1. /\ program[t] = "future" /\ t \notin result /\ result' = result \cup {t}
      /\ UNCHANGED <<policy, program, pc, stack, awaiting, home, joined, alive, count, refs, launched>>
  BY DEF U!SetFuture
<1>2. /\ t \in U!Uthreads /\ t # U!Main /\ t # U!Latch /\ t # U!Collect /\ U!Awaited(t) = t
      /\ \A u \in U!Uthreads : U!Awaited(u) \in 1 .. U!Collect /\ U!Awaited(u)' = U!Awaited(u)
  BY <1>1, AwaitedFacts DEF U!Awaited
<1>3. StackInv' /\ PlaceInv' /\ \A j \in jobs : JobHeld(j)
  BY <1>1, StacksKept
<1>4. result \subseteq result' /\ launched' \in Nat /\ launched <= launched'
  BY <1>1 DEF U!TypeOK
<1>5. /\ JobInv' /\ jobs' \subseteq Jobs /\ SameStarts /\ Recorded
      /\ inner' = inner \/ (inner' = inner \cup {t} /\ pc[t] \in OutPc)
  <2>1. CASE UNCHANGED <<jobs, inner, refused, misuse>>
    <3>1. \A j \in jobs' : JobKept(j)
      BY <1>3, <2>1 DEF JobKept
    <3>2. JobInv' /\ jobs' \subseteq Jobs
      BY <1>1, <1>4, <2>1, <3>1, JobsKept
    <3>3. SameStarts /\ Recorded
      BY <2>1, NothingRecorded DEF SameStarts
    <3> QED
      BY <2>1, <3>2, <3>3
  <2>2. CASE t \in awaiting /\ jobs' = jobs \cup {U!Job("set", t, Workers)} /\ UNCHANGED <<inner, refused, misuse>>
    <3>1. pc[t] \in OutPc /\ t \notin inner
      BY <1>1, <1>2, <2>2, AwaitingIsOut
    <3>2. PICK n : n = U!Job("set", t, Workers)
      OBVIOUS
    <3>3. n = U!Job("set", t, IF t = U!Main THEN {home[U!Main]} ELSE Workers)
      BY <1>2, <3>2
    <3>4. JobInv' /\ jobs' \subseteq Jobs
      BY <1>1, <1>2, <1>3, <1>4, <2>2, <3>1, <3>2, <3>3, SetPosted
    <3>5. n.do = "set"
      BY <3>2, JobFields
    <3>6. SameStarts
      BY <2>2, <3>2, <3>5, StartsKept
    <3> QED
      BY <2>2, <3>4, <3>6, NothingRecorded
  <2>3. CASE t \in awaiting /\ U!SetInner(t, jobs)
    <3>1. pc[t] \in OutPc /\ t \notin inner /\ \A j \in jobs : j.do = "set" => j.of # t
      BY <1>1, <1>2, <2>3, AwaitingIsOut
    <3>2. /\ inner' = inner \cup {t} /\ Recorded /\ JobInv' /\ jobs' \subseteq Jobs
          /\ \A j \in jobs : j \in jobs'
          /\ \A j \in jobs' : j \in jobs \/ j.do = "switch_in"
      BY <1>1, <1>2, <1>3, <1>4, <2>3, <3>1, InnerSet
    <3>3. SameStarts
      BY <3>2, StartsKept
    <3> QED
      BY <3>1, <3>2, <3>3
  <2> QED
    BY <2>1, <2>2, <2>3 DEF U!SetFuture
<1>6. ProgramInv' /\ CountInv' /\ RefInv' /\ LaunchInv'
  <2>1. \A v \in U!Uthreads : GoesOn(v)
    BY <1>1 DEF GoesOn
  <2>2. \A x \in {U!Latch, U!Collect} : x \in result' <=> x \in result
    BY <1>1, <1>2
  <2>3. refused => refused'
    BY <1>5 DEF Recorded
  <2> QED
    BY <1>1, <1>5, <2>1, <2>2, <2>3, BooksKept
<1>7. U!TypeOK'
  BY <1>1, <1>2, <1>5 DEF U!TypeOK, Jobs, Recorded
<1>8. AliveInv'
  BY <1>1 DEF AliveInv
<1>9. AwaitInv'
  BY <1>1, <1>2, <1>5 DEF AwaitInv, OutPc, EarlyPc
<1> QED
  BY <1>3, <1>5, <1>6, <1>7, <1>8, <1>9 DEF Recorded, UthreadParameters

\* One job of a kind per uthread.
LEMMA OneJob ==
    ASSUME UthreadInv, NEW i \in jobs, NEW j \in jobs, i.do = j.do, i.of = j.of
    PROVE  i = j
<1>1. i \in Jobs /\ j \in Jobs
  BY DEF UthreadInv, U!TypeOK, Jobs
<1>2. i.on = j.on
  BY DEF UthreadInv, JobInv, JobOK
<1> QED
  BY <1>1, <1>2, SameJob

LEMMA JobOf ==
    ASSUME UthreadInv, NEW j \in jobs
    PROVE  /\ j.of \in U!Uthreads /\ j.do \in {"start", "set", "switch_in", "free"} /\ JobOK(j)
           /\ j.do # "start" => \A i \in jobs \ {j} : i.do = j.do => i.of # j.of
           /\ j.do # "start" => \A t : j # U!Job("start", t, Workers)
<1>1. j.of \in U!Uthreads /\ j.do \in {"start", "set", "switch_in", "free"} /\ JobOK(j)
  BY DEF UthreadInv, U!TypeOK, JobInv
<1>2. \A i \in jobs \ {j} : i.do = j.do => i.of # j.of
  BY OneJob
<1>3. j.do # "start" => \A t : j # U!Job("start", t, Workers)
  BY JobFields
<1> QED
  BY <1>1, <1>2, <1>3

LEMMA StepRunSet ==
    ASSUME UthreadInv, NEW w \in Workers, NEW j \in jobs, U!RunSet(j, w) PROVE UthreadInv'
<1> USE DEF UthreadInv
<1>1. PICK u : u = j.of
  OBVIOUS
<1>2. /\ j.do = "set" /\ U!SetInner(u, jobs \ {j})
      /\ UNCHANGED <<policy, program, pc, stack, result, awaiting, home, joined, alive, count,
                     refs, launched>>
  BY <1>1 DEF U!RunSet
<1>3. /\ u \in U!Uthreads /\ pc[u] \in OutPc /\ u \notin inner /\ U!Awaited(u) \in result
      /\ \A i \in jobs \ {j} : i.do = "set" => i.of # u
  BY <1>1, <1>2, JobOf DEF JobOK
<1>4. \A v \in U!Uthreads : U!Awaited(v)' = U!Awaited(v)
  BY <1>2 DEF U!Awaited
<1>5. StackInv' /\ PlaceInv' /\ \A i \in jobs : JobHeld(i)
  BY <1>2, StacksKept
<1>6. result \subseteq result' /\ launched' \in Nat /\ launched <= launched'
  BY <1>2 DEF U!TypeOK
<1>7. /\ inner' = inner \cup {u} /\ Recorded /\ JobInv' /\ jobs' \subseteq Jobs
      /\ \A i \in jobs \ {j} : i \in jobs'
      /\ \A i \in jobs' : i \in jobs \ {j} \/ i.do = "switch_in"
  <2>1. jobs \ {j} \subseteq jobs
    OBVIOUS
  <2>2. \A i \in jobs \ {j} : JobHeld(i) /\ (i.do = "set" => i.of # u)
    BY <1>3, <1>5
  <2>3. home'[u] = home[u] /\ pc'[u] \in OutPc
    BY <1>2, <1>3
  <2> QED
    BY <1>2, <1>3, <1>6, <2>1, <2>2, <2>3, InnerSet
<1>8. ProgramInv' /\ CountInv' /\ RefInv' /\ LaunchInv'
  <2>1. \A v \in U!Uthreads : GoesOn(v)
    BY <1>2 DEF GoesOn
  <2>2. SameStarts
    BY <1>2, <1>7, StartsKept
  <2>3. refused => refused'
    BY <1>7 DEF Recorded
  <2> QED
    BY <1>2, <2>1, <2>2, <2>3, BooksKept
<1>9. U!TypeOK'
  BY <1>2, <1>3, <1>7 DEF U!TypeOK, Jobs, Recorded
<1>10. AliveInv'
  BY <1>2 DEF AliveInv
<1>11. AwaitInv'
  BY <1>2, <1>3, <1>4, <1>7 DEF AwaitInv, OutPc, EarlyPc
<1> QED
  BY <1>5, <1>7, <1>8, <1>9, <1>10, <1>11 DEF Recorded, UthreadParameters

LEMMA StepSwitchIn ==
    ASSUME UthreadInv, NEW w \in Workers, NEW j \in jobs, U!SwitchIn(j, w) PROVE UthreadInv'
<1> USE DEF UthreadInv
<1>1. PICK u : u = j.of
  OBVIOUS
<1>2. /\ j.do = "switch_in" /\ w \in j.on /\ U!Idle(w) /\ jobs' = jobs \ {j}
      /\ UNCHANGED <<policy, program, result, awaiting, inner, home, joined, alive, count,
                     refs, launched, refused>>
  BY DEF U!SwitchIn
<1>3. /\ u \in U!Uthreads /\ pc[u] \in OutPc /\ u \in inner /\ home[u] = w
      /\ \A i \in jobs \ {j} : i.do = "switch_in" => i.of # u
  BY <1>1, <1>2, JobOf DEF JobOK, Where
<1>4. pc[u] = "out" /\ u \in alive
  <2>1. U!ToSet(stack[w]) = {}
    BY <1>2, ShortStacks DEF U!Idle
  <2>2. pc[u] # "switch_out"
    BY <1>3, <2>1 DEF PlaceInv
  <2> QED
    BY <1>3, <2>2 DEF OutPc, AliveInv
<1>5. stack' = [stack EXCEPT ![w] = <<u>>] /\ U!Goto(u, "in") /\ misuse' = misuse
  BY <1>1, <1>4 DEF U!SwitchIn
<1>6. \A v \in U!Uthreads : U!Awaited(v)' = U!Awaited(v) /\ pc'[v] = IF v = u THEN "in" ELSE pc[v]
  BY <1>2, <1>5 DEF U!Awaited, U!Goto, U!TypeOK
<1>7. StackInv' /\ PlaceInv' /\ stack' \in [Workers -> Seq(U!Uthreads)]
  <2>1. pc[u] \notin OnPc
    BY <1>4 DEF OnPc
  <2> QED
    BY <1>2, <1>3, <1>5, <2>1, Enters
<1>8. JobInv' /\ jobs' \subseteq Jobs
  <2>1. ASSUME NEW i \in jobs' PROVE JobKept(i)
    <3>1. i \in jobs /\ i # j /\ i.of \in U!Uthreads /\ i.do \in {"start", "set", "switch_in", "free"} /\ JobOK(i)
      BY <1>2, <2>1, JobOf
    <3>2. i.of # u
      BY <1>2, <1>3, <1>4, <3>1 DEF JobOK
    <3> QED
      BY <1>2, <1>6, <3>1, <3>2 DEF JobKept, JobHeld
  <2>2. launched' \in Nat /\ launched <= launched' /\ jobs' \subseteq jobs
    BY <1>2 DEF U!TypeOK
  <2> QED
    BY <1>2, <2>1, <2>2, JobsKept
<1>9. ProgramInv' /\ CountInv' /\ RefInv' /\ LaunchInv'
  <2>1. \A v \in U!Uthreads : GoesOn(v)
    <3>1. u = U!Main => U!Collect \in result
      BY <1>3, AwaitedFacts DEF AwaitInv
    <3> QED
      BY <1>4, <1>6, <3>1 DEF GoesOn
  <2>2. SameStarts
    BY <1>2, StartsKept
  <2> QED
    BY <1>2, <2>1, <2>2, BooksKept
<1>10. U!TypeOK'
  BY <1>2, <1>3, <1>5, <1>7, <1>8 DEF U!TypeOK, Jobs, U!Goto
<1>11. AliveInv'
  BY <1>2, <1>4, <1>6 DEF AliveInv
<1>12. AwaitInv'
  BY <1>2, <1>3, <1>6 DEF AwaitInv, OutPc, EarlyPc
<1> QED
  BY <1>2, <1>5, <1>7, <1>8, <1>9, <1>10, <1>11, <1>12 DEF UthreadParameters

LEMMA StepStart ==
    ASSUME UthreadInv, NEW w \in Workers, NEW j \in jobs, U!Start(j, w) PROVE UthreadInv'
<1> USE DEF UthreadInv
<1>1. PICK u : u = j.of
  OBVIOUS
<1>2. PICK label : label = U!First(u)
  OBVIOUS
<1>3. /\ j.do = "start" /\ U!Idle(w) /\ jobs' = jobs \ {j} /\ alive' = alive \cup {u}
      /\ stack' = [stack EXCEPT ![w] = <<u>>] /\ U!Goto(u, label)
      /\ UNCHANGED <<policy, program, result, awaiting, inner, home, joined, count, refs,
                     launched, refused, misuse>>
  BY <1>1, <1>2 DEF U!Start
<1>4. /\ u \in U!Uthreads /\ pc[u] = "new" /\ u <= launched
      /\ j = U!Job("start", u, Workers)
  <2>1. u \in U!Uthreads /\ pc[u] = "new" /\ u <= launched /\ j.on = Workers /\ j \in Jobs
    BY <1>1, <1>3, JobOf DEF JobOK, Where, U!TypeOK, Jobs
  <2>2. U!Job("start", u, Workers) \in Jobs
    BY <2>1, JobType
  <2> QED
    BY <1>1, <1>3, <2>1, <2>2, JobFields, SameJob
<1>5. /\ label \in {"body", "await", "down", "end"} /\ (label = "body" <=> u = U!Main)
      /\ u \in 1 .. N => (label = "down" <=> program[u] = "down")
  BY <1>2, <1>4, FirstFacts
<1>6. \A v \in U!Uthreads : U!Awaited(v)' = U!Awaited(v) /\ pc'[v] = IF v = u THEN label ELSE pc[v]
  BY <1>3 DEF U!Awaited, U!Goto, U!TypeOK
<1>7. U!Main \in U!Uthreads /\ \A t \in 1 .. N : t \in U!Uthreads /\ t # U!Main
  BY AwaitedFacts
<1>8. StackInv' /\ PlaceInv' /\ stack' \in [Workers -> Seq(U!Uthreads)]
  <2>1. pc[u] \notin OnPc
    BY <1>4 DEF OnPc
  <2> QED
    BY <1>3, <1>4, <1>5, <2>1, Enters
<1>9. JobInv' /\ jobs' \subseteq Jobs
  <2>1. ASSUME NEW i \in jobs' PROVE JobKept(i)
    <3>1. i \in jobs /\ i # j /\ i.of \in U!Uthreads /\ i.do \in {"start", "set", "switch_in", "free"} /\ JobOK(i)
      BY <1>3, <2>1, JobOf
    <3>2. i.of # u
      BY <1>1, <1>3, <1>4, <3>1, OneJob DEF JobOK, OutPc
    <3> QED
      BY <1>3, <1>6, <3>1, <3>2 DEF JobKept, JobHeld
  <2>2. launched' \in Nat /\ launched <= launched' /\ jobs' \subseteq jobs
    BY <1>3 DEF U!TypeOK
  <2> QED
    BY <1>3, <2>1, <2>2, JobsKept
<1>10. ASSUME NEW t \in 1 .. N, t # u
       PROVE  U!Job("start", t, Workers) \in jobs' <=> U!Job("start", t, Workers) \in jobs
  <2>1. U!Job("start", t, Workers) # U!Job("start", u, Workers)
    BY <1>10, JobFields
  <2> QED
    BY <1>3, <1>4, <2>1
<1>11. ProgramInv'
  BY <1>3, <1>5, <1>6, <1>7 DEF ProgramInv
<1>12. CountInv'
  <2>1. \A t \in 1 .. N : program[t] = "down" =>
           (pc'[t] \in {"new", "down"} <=> pc[t] \in {"new", "down"})
    BY <1>4, <1>5, <1>6, <1>7
  <2> QED
    BY <1>3, <2>1, CountKept
<1>13. RefInv'
  <2>1. ASSUME NEW t \in 1 .. N PROVE Holds(t)' <=> Holds(t)
    <3>1. CASE t = u
      BY <1>3, <1>4, <3>1 DEF Holds
    <3>2. CASE t # u
      BY <1>3, <1>10, <3>2 DEF Holds
    <3> QED
      BY <3>1, <3>2
  <2>2. pc'[U!Main] \in {"new", "body"} <=> pc[U!Main] \in {"new", "body"}
    BY <1>4, <1>5, <1>6, <1>7
  <2> QED
    BY <1>3, <2>1, <2>2, RefsKept
<1>14. LaunchInv'
  <2>1. ASSUME NEW t \in 1 .. N
        PROVE  /\ launched' < t => pc'[t] = "new"
               /\ pc'[t] = "new" /\ t <= launched' /\ U!Job("start", t, Workers) \notin jobs' => refused'
    <3>1. t \in Nat /\ launched \in Nat
      BY DEF U!TypeOK, UthreadParameters
    <3>2. CASE t = u
      BY <1>3, <1>4, <1>5, <1>6, <3>1, <3>2
    <3>3. CASE t # u
      BY <1>3, <1>6, <1>7, <1>10, <3>3 DEF LaunchInv
    <3> QED
      BY <3>2, <3>3
  <2>2. pc'[U!Main] \in {"in", "end", "final", "finished"} => U!Collect \in result'
    BY <1>3, <1>5, <1>6, <1>7 DEF LaunchInv
  <2> QED
    BY <2>1, <2>2 DEF LaunchInv
<1>15. U!TypeOK'
  BY <1>3, <1>4, <1>5, <1>8, <1>9 DEF U!TypeOK, Jobs, U!Goto
<1>16. AliveInv'
  BY <1>3, <1>4, <1>5, <1>6 DEF AliveInv
<1>17. AwaitInv'
  BY <1>3, <1>4, <1>5, <1>6 DEF AwaitInv, OutPc, EarlyPc
<1> QED
  BY <1>3, <1>8, <1>9, <1>11, <1>12, <1>13, <1>14, <1>15, <1>16, <1>17 DEF UthreadParameters

LEMMA StepSwitchOut ==
    ASSUME UthreadInv, NEW w \in Workers, NEW u \in U!Uthreads, U!SwitchOut(u, w) PROVE UthreadInv'
<1> USE DEF UthreadInv
<1>1. /\ U!RunningOn(u, w) /\ pc[u] = "switch_out" /\ U!Pop(w) /\ U!Goto(u, "out")
      /\ joined' = joined \cup {u}
      /\ UNCHANGED <<policy, program, jobs, result, awaiting, inner, home, alive, count, refs,
                     launched, refused, misuse>>
  BY DEF U!SwitchOut
<1>2. \A v \in U!Uthreads : U!Awaited(v)' = U!Awaited(v) /\ pc'[v] = IF v = u THEN "out" ELSE pc[v]
  BY <1>1 DEF U!Awaited, U!Goto, U!TypeOK
<1>3. StackInv' /\ PlaceInv' /\ stack' \in [Workers -> Seq(U!Uthreads)]
  BY <1>1, Leaves
<1>4. u \in alive
  BY <1>1, Running
<1>5. JobInv' /\ jobs' \subseteq Jobs
  <2>1. \A j \in jobs' : JobKept(j)
    BY <1>1, <1>2, JobOf DEF JobKept, JobHeld
  <2>2. launched' \in Nat /\ launched <= launched' /\ jobs' \subseteq jobs
    BY <1>1 DEF U!TypeOK
  <2> QED
    BY <1>1, <2>1, <2>2, JobsKept
<1>6. ProgramInv' /\ CountInv' /\ RefInv' /\ LaunchInv'
  <2>1. \A v \in U!Uthreads : GoesOn(v)
    BY <1>1, <1>2 DEF GoesOn
  <2>2. SameStarts
    BY <1>1 DEF SameStarts
  <2> QED
    BY <1>1, <2>1, <2>2, BooksKept
<1>7. U!TypeOK'
  BY <1>1, <1>3, <1>5 DEF U!TypeOK, Jobs, U!Goto
<1>8. AliveInv'
  BY <1>1, <1>2, <1>4 DEF AliveInv
<1>9. AwaitInv'
  BY <1>1, <1>2 DEF AwaitInv, OutPc, EarlyPc
<1> QED
  BY <1>1, <1>3, <1>5, <1>6, <1>7, <1>8, <1>9 DEF UthreadParameters

\* The uthread is at home when its end is set: its stack is freed there, later.
LEMMA StepDone ==
    ASSUME UthreadInv, NEW w \in Workers, NEW u \in U!Uthreads, U!Done(u, w) PROVE UthreadInv'
<1> USE DEF UthreadInv
<1>1. /\ U!RunningOn(u, w) /\ pc[u] \in {"in", "end"} /\ U!Goto(u, "final")
      /\ UNCHANGED <<policy, program, stack, result, awaiting, inner, home, joined, alive,
                     count, refs, launched>>
  BY DEF U!Done
<1>2. \A v \in U!Uthreads : U!Awaited(v)' = U!Awaited(v) /\ pc'[v] = IF v = u THEN "final" ELSE pc[v]
  BY <1>1 DEF U!Awaited, U!Goto, U!TypeOK
<1>3. /\ u \in alive /\ \A v \in Workers : u \in U!ToSet(stack[v]) => v = w
  BY <1>1, Running
<1>4. StackInv' /\ PlaceInv'
  <2>1. u \in joined => home'[u] = w
    <3>1. u \in joined => pc[u] = "in"
      BY <1>1 DEF AliveInv
    <3>2. home[u] \in Workers
      BY DEF U!TypeOK
    <3> QED
      BY <1>1, <1>3, <3>1, <3>2 DEF PlaceInv
  <2>2. "final" \in OnPc
    BY DEF OnPc
  <2> QED
    BY <1>1, <2>1, <2>2, Moves
<1>5. \A j \in jobs : JobKept(j)
  <2>1. \A j \in jobs : j.of # u
    BY <1>1, NoJobs
  <2> QED
    BY <1>1, <1>2, <2>1, JobOf DEF JobKept, JobHeld
<1>6. launched' \in Nat /\ launched <= launched' /\ result \subseteq result' /\ inner \subseteq inner'
  BY <1>1 DEF U!TypeOK
<1>7. JobInv' /\ jobs' \subseteq Jobs /\ SameStarts /\ Recorded
  <2>1. CASE UNCHANGED <<jobs, refused, misuse>>
    <3>1. JobInv' /\ jobs' \subseteq Jobs
      BY <1>1, <1>5, <1>6, <2>1, JobsKept
    <3> QED
      BY <2>1, <3>1, NothingRecorded DEF SameStarts
  <2>2. CASE u \in joined /\ jobs' = jobs \cup {U!Job("free", u, {home[u]})} /\ UNCHANGED <<refused, misuse>>
    <3>1. PICK n : n = U!Job("free", u, {home[u]})
      OBVIOUS
    <3>2. n.do = "free" /\ n.of = u /\ n.on = {home[u]}
      BY <3>1, JobFields
    <3>3. {home[u]} \in SUBSET Workers
      BY DEF U!TypeOK
    <3>4. n \in Jobs
      BY <3>1, <3>3, JobType
    <3>5. JobOK(n)'
      BY <1>1, <1>2, <1>3, <2>2, <3>2 DEF JobOK, Where
    <3>6. \A j \in jobs' : j \in jobs \/ j = n
      BY <2>2, <3>1
    <3>7. JobInv' /\ jobs' \subseteq Jobs
      BY <1>1, <1>5, <1>6, <3>4, <3>5, <3>6, JobsStay
    <3>8. SameStarts
      BY <2>2, <3>1, <3>2, StartsKept
    <3> QED
      BY <2>2, <3>7, <3>8, NothingRecorded
  <2>3. CASE refused' = TRUE /\ misuse' = TRUE /\ UNCHANGED jobs
    <3>1. JobInv' /\ jobs' \subseteq Jobs
      BY <1>1, <1>5, <1>6, <2>3, JobsKept
    <3> QED
      BY <2>3, <3>1 DEF SameStarts, Recorded
  <2> QED
    BY <2>1, <2>2, <2>3 DEF U!Done
<1>8. ProgramInv' /\ CountInv' /\ RefInv' /\ LaunchInv'
  <2>1. \A v \in U!Uthreads : GoesOn(v)
    BY <1>1, <1>2 DEF GoesOn, LaunchInv
  <2>2. refused => refused'
    BY <1>7 DEF Recorded
  <2> QED
    BY <1>1, <1>7, <2>1, <2>2, BooksKept
<1>9. U!TypeOK'
  BY <1>1, <1>7 DEF U!TypeOK, Jobs, U!Goto, Recorded
<1>10. AliveInv'
  BY <1>1, <1>2, <1>3 DEF AliveInv
<1>11. AwaitInv'
  BY <1>1, <1>2 DEF AwaitInv, OutPc, EarlyPc
<1> QED
  BY <1>4, <1>7, <1>8, <1>9, <1>10, <1>11 DEF UthreadParameters, Recorded

LEMMA StepAwaitCheck ==
    ASSUME UthreadInv, NEW w \in Workers, NEW u \in U!Uthreads, U!AwaitCheck(u, w) PROVE UthreadInv'
<1> USE DEF UthreadInv
<1>1. /\ U!RunningOn(u, w) /\ pc[u] = "await"
      /\ UNCHANGED <<policy, program, stack, jobs, result, awaiting, inner, joined, alive,
                     count, refs, launched, refused, misuse>>
  BY DEF U!AwaitCheck
<1>2. PICK label \in {"end", "then"} :
         /\ U!Goto(u, label) /\ (label = "end" => U!Awaited(u) \in result)
         /\ home' = home \/ home' = [home EXCEPT ![u] = w]
         /\ label = "then" => home' = [home EXCEPT ![u] = w]
  BY DEF U!AwaitCheck
<1>3. /\ \A v \in U!Uthreads : U!Awaited(v)' = U!Awaited(v) /\ pc'[v] = IF v = u THEN label ELSE pc[v]
      /\ \A v \in U!Uthreads : v # u => home'[v] = home[v]
      /\ label = "then" => home'[u] = w
  BY <1>1, <1>2 DEF U!Awaited, U!Goto, U!TypeOK
<1>4. StackInv' /\ PlaceInv'
  <2>1. label \in OnPc
    BY <1>2 DEF OnPc
  <2>2. label \in {"then", "switch_out", "in"} \/ (label = "final" /\ u \in joined) => home'[u] = w
    BY <1>2, <1>3
  <2> QED
    BY <1>1, <1>2, <2>1, <2>2, Moves
<1>5. JobInv' /\ jobs' \subseteq Jobs
  <2>1. \A j \in jobs : j.of # u
    BY <1>1, NoJobs
  <2>2. \A j \in jobs' : JobKept(j)
    BY <1>1, <1>3, <2>1, JobOf DEF JobKept, JobHeld
  <2>3. launched' \in Nat /\ launched <= launched' /\ jobs' \subseteq jobs
    BY <1>1 DEF U!TypeOK
  <2> QED
    BY <1>1, <2>2, <2>3, JobsKept
<1>6. ProgramInv' /\ CountInv' /\ RefInv' /\ LaunchInv'
  <2>1. \A v \in U!Uthreads : GoesOn(v)
    BY <1>1, <1>2, <1>3, AwaitedFacts DEF GoesOn
  <2>2. SameStarts
    BY <1>1 DEF SameStarts
  <2> QED
    BY <1>1, <2>1, <2>2, BooksKept
<1>7. U!TypeOK'
  BY <1>1, <1>2, <1>5 DEF U!TypeOK, Jobs, U!Goto
<1>8. AliveInv'
  BY <1>1, <1>2, <1>3 DEF AliveInv
<1>9. AwaitInv'
  BY <1>1, <1>2, <1>3 DEF AwaitInv, OutPc, EarlyPc
<1> QED
  BY <1>1, <1>4, <1>5, <1>6, <1>7, <1>8, <1>9 DEF UthreadParameters

LEMMA StepThenTry ==
    ASSUME UthreadInv, NEW w \in Workers, NEW u \in U!Uthreads, U!ThenTry(u, w) PROVE UthreadInv'
<1> USE DEF UthreadInv
<1>1. /\ U!RunningOn(u, w) /\ pc[u] = "then" /\ U!Goto(u, "switch_out")
      /\ awaiting' = awaiting \cup {U!Awaited(u)}
      /\ UNCHANGED <<policy, program, stack, result, home, joined, alive, count, refs, launched>>
  BY DEF U!ThenTry
<1>2. \A v \in U!Uthreads : U!Awaited(v)' = U!Awaited(v) /\ pc'[v] = IF v = u THEN "switch_out" ELSE pc[v]
  BY <1>1 DEF U!Awaited, U!Goto, U!TypeOK
<1>3. /\ \A v \in U!Uthreads : U!Awaited(v) = U!Awaited(u) => v = u
      /\ U!Awaited(u) \in 1 .. U!Collect /\ (U!Awaited(u) = U!Collect => u = U!Main)
  BY AwaitedFacts
<1>4. StackInv' /\ PlaceInv'
  <2>1. home'[u] = w
    <3>1. u \in U!ToSet(stack[home[u]]) /\ home[u] \in Workers
      BY <1>1 DEF PlaceInv, U!TypeOK
    <3> QED
      BY <1>1, <3>1, Running
  <2>2. "switch_out" \in OnPc
    BY DEF OnPc
  <2> QED
    BY <1>1, <2>1, <2>2, Moves
<1>5. \A j \in jobs : j.of # u /\ JobHeld(j)
  <2>1. \A j \in jobs : j.of # u
    BY <1>1, NoJobs
  <2> QED
    BY <1>1, <1>2, <2>1, JobOf DEF JobHeld
<1>6. launched' \in Nat /\ launched <= launched' /\ result \subseteq result'
  BY <1>1 DEF U!TypeOK
<1>7. u \notin inner /\ pc'[u] \in OutPc
  BY <1>1, <1>2 DEF AwaitInv, EarlyPc, OutPc
<1>8. /\ JobInv' /\ jobs' \subseteq Jobs /\ SameStarts /\ Recorded
      /\ inner' = inner \/ (inner' = inner \cup {u} /\ U!Awaited(u) \in result)
  <2>1. CASE UNCHANGED <<jobs, inner, refused, misuse>>
    <3>1. \A j \in jobs' : JobKept(j)
      BY <1>5, <2>1 DEF JobKept
    <3>2. JobInv' /\ jobs' \subseteq Jobs
      BY <1>1, <1>6, <2>1, <3>1, JobsKept
    <3> QED
      BY <2>1, <3>2, NothingRecorded DEF SameStarts
  <2>2. CASE /\ U!Awaited(u) = U!Collect /\ jobs' = jobs \cup {U!Job("set", u, {home[u]})}
             /\ U!Awaited(u) \in result /\ UNCHANGED <<inner, refused, misuse>>
    <3>1. PICK n : n = U!Job("set", u, {home[u]})
      OBVIOUS
    <3>2. n = U!Job("set", u, IF u = U!Main THEN {home[U!Main]} ELSE Workers)
      BY <1>3, <2>2, <3>1
    <3>3. JobInv' /\ jobs' \subseteq Jobs
      BY <1>1, <1>5, <1>6, <1>7, <2>2, <3>1, <3>2, SetPosted
    <3>4. n.do = "set"
      BY <3>1, JobFields
    <3>5. SameStarts
      BY <2>2, <3>1, <3>4, StartsKept
    <3> QED
      BY <2>2, <3>3, <3>5, NothingRecorded
  <2>3. CASE U!Awaited(u) \in result /\ U!SetInner(u, jobs)
    <3>1. /\ inner' = inner \cup {u} /\ Recorded /\ JobInv' /\ jobs' \subseteq Jobs
          /\ \A j \in jobs : j \in jobs'
          /\ \A j \in jobs' : j \in jobs \/ j.do = "switch_in"
      BY <1>1, <1>5, <1>6, <1>7, <2>3, InnerSet
    <3>2. SameStarts
      BY <3>1, StartsKept
    <3> QED
      BY <2>3, <3>1, <3>2
  <2> QED
    BY <2>1, <2>2, <2>3 DEF U!ThenTry
<1>9. ProgramInv' /\ CountInv' /\ RefInv' /\ LaunchInv'
  <2>1. \A v \in U!Uthreads : GoesOn(v)
    BY <1>1, <1>2 DEF GoesOn
  <2>2. refused => refused'
    BY <1>8 DEF Recorded
  <2> QED
    BY <1>1, <1>8, <2>1, <2>2, BooksKept
<1>10. U!TypeOK'
  BY <1>1, <1>3, <1>8 DEF U!TypeOK, Jobs, U!Goto, Recorded
<1>11. AliveInv'
  BY <1>1, <1>2 DEF AliveInv
<1>12. AwaitInv'
  BY <1>1, <1>2, <1>3, <1>8 DEF AwaitInv, OutPc, EarlyPc
<1> QED
  BY <1>4, <1>8, <1>9, <1>10, <1>11, <1>12 DEF UthreadParameters, Recorded

\* Who finds one left sets the Latch's promise: nobody else has still to count down.
LEMMA StepDownCount ==
    ASSUME UthreadInv, NEW w \in Workers, NEW t \in U!Uthreads, U!DownCount(t, w) PROVE UthreadInv'
<1> USE DEF UthreadInv
<1>1. /\ U!RunningOn(t, w) /\ pc[t] = "down" /\ U!Goto(t, "end") /\ count' = count - 1
      /\ result' = IF count = 1 THEN result \cup {U!Latch} ELSE result
      /\ UNCHANGED <<policy, program, stack, awaiting, home, joined, alive, refs, launched>>
  BY DEF U!DownCount
<1>2. t \in 1 .. N /\ program[t] = "down"
  <2>1. t # U!Main
    BY <1>1 DEF ProgramInv
  <2>2. t \in 1 .. N
    BY <2>1, AwaitedFacts
  <2> QED
    BY <1>1, <2>2 DEF ProgramInv
<1>3. \A v \in U!Uthreads : U!Awaited(v)' = U!Awaited(v) /\ pc'[v] = IF v = t THEN "end" ELSE pc[v]
  BY <1>1 DEF U!Awaited, U!Goto, U!TypeOK
<1>4. /\ U!Main \in U!Uthreads /\ \A u \in 1 .. N : u \in U!Uthreads /\ u # U!Main
      /\ U!Latch # U!Collect /\ \A u \in 1 .. N : program[u] = "latch" => U!Awaited(u) = U!Latch
  BY AwaitedFacts
<1>5. StackInv' /\ PlaceInv'
  <2>1. "end" \in OnPc
    BY DEF OnPc
  <2> QED
    BY <1>1, <2>1, Moves
<1>6. /\ count \in 1 .. N /\ count' = Cardinality(DownsLeft')
      /\ U!Latch \notin result /\ U!Latch \in 1 .. U!Collect
  <2>1. PICK S : S = DownsLeft
    OBVIOUS
  <2>2. S \subseteq 1 .. N /\ t \in S /\ count = Cardinality(S)
    BY <1>1, <1>2, <2>1 DEF DownsLeft, CountInv
  <2>3. DownsLeft' = S \ {t}
    BY <1>1, <1>3, <1>4, <2>1 DEF DownsLeft
  <2>4. Cardinality(S) \in 0 .. N /\ Cardinality(S) > 0 /\ Cardinality(S \ {t}) = Cardinality(S) - 1
    BY <2>2, TaskSets DEF UthreadParameters
  <2>5. count \in 1 .. N /\ count # 0
    BY <2>2, <2>4 DEF UthreadParameters
  <2>6. U!Latch \in 1 .. U!Collect
    BY DEF U!Latch, U!Collect, UthreadParameters
  <2> QED
    BY <1>1, <2>2, <2>3, <2>4, <2>5, <2>6 DEF CountInv
<1>7. \A j \in jobs : JobHeld(j)
  <2>1. \A j \in jobs : j.of # t
    BY <1>1, NoJobs
  <2> QED
    BY <1>1, <1>3, <2>1, JobOf DEF JobHeld
<1>8. launched' \in Nat /\ launched <= launched' /\ result \subseteq result'
  BY <1>1 DEF U!TypeOK
<1>9. /\ JobInv' /\ jobs' \subseteq Jobs /\ SameStarts /\ Recorded
      /\ \/ inner' = inner
         \/ \E u \in U!Uthreads :
              inner' = inner \cup {u} /\ pc'[u] \in OutPc /\ U!Awaited(u) \in result'
  <2>1. CASE UNCHANGED <<jobs, inner, refused, misuse>>
    <3>1. \A j \in jobs' : JobKept(j)
      BY <1>7, <2>1 DEF JobKept
    <3>2. JobInv' /\ jobs' \subseteq Jobs
      BY <1>1, <1>8, <2>1, <3>1, JobsKept
    <3> QED
      BY <2>1, <3>2, NothingRecorded DEF SameStarts
  <2>2. CASE /\ count = 1 /\ U!Latch \in awaiting
             /\ \E u \in 1 .. N : program[u] = "latch" /\ U!SetInner(u, jobs)
    <3>1. PICK u \in 1 .. N : program[u] = "latch" /\ U!SetInner(u, jobs)
      BY <2>2
    <3>2. u \in U!Uthreads /\ U!Awaited(u) = U!Latch /\ u # t
      BY <1>2, <1>4, <3>1
    <3>3. pc[u] \in OutPc /\ u \notin inner /\ \A j \in jobs : j.do = "set" => j.of # u
      BY <1>6, <2>2, <3>2, AwaitingIsOut
    <3>4. pc'[u] \in OutPc
      BY <1>3, <3>2, <3>3
    <3>5. /\ inner' = inner \cup {u} /\ Recorded /\ JobInv' /\ jobs' \subseteq Jobs
          /\ \A j \in jobs : j \in jobs'
          /\ \A j \in jobs' : j \in jobs \/ j.do = "switch_in"
      BY <1>1, <1>7, <1>8, <3>1, <3>2, <3>3, <3>4, InnerSet
    <3>6. SameStarts
      BY <3>5, StartsKept
    <3> QED
      BY <1>1, <2>2, <3>2, <3>4, <3>5, <3>6
  <2> QED
    BY <2>1, <2>2 DEF U!DownCount
<1>10. ProgramInv'
  BY <1>1, <1>2, <1>3, <1>4 DEF ProgramInv
<1>11. CountInv'
  <2>1. U!Latch \in result' => count' = 0
    BY <1>1, <1>6
  <2> QED
    BY <1>6, <2>1 DEF CountInv
<1>12. U!Collect \in result' <=> U!Collect \in result
  BY <1>1, <1>4
<1>13. RefInv'
  <2>1. \A u \in 1 .. N : Holds(u)' <=> Holds(u)
    BY <1>1, <1>9 DEF Holds, SameStarts
  <2>2. pc'[U!Main] \in {"new", "body"} <=> pc[U!Main] \in {"new", "body"}
    BY <1>2, <1>3, <1>4
  <2> QED
    BY <1>1, <1>12, <2>1, <2>2, RefsKept
<1>14. LaunchInv'
  <2>1. \A u \in 1 .. N :
           /\ launched' < u => pc'[u] = "new"
           /\ pc'[u] = "new" /\ u <= launched' /\ U!Job("start", u, Workers) \notin jobs' => refused'
    BY <1>1, <1>3, <1>4, <1>9 DEF LaunchInv, SameStarts, Recorded
  <2>2. pc'[U!Main] \in {"in", "end", "final", "finished"} => U!Collect \in result'
    BY <1>2, <1>3, <1>4, <1>12 DEF LaunchInv
  <2> QED
    BY <2>1, <2>2 DEF LaunchInv
<1>15. inner' \subseteq U!Uthreads /\ result' \subseteq 1 .. U!Collect /\ count' \in 0 .. N
  <2>1. inner' \subseteq U!Uthreads
    BY <1>9 DEF U!TypeOK
  <2>2. result' \subseteq 1 .. U!Collect
    BY <1>1, <1>6 DEF U!TypeOK
  <2>3. count' \in 0 .. N
    BY <1>1, <1>6 DEF UthreadParameters
  <2> QED
    BY <2>1, <2>2, <2>3
<1>16. U!TypeOK'
  BY <1>1, <1>9, <1>15 DEF U!TypeOK, Jobs, U!Goto, Recorded
<1>17. AliveInv'
  BY <1>1, <1>3 DEF AliveInv
<1>18. AwaitInv'
  BY <1>1, <1>3, <1>8, <1>9 DEF AwaitInv, OutPc, EarlyPc
<1> QED
  BY <1>5, <1>9, <1>10, <1>11, <1>13, <1>14, <1>16, <1>17, <1>18 DEF UthreadParameters, Recorded

\* ~Uthread, of a uthread that has left its stack: when the last task goes, collectAll's
\* promise is set, and whoever awaits it is out, or on the way out, at home.
LEMMA FreeInv ==
    ASSUME UthreadInv, NEW u \in U!Uthreads, u \in alive, pc[u] \in {"final", "finished"},
           pc' = [pc EXCEPT ![u] = "finished"], NEW STATE queued, queued \subseteq jobs,
           \A j \in jobs : j \in queued \/ j.do # "start",
           \A j \in queued : j.do = "free" => j.of # u, U!Free(u, queued),
           UNCHANGED <<policy, program, awaiting, home, joined, count, launched>>,
           stack' \in [Workers -> Seq(U!Uthreads)]
    PROVE  /\ U!TypeOK' /\ AliveInv' /\ JobInv' /\ AwaitInv' /\ ProgramInv' /\ CountInv' /\ RefInv'
           /\ LaunchInv' /\ (misuse' => refused')
<1> USE DEF UthreadInv
<1>1. alive' = alive \ {u}
  BY DEF U!Free
<1>2. \A v \in U!Uthreads : U!Awaited(v)' = U!Awaited(v) /\ pc'[v] = IF v = u THEN "finished" ELSE pc[v]
  BY DEF U!Awaited, U!TypeOK
<1>3. /\ U!Main \in U!Uthreads /\ \A t \in 1 .. N : t \in U!Uthreads /\ t # U!Main
      /\ U!Latch # U!Collect /\ U!Awaited(U!Main) = U!Collect /\ (u # U!Main => u \in 1 .. N)
      /\ U!Collect \in 1 .. U!Collect
  <2>1. U!Awaited(U!Main) = U!Collect /\ U!Awaited(U!Main) \in 1 .. U!Collect
    BY AwaitedFacts
  <2> QED
    BY <2>1, AwaitedFacts
<1>4. \A j \in queued : JobHeld(j)
  BY <1>1, <1>2, JobOf DEF JobHeld
<1>5. launched' \in Nat /\ launched <= launched'
  BY DEF U!TypeOK
<1>6. PICK H : H = Holders
  OBVIOUS
<1>7. /\ H \subseteq 1 .. N /\ Cardinality(H) \in 0 .. N
      /\ refs = Cardinality(H) + Own /\ (U!Collect \in result <=> refs = 0)
      /\ \A x \in H : Cardinality(H) > 0 /\ Cardinality(H \ {x}) = Cardinality(H) - 1
  <2>1. H \subseteq 1 .. N
    BY <1>6 DEF Holders
  <2> QED
    BY <1>6, <2>1, TaskSets DEF RefInv, UthreadParameters
<1>8. u # U!Main => u \in H
  BY <1>3, <1>6 DEF Holders, Holds
<1>9. /\ JobInv' /\ jobs' \subseteq Jobs /\ SameStarts /\ Recorded
      /\ result \subseteq result' /\ result' \subseteq result \cup {U!Collect}
      /\ \/ inner' = inner
         \/ inner' = inner \cup {U!Main} /\ pc'[U!Main] \in OutPc /\ U!Collect \in result'
      /\ u = U!Main => refs' = refs /\ result' = result
      /\ u # U!Main =>
           refs' = refs - 1 /\ result' = IF refs = 1 THEN result \cup {U!Collect} ELSE result
  <2>1. /\ u = U!Main => refs' = refs /\ result' = result
        /\ u # U!Main =>
             refs' = refs - 1 /\ result' = IF refs = 1 THEN result \cup {U!Collect} ELSE result
        /\ \/ jobs' = queued /\ UNCHANGED <<inner, refused, misuse>>
           \/ /\ u # U!Main /\ refs = 1 /\ U!Collect \in awaiting
              /\ \/ /\ jobs' = queued \cup {U!Job("set", U!Main, {home[U!Main]})}
                    /\ UNCHANGED <<inner, refused, misuse>>
                 \/ U!SetInner(U!Main, queued)
    BY DEF U!Free, U!DropContext
  <2>2. result \subseteq result' /\ result' \subseteq result \cup {U!Collect}
    BY <2>1
  <2>3. ASSUME refs = 1, U!Collect \in awaiting, u # U!Main
        PROVE  /\ pc'[U!Main] \in OutPc /\ U!Main \notin inner /\ U!Collect \in result'
               /\ \A j \in jobs : j.do = "set" => j.of # U!Main
    <3>1. U!Collect \notin result
      BY <1>7, <2>3
    <3>2. /\ pc[U!Main] \in OutPc /\ U!Main \notin inner
          /\ \A j \in jobs : j.do = "set" => j.of # U!Main
      BY <1>3, <2>3, <3>1, AwaitingIsOut
    <3> QED
      BY <1>2, <1>3, <2>1, <2>3, <3>2
  <2>4. CASE jobs' = queued /\ UNCHANGED <<inner, refused, misuse>>
    <3>1. \A j \in jobs' : JobKept(j)
      BY <1>4, <2>4 DEF JobKept
    <3>2. JobInv' /\ jobs' \subseteq Jobs
      BY <1>5, <2>2, <2>4, <3>1, JobsKept
    <3>3. SameStarts
      BY <2>4, StartsKept
    <3> QED
      BY <2>1, <2>2, <2>4, <3>2, <3>3, NothingRecorded
  <2>5. CASE /\ u # U!Main /\ refs = 1 /\ U!Collect \in awaiting
             /\ jobs' = queued \cup {U!Job("set", U!Main, {home[U!Main]})}
             /\ UNCHANGED <<inner, refused, misuse>>
    <3>1. PICK n : n = U!Job("set", U!Main, {home[U!Main]})
      OBVIOUS
    <3>2. n = U!Job("set", U!Main, IF U!Main = U!Main THEN {home[U!Main]} ELSE Workers)
      BY <3>1
    <3>3. JobInv' /\ jobs' \subseteq Jobs
      BY <1>3, <1>4, <1>5, <2>2, <2>3, <2>5, <3>1, <3>2, SetPosted
    <3>4. n.do = "set"
      BY <3>1, JobFields
    <3>5. SameStarts
      BY <2>5, <3>1, <3>4, StartsKept
    <3> QED
      BY <2>1, <2>2, <2>5, <3>3, <3>5, NothingRecorded
  <2>6. CASE u # U!Main /\ refs = 1 /\ U!Collect \in awaiting /\ U!SetInner(U!Main, queued)
    <3>1. /\ inner' = inner \cup {U!Main} /\ Recorded /\ JobInv' /\ jobs' \subseteq Jobs
          /\ \A j \in queued : j \in jobs'
          /\ \A j \in jobs' : j \in queued \/ j.do = "switch_in"
      BY <1>3, <1>4, <1>5, <2>2, <2>3, <2>6, InnerSet
    <3>2. SameStarts
      BY <3>1, StartsKept
    <3> QED
      BY <2>1, <2>2, <2>3, <2>6, <3>1, <3>2
  <2> QED
    BY <2>1, <2>4, <2>5, <2>6
<1>10. refs' \in 0 .. N + 1 /\ RefInv'
  <2>1. Own' = Own /\ Own \in {0, 1}
    BY <1>2, <1>3 DEF Own
  <2>2. CASE u = U!Main
    <3>1. \A t \in 1 .. N : Holds(t)' <=> Holds(t)
      BY <1>1, <1>3, <1>9, <2>2 DEF Holds, SameStarts
    <3>2. pc'[U!Main] \in {"new", "body"} <=> pc[U!Main] \in {"new", "body"}
      BY <1>2, <1>3
    <3> QED
      BY <1>9, <2>2, <3>1, <3>2, RefsKept DEF U!TypeOK
  <2>3. CASE u # U!Main
    <3>1. u \in 1 .. N /\ u \in H
      BY <1>3, <1>8, <2>3
    <3>2. ~Holds(u)'
      <4>1. u <= launched
        <5>1. u \in Nat /\ launched \in Nat /\ pc[u] # "new"
          BY <3>1 DEF U!TypeOK, UthreadParameters
        <5> QED
          BY <3>1, <5>1 DEF LaunchInv
      <4>2. U!Job("start", u, Workers) \notin jobs
        <5>1. U!Job("start", u, Workers).do = "start" /\ U!Job("start", u, Workers).of = u
          BY JobFields
        <5> QED
          BY <5>1 DEF JobInv, JobOK
      <4>3. u \in Nat /\ launched \in Nat
        BY <3>1 DEF U!TypeOK, UthreadParameters
      <4> QED
        BY <1>1, <1>9, <3>1, <4>1, <4>2, <4>3 DEF Holds, SameStarts
    <3>3. \A t \in 1 .. N : t # u => (Holds(t)' <=> Holds(t))
      BY <1>1, <1>9 DEF Holds, SameStarts
    <3>4. Holders' = H \ {u}
      BY <1>6, <3>1, <3>2, <3>3 DEF Holders
    <3>5. Cardinality(Holders') = Cardinality(H) - 1 /\ Cardinality(H) > 0
      BY <1>7, <3>1, <3>4
    <3>6. refs' = Cardinality(Holders') + Own' /\ refs' \in 0 .. N + 1 /\ refs > 0
      BY <1>7, <1>9, <2>1, <2>3, <3>5 DEF UthreadParameters
    <3>7. U!Collect \notin result /\ (U!Collect \in result' <=> refs = 1)
      BY <1>7, <1>9, <2>3, <3>6
    <3>8. refs = 1 <=> refs' = 0
      BY <1>7, <1>9, <2>1, <2>3
    <3> QED
      BY <3>6, <3>7, <3>8 DEF RefInv
  <2> QED
    BY <2>2, <2>3
<1>11. ProgramInv'
  BY <1>2, <1>3 DEF ProgramInv
<1>12. CountInv'
  <2>1. U!Latch \in result' => U!Latch \in result
    BY <1>3, <1>9
  <2>2. \A t \in 1 .. N : pc'[t] \in {"new", "down"} <=> pc[t] \in {"new", "down"}
    BY <1>2, <1>3
  <2> QED
    BY <2>1, <2>2, CountKept
<1>13. LaunchInv'
  <2>1. \A t \in 1 .. N :
           /\ launched' < t => pc'[t] = "new"
           /\ pc'[t] = "new" /\ t <= launched' /\ U!Job("start", t, Workers) \notin jobs' => refused'
    BY <1>2, <1>3, <1>9 DEF LaunchInv, SameStarts, Recorded
  <2>2. pc'[U!Main] \in {"in", "end", "final", "finished"} => U!Collect \in result'
    BY <1>2, <1>3, <1>9 DEF LaunchInv
  <2> QED
    BY <2>1, <2>2 DEF LaunchInv
<1>14. U!TypeOK'
  <2>1. result' \subseteq 1 .. U!Collect /\ inner' \subseteq U!Uthreads /\ alive' \subseteq U!Uthreads
    BY <1>1, <1>3, <1>9 DEF U!TypeOK
  <2> QED
    BY <1>9, <1>10, <2>1 DEF U!TypeOK, Jobs, Recorded
<1>15. AliveInv'
  BY <1>1, <1>2 DEF AliveInv
<1>16. AwaitInv'
  BY <1>2, <1>3, <1>9 DEF AwaitInv, OutPc, EarlyPc
<1> QED
  BY <1>9, <1>10, <1>11, <1>12, <1>13, <1>14, <1>15, <1>16 DEF Recorded

LEMMA StepFinalSwitchOut ==
    ASSUME UthreadInv, NEW w \in Workers, NEW u \in U!Uthreads, U!FinalSwitchOut(u, w)
    PROVE  UthreadInv'
<1> USE DEF UthreadInv
<1>1. /\ U!RunningOn(u, w) /\ pc[u] = "final" /\ U!Pop(w) /\ U!Goto(u, "finished")
      /\ UNCHANGED <<policy, program, awaiting, home, joined, count, launched>>
  BY DEF U!FinalSwitchOut
<1>2. \A v \in U!Uthreads : U!Awaited(v)' = U!Awaited(v) /\ pc'[v] = IF v = u THEN "finished" ELSE pc[v]
  BY <1>1 DEF U!Awaited, U!Goto, U!TypeOK
<1>3. StackInv' /\ PlaceInv' /\ stack' \in [Workers -> Seq(U!Uthreads)]
  BY <1>1, Leaves
<1>4. u \in alive
  BY <1>1, Running
<1>5. CASE u \notin joined
  <2>1. U!Free(u, jobs) /\ pc' = [pc EXCEPT ![u] = "finished"]
    BY <1>1, <1>5 DEF U!FinalSwitchOut, U!Goto
  <2>2. \A j \in jobs : j.do = "free" => j.of # u
    BY <1>5 DEF JobInv, JobOK
  <2>3. /\ U!TypeOK' /\ AliveInv' /\ JobInv' /\ AwaitInv' /\ ProgramInv' /\ CountInv' /\ RefInv'
        /\ LaunchInv' /\ (misuse' => refused')
    BY <1>1, <1>3, <1>4, <2>1, <2>2, FreeInv
  <2> QED
    BY <1>3, <2>3 DEF UthreadParameters
<1>6. CASE u \in joined
  <2>1. UNCHANGED <<alive, refs, jobs, result, inner, refused, misuse>>
    BY <1>6 DEF U!FinalSwitchOut
  <2>2. JobInv' /\ jobs' \subseteq Jobs
    <3>1. \A j \in jobs' : JobKept(j)
      BY <1>1, <1>2, <2>1, JobOf DEF JobKept, JobHeld
    <3>2. launched' \in Nat /\ launched <= launched' /\ jobs' \subseteq jobs
      BY <1>1, <2>1 DEF U!TypeOK
    <3> QED
      BY <1>1, <2>1, <3>1, <3>2, JobsKept
  <2>3. ProgramInv' /\ CountInv' /\ RefInv' /\ LaunchInv'
    <3>1. \A v \in U!Uthreads : GoesOn(v)
      BY <1>1, <1>2 DEF GoesOn, LaunchInv
    <3>2. SameStarts
      BY <2>1 DEF SameStarts
    <3> QED
      BY <1>1, <2>1, <3>1, <3>2, BooksKept
  <2>4. U!TypeOK'
    BY <1>1, <1>3, <2>1, <2>2 DEF U!TypeOK, Jobs, U!Goto
  <2>5. AliveInv'
    BY <1>1, <1>2, <1>4, <2>1 DEF AliveInv
  <2>6. AwaitInv'
    BY <1>1, <1>2, <2>1 DEF AwaitInv, OutPc, EarlyPc
  <2> QED
    BY <1>3, <2>1, <2>2, <2>3, <2>4, <2>5, <2>6 DEF UthreadParameters
<1> QED
  BY <1>5, <1>6

\* The continuation of join runs at home, where the uthread was until it ended.
LEMMA StepRunFree ==
    ASSUME UthreadInv, NEW w \in Workers, NEW j \in jobs, U!RunFree(j, w) PROVE UthreadInv'
<1> USE DEF UthreadInv
<1>1. PICK u : u = j.of
  OBVIOUS
<1>2. /\ j.do = "free" /\ w \in j.on /\ U!Idle(w) /\ U!Free(u, jobs \ {j})
      /\ UNCHANGED <<policy, program, pc, stack, awaiting, home, joined, count, launched>>
  BY <1>1 DEF U!RunFree
<1>3. /\ u \in U!Uthreads /\ pc[u] \in {"final", "finished"} /\ u \in joined /\ u \in alive /\ home[u] = w
      /\ \A i \in jobs \ {j} : i.do = "free" => i.of # u
  BY <1>1, <1>2, JobOf DEF JobOK, Where
<1>4. pc[u] = "finished"
  <2>1. U!ToSet(stack[w]) = {}
    BY <1>2, ShortStacks DEF U!Idle
  <2> QED
    BY <1>3, <2>1 DEF PlaceInv
<1>5. pc' = [pc EXCEPT ![u] = "finished"]
  BY <1>2, <1>3, <1>4 DEF U!TypeOK
<1>6. StackInv' /\ PlaceInv' /\ stack' \in [Workers -> Seq(U!Uthreads)]
  BY <1>2, StacksKept DEF U!TypeOK
<1>7. jobs \ {j} \subseteq jobs /\ \A i \in jobs : i \in jobs \ {j} \/ i.do # "start"
  BY <1>2
<1>8. /\ U!TypeOK' /\ AliveInv' /\ JobInv' /\ AwaitInv' /\ ProgramInv' /\ CountInv' /\ RefInv'
      /\ LaunchInv' /\ (misuse' => refused')
  BY <1>2, <1>3, <1>5, <1>6, <1>7, FreeInv
<1> QED
  BY <1>6, <1>8 DEF UthreadParameters

\* The loop is over: nobody awaits collectAll's promise yet.
LEMMA StepLaunched ==
    ASSUME UthreadInv, NEW w \in Workers, U!Launched(w) PROVE UthreadInv'
<1> USE DEF UthreadInv
<1>1. /\ U!RunningOn(U!Main, w) /\ pc[U!Main] = "body" /\ launched = N /\ U!Goto(U!Main, "await")
      /\ home' = [home EXCEPT ![U!Main] = w]
      /\ UNCHANGED <<policy, program, stack, awaiting, joined, alive, count, launched>>
  BY DEF U!Launched
<1>2. /\ U!Main \in U!Uthreads /\ \A t \in 1 .. N : t \in U!Uthreads /\ t # U!Main
      /\ U!Latch # U!Collect /\ U!Collect \in 1 .. U!Collect /\ U!Awaited(U!Main) = U!Collect
  <2>1. U!Main \in U!Uthreads /\ U!Awaited(U!Main) = U!Collect /\ U!Awaited(U!Main) \in 1 .. U!Collect
    BY AwaitedFacts
  <2> QED
    BY <2>1, AwaitedFacts
<1>3. /\ \A v \in U!Uthreads : U!Awaited(v)' = U!Awaited(v) /\ pc'[v] = IF v = U!Main THEN "await" ELSE pc[v]
      /\ \A v \in U!Uthreads : v # U!Main => home'[v] = home[v]
  BY <1>1 DEF U!Awaited, U!Goto, U!TypeOK
<1>4. U!Collect \notin awaiting
  BY <1>1, <1>2 DEF AwaitInv, EarlyPc
<1>5. /\ refs' = refs - 1 /\ UNCHANGED <<jobs, inner, refused, misuse>>
      /\ result' = IF refs # 1 THEN result ELSE result \cup {U!Collect}
  BY <1>4 DEF U!Launched, U!DropContext
<1>6. StackInv' /\ PlaceInv'
  <2>1. "await" \in OnPc
    BY DEF OnPc
  <2> QED
    BY <1>1, <2>1, Moves
<1>7. JobInv' /\ jobs' \subseteq Jobs
  <2>1. \A j \in jobs : j.of # U!Main
    BY <1>1, <1>2, NoJobs
  <2>2. \A j \in jobs' : JobKept(j)
    BY <1>1, <1>3, <1>5, <2>1, JobOf DEF JobKept, JobHeld
  <2>3. /\ launched' \in Nat /\ launched <= launched' /\ jobs' \subseteq jobs
        /\ result \subseteq result' /\ inner \subseteq inner'
    BY <1>1, <1>5 DEF U!TypeOK
  <2> QED
    BY <1>1, <2>2, <2>3, JobsKept
<1>8. ProgramInv'
  BY <1>1, <1>2, <1>3 DEF ProgramInv
<1>9. CountInv'
  <2>1. U!Latch \in result' => U!Latch \in result
    BY <1>2, <1>5
  <2>2. \A t \in 1 .. N : pc'[t] \in {"new", "down"} <=> pc[t] \in {"new", "down"}
    BY <1>2, <1>3
  <2> QED
    BY <1>1, <2>1, <2>2, CountKept
<1>10. RefInv' /\ refs' \in 0 .. N + 1
  <2>1. PICK H : H = Holders
    OBVIOUS
  <2>2. Holders' = H
    BY <1>1, <1>5, <2>1 DEF Holders, Holds
  <2>3. H \subseteq 1 .. N
    BY <2>1 DEF Holders
  <2>4. Cardinality(H) \in 0 .. N
    BY <2>3, TaskSets DEF UthreadParameters
  <2>5. Own = 1 /\ Own' = 0
    BY <1>1, <1>2, <1>3 DEF Own
  <2>6. refs = Cardinality(H) + 1 /\ (U!Collect \in result <=> refs = 0)
    BY <2>1, <2>5 DEF RefInv
  <2>7. refs' = Cardinality(Holders') + Own' /\ refs # 0 /\ (refs = 1 <=> refs' = 0)
    BY <1>5, <2>2, <2>4, <2>5, <2>6
  <2>8. U!Collect \in result' <=> refs' = 0
    BY <1>5, <2>6, <2>7
  <2>9. refs' \in 0 .. N + 1
    BY <1>5, <2>4, <2>6 DEF UthreadParameters
  <2> QED
    BY <2>7, <2>8, <2>9 DEF RefInv
<1>11. LaunchInv'
  BY <1>1, <1>2, <1>3, <1>5 DEF LaunchInv
<1>12. U!TypeOK'
  BY <1>1, <1>2, <1>5, <1>7, <1>10 DEF U!TypeOK, Jobs, U!Goto
<1>13. AliveInv'
  BY <1>1, <1>3 DEF AliveInv
<1>14. AwaitInv'
  BY <1>1, <1>3, <1>5 DEF AwaitInv, OutPc, EarlyPc
<1> QED
  BY <1>5, <1>6, <1>7, <1>8, <1>9, <1>10, <1>11, <1>12, <1>13, <1>14 DEF UthreadParameters

LEMMA StepLaunchTask ==
    ASSUME UthreadInv, NEW w \in Workers, U!LaunchTask(w) PROVE UthreadInv'
<1> USE DEF UthreadInv
<1>1. PICK t : t = launched + 1
  OBVIOUS
<1>2. /\ U!RunningOn(U!Main, w) /\ pc[U!Main] = "body" /\ launched < N /\ launched' = t
      /\ home' = [home EXCEPT ![U!Main] = w]
      /\ UNCHANGED <<policy, program, awaiting, joined, count, result, inner, misuse>>
  BY <1>1 DEF U!LaunchTask
<1>3. t \in 1 .. N /\ launched \in Nat /\ t \in Nat /\ t > launched
  BY <1>1, <1>2 DEF U!TypeOK, UthreadParameters
<1>4. U!Main \in U!Uthreads /\ \A x \in 1 .. N : x \in U!Uthreads /\ x # U!Main
  BY AwaitedFacts
<1>5. pc[t] = "new" /\ t \notin alive /\ t \notin joined
  <2>1. pc[t] = "new"
    BY <1>3 DEF LaunchInv
  <2> QED
    BY <1>3, <1>4, <2>1 DEF AliveInv
<1>6. \A j \in jobs : j.of # U!Main /\ j.of # t
  BY <1>2, <1>3, <1>4, <1>5, NoJobs
<1>7. PICK n : n = U!Job("start", t, Workers)
  OBVIOUS
<1>8. n.do = "start" /\ n.of = t /\ n.on = Workers /\ n \in Jobs /\ n \notin jobs
  <2>1. n.do = "start" /\ n.of = t /\ n.on = Workers
    BY <1>7, JobFields
  <2>2. n \in Jobs
    BY <1>3, <1>4, <1>7, JobType
  <2> QED
    BY <1>6, <2>1, <2>2
<1>9. \A x \in 1 .. N : x # t => U!Job("start", x, Workers) # n
  BY <1>8, JobFields
<1>10. \A v \in U!Uthreads : v # U!Main => home'[v] = home[v]
  BY <1>2 DEF U!TypeOK
<1>11. PICK H : H = Holders
  OBVIOUS
<1>12. /\ t \in H /\ Cardinality(H) \in 0 .. N /\ Cardinality(H) > 0
       /\ Cardinality(H \ {t}) = Cardinality(H) - 1 /\ refs = Cardinality(H) + 1 /\ Own = 1
       /\ U!Collect \notin result
  <2>1. H \subseteq 1 .. N /\ t \in H
    BY <1>3, <1>11 DEF Holders, Holds
  <2>2. /\ Cardinality(H) \in 0 .. N /\ Cardinality(H) > 0
        /\ Cardinality(H \ {t}) = Cardinality(H) - 1
    BY <2>1, TaskSets DEF UthreadParameters
  <2>3. Own = 1 /\ refs = Cardinality(H) + Own /\ (U!Collect \in result <=> refs = 0)
    BY <1>2, <1>11 DEF Own, RefInv
  <2>4. refs # 0
    BY <2>2, <2>3
  <2> QED
    BY <2>1, <2>2, <2>3, <2>4
<1>13. CASE pc' = pc /\ stack' = stack /\ alive' = alive
  <2>1. \A v \in U!Uthreads : U!Awaited(v)' = U!Awaited(v)
    BY <1>2 DEF U!Awaited
  <2>2. StackInv' /\ PlaceInv'
    <3>1. U!Goto(U!Main, "body") /\ "body" \in OnPc
      BY <1>2, <1>4, <1>13 DEF U!Goto, U!TypeOK, OnPc
    <3> QED
      BY <1>2, <1>13, <3>1, Moves
  <2>3. \/ jobs' = jobs \cup {n} /\ refs' = refs /\ refused' = refused
        \/ jobs' = jobs /\ refs' = refs - 1 /\ refused' = TRUE
    <3>1. pc'[t] = "new"
      BY <1>5, <1>13
    <3>2. ~(U!Goto(t, U!First(t)) /\ alive' = alive \cup {t})
      BY <1>5, <1>13
    <3> QED
      BY <1>1, <1>7, <3>2 DEF U!LaunchTask
  <2>4. JobInv' /\ jobs' \subseteq Jobs
    <3>1. \A j \in jobs : JobKept(j)
      BY <1>2, <1>6, <1>10, <1>13, JobOf DEF JobKept, JobHeld
    <3>2. JobOK(n)'
      BY <1>2, <1>3, <1>5, <1>8, <1>13 DEF JobOK, Where
    <3>3. \A j \in jobs' : j \in jobs \/ j = n
      BY <2>3
    <3>4. launched' \in Nat /\ launched <= launched' /\ result \subseteq result' /\ inner \subseteq inner'
      BY <1>2, <1>3
    <3> QED
      BY <1>2, <1>8, <3>1, <3>2, <3>3, <3>4, JobsStay
  <2>5. \A x \in 1 .. N : x # t => (U!Job("start", x, Workers) \in jobs' <=> U!Job("start", x, Workers) \in jobs)
    BY <1>9, <2>3
  <2>6. ProgramInv'
    BY <1>2, <1>13 DEF ProgramInv
  <2>7. CountInv'
    BY <1>2, <1>13, CountKept
  <2>8. \A x \in 1 .. N : x # t => (Holds(x)' <=> Holds(x))
    <3>1. \A x \in 1 .. N : x # t => (x > launched' <=> x > launched)
      BY <1>1, <1>2, <1>3
    <3> QED
      BY <1>13, <2>5, <3>1 DEF Holds
  <2>9. RefInv' /\ refs' \in 0 .. N + 1
    <3>1. CASE jobs' = jobs \cup {n} /\ refs' = refs /\ refused' = refused
      <4>1. Holds(t)' /\ Holds(t)
        BY <1>3, <1>7, <3>1 DEF Holds
      <4>2. \A x \in 1 .. N : Holds(x)' <=> Holds(x)
        BY <2>8, <4>1
      <4> QED
        BY <1>2, <1>13, <3>1, <4>2, RefsKept DEF U!TypeOK
    <3>2. CASE jobs' = jobs /\ refs' = refs - 1 /\ refused' = TRUE
      <4>1. ~Holds(t)'
        BY <1>2, <1>3, <1>5, <1>7, <1>8, <1>13, <3>2 DEF Holds
      <4>2. Holders' = H \ {t} /\ Own' = 1
        BY <1>2, <1>11, <1>12, <1>13, <2>8, <4>1 DEF Holders, Own
      <4>3. refs' = Cardinality(Holders') + Own' /\ refs' # 0 /\ refs' \in 0 .. N + 1
        BY <1>12, <3>2, <4>2 DEF UthreadParameters
      <4> QED
        BY <1>2, <1>12, <4>3 DEF RefInv
    <3> QED
      BY <2>3, <3>1, <3>2
  <2>10. LaunchInv'
    <3>1. ASSUME NEW x \in 1 .. N
          PROVE  /\ launched' < x => pc'[x] = "new"
                 /\ pc'[x] = "new" /\ x <= launched' /\ U!Job("start", x, Workers) \notin jobs' => refused'
      <4>1. refused => refused'
        BY <2>3
      <4>2. CASE x = t
        BY <1>2, <1>3, <1>7, <2>3, <4>2
      <4>3. CASE x # t
        <5>1. x <= launched' => x <= launched
          BY <1>1, <1>2, <1>3, <4>3
        <5>2. launched' < x => launched < x
          BY <1>1, <1>2, <1>3
        <5> QED
          BY <1>13, <2>5, <4>1, <4>3, <5>1, <5>2 DEF LaunchInv
      <4> QED
        BY <4>2, <4>3
    <3> QED
      BY <1>2, <1>13, <3>1 DEF LaunchInv
  <2>11. refused' \in BOOLEAN /\ (misuse' => refused')
    BY <1>2, <2>3 DEF U!TypeOK
  <2>12. U!TypeOK'
    <3>1. launched' \in 0 .. N
      BY <1>2, <1>3 DEF UthreadParameters
    <3>2. home' \in [U!Uthreads -> Workers]
      BY <1>2 DEF U!TypeOK
    <3>3. jobs' \subseteq Jobs /\ refs' \in 0 .. N + 1 /\ refused' \in BOOLEAN
      BY <2>4, <2>9, <2>11
    <3> QED
      BY <1>2, <1>13, <3>1, <3>2, <3>3 DEF U!TypeOK, Jobs
  <2>13. AliveInv'
    BY <1>2, <1>13 DEF AliveInv
  <2>14. AwaitInv'
    BY <1>2, <1>13, <2>1 DEF AwaitInv, OutPc, EarlyPc
  <2> QED
    BY <2>2, <2>4, <2>6, <2>7, <2>9, <2>10, <2>11, <2>12, <2>13, <2>14 DEF UthreadParameters
<1>14. CASE /\ stack' = [stack EXCEPT ![w] = Append(@, t)] /\ U!Goto(t, U!First(t))
            /\ alive' = alive \cup {t} /\ UNCHANGED <<jobs, refs, refused>>
  <2>1. PICK label : label = U!First(t)
    OBVIOUS
  <2>2. label \in {"await", "down", "end"} /\ (label = "down" <=> program[t] = "down")
    BY <1>3, <1>4, <2>1, FirstFacts
  <2>3. \A v \in U!Uthreads : U!Awaited(v)' = U!Awaited(v) /\ pc'[v] = IF v = t THEN label ELSE pc[v]
    BY <1>2, <1>14, <2>1 DEF U!Awaited, U!Goto, U!TypeOK
  <2>4. StackInv' /\ PlaceInv' /\ stack' \in [Workers -> Seq(U!Uthreads)]
    BY <1>2, <1>3, <1>5, <1>14, <2>1, <2>2, EntersOnTop
  <2>5. JobInv' /\ jobs' \subseteq Jobs
    <3>1. \A j \in jobs' : JobKept(j)
      BY <1>2, <1>6, <1>10, <1>14, <2>3, JobOf DEF JobKept, JobHeld
    <3>2. /\ launched' \in Nat /\ launched <= launched' /\ result \subseteq result'
          /\ inner \subseteq inner' /\ jobs' \subseteq jobs
      BY <1>2, <1>3, <1>14
    <3> QED
      BY <1>2, <3>1, <3>2, JobsKept
  <2>6. ProgramInv'
    BY <1>2, <1>3, <1>4, <2>2, <2>3 DEF ProgramInv
  <2>7. CountInv'
    <3>1. \A x \in 1 .. N : program[x] = "down" =>
             (pc'[x] \in {"new", "down"} <=> pc[x] \in {"new", "down"})
      BY <1>4, <1>5, <2>2, <2>3
    <3> QED
      BY <1>2, <3>1, CountKept
  <2>8. RefInv'
    <3>1. \A x \in 1 .. N : x # t => (x > launched' <=> x > launched)
      BY <1>1, <1>2, <1>3
    <3>2. \A x \in 1 .. N : Holds(x)' <=> Holds(x)
      BY <1>3, <1>14, <3>1 DEF Holds
    <3>3. pc'[U!Main] = pc[U!Main]
      BY <1>3, <1>4, <2>3
    <3> QED
      BY <1>2, <1>14, <3>2, <3>3, RefsKept
  <2>9. LaunchInv'
    <3>1. ASSUME NEW x \in 1 .. N
          PROVE  /\ launched' < x => pc'[x] = "new"
                 /\ pc'[x] = "new" /\ x <= launched' /\ U!Job("start", x, Workers) \notin jobs' => refused'
      <4>1. CASE x = t
        BY <1>2, <1>3, <1>4, <2>2, <2>3, <4>1
      <4>2. CASE x # t
        <5>1. x <= launched' => x <= launched
          BY <1>1, <1>2, <1>3, <4>2
        <5>2. launched' < x => launched < x
          BY <1>1, <1>2, <1>3
        <5> QED
          BY <1>4, <1>14, <2>3, <4>2, <5>1, <5>2 DEF LaunchInv
      <4> QED
        BY <4>1, <4>2
    <3>2. pc'[U!Main] = pc[U!Main]
      BY <1>3, <1>4, <2>3
    <3> QED
      BY <1>2, <3>1, <3>2 DEF LaunchInv
  <2>10. U!TypeOK'
    BY <1>2, <1>3, <1>4, <1>14, <2>1, <2>2, <2>4, <2>5 DEF U!TypeOK, Jobs, U!Goto
  <2>11. AliveInv'
    BY <1>2, <1>5, <1>14, <2>2, <2>3 DEF AliveInv
  <2>12. AwaitInv'
    BY <1>2, <1>5, <2>2, <2>3 DEF AwaitInv, OutPc, EarlyPc
  <2> QED
    BY <1>2, <1>14, <2>4, <2>5, <2>6, <2>7, <2>8, <2>9, <2>10, <2>11, <2>12 DEF UthreadParameters
<1> QED
  BY <1>1, <1>13, <1>14 DEF U!LaunchTask

----
(* The initial states, and the specification *)

LEMMA InitUthreadInv ==
    ASSUME UthreadParameters, U!Init PROVE UthreadInv
<1>1. UthreadParameters
  OBVIOUS
<1>2. /\ U!Main \in U!Uthreads /\ U!Main = 0 /\ \A t \in 1 .. N : t \in U!Uthreads /\ t \in Nat /\ t > 0
      /\ \A t \in 1 .. N : t # U!Main
  BY <1>1 DEF UthreadParameters, U!Main, U!Uthreads
<1>3. PICK n : n = U!Job("start", U!Main, Workers)
  OBVIOUS
<1>4. n \in Jobs /\ n.do = "start" /\ n.of = U!Main /\ n.on = Workers /\ jobs = {n}
  <2>1. n.do = "start" /\ n.of = U!Main /\ n.on = Workers
    BY <1>3, JobFields
  <2>2. n \in Jobs
    BY <1>2, <1>3, JobType
  <2> QED
    BY <1>3, <2>1, <2>2 DEF U!Init
<1>5. \A u \in U!Uthreads : pc[u] = "new"
  BY DEF U!Init
<1>6. \A w \in Workers : stack[w] = <<>> /\ U!ToSet(stack[w]) = {}
  BY ShortStacks DEF U!Init
<1>7. count \in 0 .. N /\ count = Cardinality(DownsLeft)
  <2>1. DownsLeft = {t \in 1 .. N : program[t] = "down"}
    BY <1>2, <1>5 DEF DownsLeft
  <2>2. PICK S : S = {t \in 1 .. N : program[t] = "down"}
    OBVIOUS
  <2>3. S \subseteq 1 .. N
    BY <2>2
  <2>4. Cardinality(S) \in 0 .. N
    BY <1>1, <2>3, TaskSets DEF UthreadParameters
  <2> QED
    BY <2>1, <2>2, <2>4 DEF U!Init, U!Cardinality, Cardinality
<1>8. U!TypeOK
  <2>1. home \in [U!Uthreads -> Workers]
    <3>1. (CHOOSE w \in Workers : TRUE) \in Workers
      BY <1>1 DEF UthreadParameters
    <3> QED
      BY <3>1 DEF U!Init
  <2>2. stack \in [Workers -> Seq(U!Uthreads)]
    BY DEF U!Init
  <2>3. refs \in 0 .. N + 1 /\ launched \in 0 .. N
    BY <1>1 DEF U!Init, UthreadParameters
  <2> QED
    BY <1>4, <1>7, <2>1, <2>2, <2>3 DEF U!Init, U!TypeOK, Jobs
<1>9. StackInv /\ PlaceInv /\ AliveInv
  BY <1>5, <1>6 DEF U!Init, StackInv, PlaceInv, AliveInv
<1>10. JobInv
  <2>1. pc[U!Main] = "new" /\ U!Main <= launched
    BY <1>2, <1>5 DEF U!Init
  <2>2. JobOK(n)
    BY <1>4, <2>1 DEF JobOK, Where
  <2> QED
    BY <1>4, <2>2 DEF JobInv
<1>11. AwaitInv
  BY <1>5 DEF U!Init, AwaitInv, EarlyPc
<1>12. ProgramInv
  BY <1>2, <1>5 DEF U!Init, ProgramInv
<1>13. CountInv
  BY <1>7 DEF U!Init, CountInv
<1>14. RefInv
  <2>1. Holders = 1 .. N
    BY <1>2 DEF U!Init, Holders, Holds
  <2>2. Cardinality(1 .. N) = N
    <3>1. N \in Int /\ 1 \in Int /\ N \in Nat
      BY <1>1 DEF UthreadParameters
    <3>2. Cardinality(1 .. N) = IF 1 > N THEN 0 ELSE N - 1 + 1
      BY <3>1, FS_Interval
    <3> QED
      BY <3>1, <3>2
  <2>3. Own = 1
    BY <1>2, <1>5 DEF Own
  <2>4. refs = N + 1 /\ result = {} /\ refs # 0
    BY <1>1 DEF U!Init, UthreadParameters
  <2> QED
    BY <2>1, <2>2, <2>3, <2>4 DEF RefInv
<1>15. LaunchInv
  BY <1>2, <1>5 DEF U!Init, LaunchInv
<1> QED
  BY <1>1, <1>8, <1>9, <1>10, <1>11, <1>12, <1>13, <1>14, <1>15 DEF UthreadInv, U!Init

LEMMA StutterUthreadInv ==
    ASSUME UthreadInv, UNCHANGED U!vars PROVE UthreadInv'
<1> USE DEF UthreadInv, U!vars
<1>1. U!TypeOK' /\ StackInv' /\ PlaceInv' /\ AliveInv'
  BY DEF U!TypeOK, StackInv, PlaceInv, AliveInv
<1>2. JobInv' /\ AwaitInv' /\ ProgramInv'
  BY DEF JobInv, JobOK, Where, AwaitInv, U!Awaited, ProgramInv
<1>3. CountInv' /\ RefInv' /\ LaunchInv'
  BY DEF CountInv, DownsLeft, RefInv, Holders, Holds, Own, LaunchInv
<1> QED
  BY <1>1, <1>2, <1>3 DEF UthreadParameters

LEMMA StepUthreadInv ==
    ASSUME UthreadInv, [U!Next]_(U!vars) PROVE UthreadInv'
<1>1. CASE UNCHANGED U!vars
  BY <1>1, StutterUthreadInv
<1>2. ASSUME NEW t \in 1 .. N, U!SetFuture(t) PROVE UthreadInv'
  BY <1>2, StepSetFuture
<1>3. ASSUME NEW w \in Workers, U!Step(w) PROVE UthreadInv'
  <2>1. CASE \E j \in jobs : U!Start(j, w) \/ U!SwitchIn(j, w) \/ U!RunSet(j, w) \/ U!RunFree(j, w)
    BY <2>1, StepStart, StepSwitchIn, StepRunSet, StepRunFree
  <2>2. CASE U!LaunchTask(w) \/ U!Launched(w)
    BY <2>2, StepLaunchTask, StepLaunched
  <2>3. CASE \E u \in U!Uthreads : U!DownCount(u, w) \/ U!AwaitCheck(u, w) \/ U!ThenTry(u, w)
    BY <2>3, StepDownCount, StepAwaitCheck, StepThenTry
  <2>4. CASE \E u \in U!Uthreads : U!SwitchOut(u, w) \/ U!Done(u, w) \/ U!FinalSwitchOut(u, w)
    BY <2>4, StepSwitchOut, StepDone, StepFinalSwitchOut
  <2> QED
    BY <1>3, <2>1, <2>2, <2>3, <2>4 DEF U!Step
<1> QED
  BY <1>1, <1>2, <1>3 DEF U!Next

\* The invariant that the theorems below rest on.
THEOREM UthreadInvariant ==
    ASSUME UthreadParameters PROVE U!Spec => []UthreadInv
<1>1. U!Init => UthreadInv
  BY InitUthreadInv
<1>2. UthreadInv /\ [U!Next]_(U!vars) => UthreadInv'
  BY StepUthreadInv
<1> QED
  BY <1>1, <1>2, PTL DEF U!Spec

\* uthread::await, Async.h and thread.h: unless the executor refuses, a uthread is switched
\* in only when it has switched out, is on one stack once, and has its stack while it runs.
THEOREM UthreadSwitchesSafely ==
    ASSUME UthreadParameters PROVE U!Spec => []U!SwitchedSafely
<1>1. UthreadInv => U!SwitchedSafely
  <2> SUFFICES ASSUME UthreadInv PROVE U!SwitchedSafely
    OBVIOUS
  <2> USE DEF UthreadInv
  <2>1. ASSUME NEW w \in Workers
        PROVE  U!IsInjective(stack[w]) /\ U!ToSet(stack[w]) \subseteq alive
    <3>1. U!ToSet(stack[w]) \subseteq alive
      <4>1. \A u \in U!ToSet(stack[w]) : u \in U!Uthreads /\ pc[u] \in OnPc
        BY DEF U!TypeOK, U!ToSet, PlaceInv
      <4> QED
        BY <4>1 DEF AliveInv, OnPc
    <3>2. U!IsInjective(stack[w])
      <4>1. CASE stack[w] = <<>>
        BY <4>1, ShortStacks
      <4>2. CASE \E u \in U!Uthreads : stack[w] = <<u>>
        BY <4>2, ShortStacks
      <4>3. CASE \E t \in 1 .. N : stack[w] = <<U!Main, t>>
        <5>1. PICK t \in 1 .. N : stack[w] = <<U!Main, t>>
          BY <4>3
        <5>2. U!Main # t
          BY <5>1, AwaitedFacts
        <5>3. U!IsInjective(<<U!Main, t>>)
          BY <5>2, ShortStacks
        <5> QED
          BY <5>1, <5>3
      <4> QED
        BY <4>1, <4>2, <4>3 DEF StackInv
    <3> QED
      BY <3>1, <3>2
  <2> QED
    BY <2>1 DEF U!SwitchedSafely, PlaceInv
<1> QED
  BY <1>1, UthreadInvariant, PTL

\* Await.h, Latch.h and Collect.h: await returns with a result, a Latch's when the count is
\* zero, and collectAll's when every task that was not refused has ended.
THEOREM UthreadAwaitReturnsLate ==
    ASSUME UthreadParameters PROVE U!Spec => []U!AwaitReturnsLate
<1>1. UthreadInv => U!AwaitReturnsLate
  <2> SUFFICES ASSUME UthreadInv PROVE U!AwaitReturnsLate
    OBVIOUS
  <2> USE DEF UthreadInv
  <2>1. ASSUME NEW u \in U!Uthreads, u # U!Main, pc[U!Main] \in {"in", "end", "final", "finished"}
        PROVE  u \notin alive /\ (pc[u] = "finished" \/ (refused /\ pc[u] = "new"))
    <3>1. u \in 1 .. N
      BY <2>1, AwaitedFacts
    <3>2. ~Holds(u)
      <4>1. PICK H : H = Holders
        OBVIOUS
      <4>2. H \subseteq 1 .. N
        BY <4>1 DEF Holders
      <4>3. Cardinality(H) \in Nat /\ (Cardinality(H) = 0 => H = {})
        BY <4>2, TaskSets DEF UthreadParameters
      <4>4. Cardinality(H) + Own = 0 /\ Own \in Nat
        BY <2>1, <4>1 DEF LaunchInv, RefInv, Own
      <4>5. H = {}
        BY <4>3, <4>4
      <4> QED
        BY <3>1, <4>1, <4>5 DEF Holders
    <3>3. u \notin alive /\ U!Job("start", u, Workers) \notin jobs /\ u <= launched
      <4>1. u \in Nat /\ launched \in Nat
        BY <3>1 DEF U!TypeOK, UthreadParameters
      <4> QED
        BY <3>2, <4>1 DEF Holds
    <3> QED
      BY <3>1, <3>3 DEF AliveInv, LaunchInv
  <2>2. \A u \in U!Uthreads : pc[u] = "in" => u \in inner /\ U!Awaited(u) \in result
    BY DEF AwaitInv
  <2>3. U!Latch \in result => count = 0
    BY DEF CountInv
  <2> QED
    BY <2>1, <2>2, <2>3 DEF U!AwaitReturnsLate
<1> QED
  BY <1>1, UthreadInvariant, PTL
====
