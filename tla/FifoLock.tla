---- MODULE FifoLock ----
(* What a fair lock promises: one holder, and a queue it is handed along in order. *)
EXTENDS Sequences

CONSTANTS Coros, Nobody

VARIABLES holder, queue

lockVars == <<holder, queue>>

Init == holder = Nobody /\ queue = <<>>

Acquire(c) ==
    /\ holder = Nobody
    /\ holder' = c
    /\ UNCHANGED queue

Enqueue(c) ==
    /\ holder # Nobody /\ holder # c
    /\ queue' = Append(queue, c)
    /\ UNCHANGED holder

Release ==
    /\ holder # Nobody
    /\ \/ queue = <<>> /\ holder' = Nobody /\ UNCHANGED queue
       \/ queue # <<>> /\ holder' = Head(queue) /\ queue' = Tail(queue)

Next == Release \/ \E c \in Coros : Acquire(c) \/ Enqueue(c)

Safety == Init /\ [][Next]_lockVars
Spec == Safety /\ WF_lockVars(Release)
====
