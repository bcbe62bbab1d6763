---- MODULE MCThreadPool ----
(* A pool of two workers; a client schedules the jobs a and b, and a, while it runs, *)
(* schedules d; b schedules e, an empty function.                                    *)
EXTENDS ThreadPool, TLC

CONSTANTS client, a, b, d, e

MCParent == (a :> client) @@ (b :> client) @@ (d :> a) @@ (e :> b)
MCWorkers == Workers
MCThreads == Threads
====
