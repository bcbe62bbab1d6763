---- MODULE MCSignal ----
(* A signal with slot s1, and a second signal with slot s2 that the owner of s1 may   *)
(* chain to its slot, as collectAny does.                                            *)
EXTENDS Signal, TLC

CONSTANTS outer, inner, s1, s2

MCSignalOf == (s1 :> outer) @@ (s2 :> inner)
MCChainOf == (s1 :> inner) @@ (s2 :> NoSignal)
====
