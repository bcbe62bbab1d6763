---- MODULE OneShot ----
(* What a Promise/Future pair promises: it is resolved at most once, a continuation *)
(* is attached at most once, and when both have happened the continuation receives  *)
(* that one result, once.                                                           *)
EXTENDS Naturals

CONSTANTS Results, Nothing

VARIABLES result, attached, outcome

oneShotVars == <<result, attached, outcome>>

Init == result = Nothing /\ attached = FALSE /\ outcome = Nothing

Resolve(r) ==
    /\ result = Nothing
    /\ result' = r
    /\ UNCHANGED <<attached, outcome>>

Attach ==
    /\ ~attached
    /\ attached' = TRUE
    /\ UNCHANGED <<result, outcome>>

Deliver ==
    /\ attached /\ result # Nothing /\ outcome = Nothing
    /\ outcome' = result
    /\ UNCHANGED <<result, attached>>

Next == Attach \/ Deliver \/ \E r \in Results : Resolve(r)

Safety == Init /\ [][Next]_oneShotVars
Spec == Safety /\ WF_oneShotVars(Deliver)
====
