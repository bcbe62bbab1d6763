---- MODULE SignalReorder ----
(* Slot::emplace where the machine lets a load overtake an earlier store, as x86 and  *)
(* ARM do: the store of a new manager is memory_order_release and the load of the      *)
(* signal's state after it memory_order_acquire, so nothing keeps them in order.       *)
EXTENDS MCSignal

\* emplace with a new type: the state is read while the store of the manager is still
\* on its way to the other threads
EmplaceStateFirst(s, t, h) ==
    /\ pc[s] = "idle" /\ fate[h] = "new"
    /\ t \notin ToSet(managers[s]) /\ t \notin state[SignalOf[s]]
    /\ made' = [made EXCEPT ![h] = [slot |-> s, type |-> t]]
    /\ alive' = alive \cup {h} /\ Decide(h, "emplacing")
    /\ op' = [op EXCEPT ![s] = [type |-> t, new |-> h, old |-> Null]]
    /\ Goto(s, "publish")
    /\ UNCHANGED <<object, work, emits, calls, wins>>

\* the store becomes visible, before the compare_exchange at the latest
PublishLate(s) ==
    /\ pc[s] = "publish"
    /\ managers' = [managers EXCEPT ![s] = <<op[s].type>> \o @]
    /\ Goto(s, "emplaceLoad")
    /\ UNCHANGED <<state, nodes, filter, handler, chained, op, work, emits, fate, history>>

ReorderNext ==
    \/ Next
    \/ \E s \in Slots : PublishLate(s)
    \/ \E s \in Slots, t \in Types, h \in Handlers : EmplaceStateFirst(s, t, h)

ReorderSpec == Init /\ [][ReorderNext]_vars

\* emplace: "if signal triggered later, we will found it by atomic handler CAS failed":
\* no handler is left installed when its signal was emitted and all emits are over.
LaterTriggerIsFound ==
    (\A e \in Emitters : work[e] = <<>>) =>
        \A h \in Handlers : fate[h] = "installed" /\ made[h].slot \notin Filtered =>
            made[h].type \notin state[SignalOf[made[h].slot]]
====
