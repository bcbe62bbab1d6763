---- MODULE Signal ----
(* Signal.h: signals, the slots bound to them and the handlers in the slots. Threads *)
(* emit concurrently; each slot has one owner, who registers it, emplaces and clears *)
(* handlers, changes its filter and chains another signal to it. One step is one     *)
(* atomic access. An emits() is a stack of work: a slot's chained signal is emitted  *)
(* before the rest of the slot and the slots after it are visited.                   *)
EXTENDS Integers, Sequences, FiniteSets, SequencesExt

CONSTANTS
    Signals,       \* the signals
    Slots,         \* the slots, each with its owner
    SignalOf,      \* per slot, the signal it is bound to
    ChainOf,       \* per slot, the signal its owner may chain to it, or NoSignal
    NoSignal,
    OnceTypes,     \* low 32 bits: trigger once
    MultiTypes,    \* high 32 bits: may trigger many times
    Filtered,      \* the slots whose owner changes the filter
    Emitters,      \* threads that emit
    MaxEmits,      \* bound: calls of emits per emitter
    Handlers       \* bound: the handlers there are to emplace

Types == OnceTypes \cup MultiTypes

ASSUME SignalAssumption ==
    /\ SignalOf \in [Slots -> Signals] /\ ChainOf \in [Slots -> Signals \cup {NoSignal}]
    /\ NoSignal \notin Signals
    /\ OnceTypes \cap MultiTypes = {} /\ Filtered \subseteq Slots
    /\ MaxEmits \in Nat
    /\ Handlers \cap {"null", "emittedTag"} = {}

VARIABLES
    state,    \* per signal, Signal::_state: the types triggered so far
    nodes,    \* per signal, the list at _slotsHead, the newest slot first
    filter,   \* per slot, _filter
    managers, \* per slot, the types of the list at _handlerManager, the newest first
    handler,  \* per slot and type, HandlerManager::_handler
    chained,  \* per slot, whether _chainedSignalHandler is set
    pc,       \* per slot, what its owner does
    op,       \* per slot, its owner's type, new handler and old handler
    work,     \* per emitter, what is left of its emits(), innermost first
    emits,    \* per emitter, the calls made
    made,     \* per handler, the slot and the type it was made for
    fate,     \* per handler: "new", "emplacing", "installed", "refused", "revoked", "taken"
    calls,    \* per handler, how often it was called
    alive,    \* the handlers that have not been deleted
    wins      \* per signal and type, the emits() calls that returned the type

object == <<state, nodes, filter, managers, handler, chained>>
owners == <<pc, op>>
history == <<made, calls, alive, wins>>
vars == <<object, owners, work, emits, fate, history>>

Null == "null"
EmittedTag == "emittedTag"
NoOp == [type |-> Null, new |-> Null, old |-> Null]

Init ==
    /\ state = [g \in Signals |-> {}] /\ nodes = [g \in Signals |-> <<>>]
    /\ filter = [s \in Slots |-> Types] /\ managers = [s \in Slots |-> <<>>]
    /\ handler = [s \in Slots |-> [t \in Types |-> Null]]
    /\ chained = [s \in Slots |-> FALSE]
    /\ pc = [s \in Slots |-> "new"] /\ op = [s \in Slots |-> NoOp]
    /\ work = [e \in Emitters |-> <<>>] /\ emits = [e \in Emitters |-> 0]
    /\ made = [h \in Handlers |-> [slot |-> Null, type |-> Null]]
    /\ fate = [h \in Handlers |-> "new"]
    /\ calls = [h \in Handlers |-> 0] /\ alive = {}
    /\ wins = [g \in Signals |-> [t \in Types |-> 0]]

Goto(s, label) == pc' = [pc EXCEPT ![s] = label]
Decide(h, f) == fate' = [fate EXCEPT ![h] = f]

----
(* The owner of a slot.                                                            *)

\* Slot's constructor: registSlot pushes the node
RegistSlot(s) ==
    /\ pc[s] = "new"
    /\ nodes' = [nodes EXCEPT ![SignalOf[s]] = <<s>> \o @]
    /\ Goto(s, "idle")
    /\ UNCHANGED <<state, filter, managers, handler, chained, op, work, emits, fate, history>>

\* emplace: the handler is made, and loadHandler<true> publishes a manager for the type
Emplace(s, t, h) ==
    /\ pc[s] = "idle" /\ fate[h] = "new"
    /\ made' = [made EXCEPT ![h] = [slot |-> s, type |-> t]]
    /\ alive' = alive \cup {h} /\ Decide(h, "emplacing")
    /\ managers' = [managers EXCEPT ![s] = IF t \in ToSet(@) THEN @ ELSE <<t>> \o @]
    /\ op' = [op EXCEPT ![s] = [type |-> t, new |-> h, old |-> Null]]
    /\ Goto(s, "emplaceState")
    /\ UNCHANGED <<state, nodes, filter, handler, chained, work, emits, calls, wins>>

\* emplace returns false and the new handler is deleted
Refuse(s) ==
    /\ Decide(op[s].new, "refused")
    /\ alive' = alive \ {op[s].new}
    /\ op' = [op EXCEPT ![s] = NoOp]
    /\ Goto(s, "idle")

\* faulty variant: the state is not looked at
EmplaceStateUnread(s) ==
    /\ pc[s] = "emplaceState"
    /\ \/ /\ FALSE
          /\ Refuse(s)
       \/ /\ TRUE
          /\ Goto(s, "emplaceLoad")
          /\ UNCHANGED <<op, fate, alive>>
    /\ UNCHANGED <<object, work, emits, made, calls, wins>>

\* has the trigger-once signal been triggered?
EmplaceState(s) ==
    /\ pc[s] = "emplaceState"
    /\ \/ /\ op[s].type \in OnceTypes /\ op[s].type \in state[SignalOf[s]]
          /\ Refuse(s)
       \/ /\ ~(op[s].type \in OnceTypes /\ op[s].type \in state[SignalOf[s]])
          /\ Goto(s, "emplaceLoad")
          /\ UNCHANGED <<op, fate, alive>>
    /\ UNCHANGED <<object, work, emits, made, calls, wins>>

\* faulty variant: a slot that has a handler refuses another
EmplaceLoadRefuses(s) ==
    /\ pc[s] = "emplaceLoad"
    /\ LET old == handler[s][op[s].type] IN
       \/ old # Null /\ Refuse(s)
       \/ /\ old = Null
          /\ op' = [op EXCEPT ![s].old = old]
          /\ Goto(s, "emplaceCas")
          /\ UNCHANGED <<fate, alive>>
    /\ UNCHANGED <<object, work, emits, made, calls, wins>>

EmplaceLoad(s) ==
    /\ pc[s] = "emplaceLoad"
    /\ LET old == handler[s][op[s].type] IN
       \/ old = EmittedTag /\ Refuse(s)
       \/ /\ old # EmittedTag
          /\ op' = [op EXCEPT ![s].old = old]
          /\ Goto(s, "emplaceCas")
          /\ UNCHANGED <<fate, alive>>
    /\ UNCHANGED <<object, work, emits, made, calls, wins>>

\* the compare_exchange that installs the new handler; the old one is deleted
EmplaceCas(s) ==
    /\ pc[s] = "emplaceCas"
    /\ LET old == op[s].old  t == op[s].type IN
       \/ /\ handler[s][t] = old
          /\ handler' = [handler EXCEPT ![s][t] = op[s].new]
          /\ fate' = [h \in Handlers |-> CASE h = op[s].new -> "installed"
                                           [] h # op[s].new /\ h = old -> "revoked"
                                           [] OTHER -> fate[h]]
          /\ alive' = alive \ {old}
          /\ op' = [op EXCEPT ![s] = NoOp]
          /\ Goto(s, "idle")
       \/ handler[s][t] # old /\ Refuse(s) /\ UNCHANGED handler
    /\ UNCHANGED <<state, nodes, filter, managers, chained, work, emits, made, calls, wins>>

\* clear: nothing to clear, or the handler was emitted: false
Clear(s, t) ==
    /\ pc[s] = "idle"
    /\ t \in ToSet(managers[s])
    /\ \/ /\ handler[s][t] \in {Null, EmittedTag}
          /\ UNCHANGED owners
       \/ /\ handler[s][t] \notin {Null, EmittedTag}
          /\ op' = [op EXCEPT ![s] = [type |-> t, new |-> Null, old |-> handler[s][t]]]
          /\ Goto(s, "clearCas")
    /\ UNCHANGED <<object, work, emits, fate, made, calls, alive, wins>>

ClearCas(s) ==
    /\ pc[s] = "clearCas"
    /\ LET old == op[s].old  t == op[s].type IN
       \/ /\ handler[s][t] = old
          /\ handler' = [handler EXCEPT ![s][t] = Null]
          /\ Decide(old, "revoked")
          /\ alive' = alive \ {old}
       \/ /\ handler[s][t] # old
          /\ UNCHANGED <<handler, fate, alive>>
    /\ op' = [op EXCEPT ![s] = NoOp]
    /\ Goto(s, "idle")
    /\ UNCHANGED <<state, nodes, filter, managers, chained, work, emits, made, calls, wins>>

\* setFilter, and a FilterGuard made or destroyed
SetFilter(s, f) ==
    /\ pc[s] = "idle" /\ s \in Filtered
    /\ filter' = [filter EXCEPT ![s] = f]
    /\ UNCHANGED <<state, nodes, managers, handler, chained, owners, work, emits, fate, history>>

\* chainedSignal(signal) and chainedSignal(nullptr)
ChainedSignal(s) ==
    /\ pc[s] = "idle" /\ ChainOf[s] # NoSignal
    /\ chained' = [chained EXCEPT ![s] = ~@]
    /\ UNCHANGED <<state, nodes, filter, managers, handler, owners, work, emits, fate, history>>

----
(* The emitter. An item of work is an emits() to begin, a slot to visit, or the      *)
(* managers of a slot still to look at.                                              *)

Item(o, g, s, ts, l, h) ==
    [do |-> o, signal |-> g, slot |-> s, types |-> ts, list |-> l, handler |-> h]
UpdateItem(g, ts) == Item("update", g, Null, ts, <<>>, Null)
WalkItem(g, ts) == Item("walk", g, Null, ts, <<>>, Null)
SlotItem(s, ts) == Item("filter", SignalOf[s], s, ts, <<>>, Null)
LoadItem(s, ts) == Item("load", SignalOf[s], s, ts, <<>>, Null)
ChainItem(s, ts, l) == Item("chain", SignalOf[s], s, ts, l, Null)
VisitItem(s, ts, l) == Item("visit", SignalOf[s], s, ts, l, Null)
CallItem(s, t, h) == Item("call", SignalOf[s], s, {t}, <<>>, h)

\* The emitter's work is the items in front of the ones it had after the first.
Instead(e, items) == work' = [work EXCEPT ![e] = items \o Tail(@)]
Doing(e, o) == work[e] # <<>> /\ Head(work[e]).do = o

Emit(e, g, ts) ==
    /\ work[e] = <<>> /\ emits[e] < MaxEmits
    /\ emits' = [emits EXCEPT ![e] = @ + 1]
    /\ work' = [work EXCEPT ![e] = <<UpdateItem(g, ts)>>]
    /\ UNCHANGED <<object, owners, fate, history>>

\* faulty variant: emits returns what it was asked for
ValidAll(g, ts) == ts

\* What an emits of the types ts triggers on a signal: once-types only the first time.
Valid(g, ts) == (ts \ state[g]) \cup (ts \cap MultiTypes)

\* UpdateState, the compare_exchange that succeeds
UpdateState(e) ==
    /\ Doing(e, "update")
    /\ LET g == Head(work[e]).signal
           ts == Head(work[e]).types
           valid == Valid(g, ts)
       IN /\ state' = [state EXCEPT ![g] = @ \cup ts]
          /\ wins' = [wins EXCEPT ![g] = [t \in Types |-> @[t] + IF t \in valid THEN 1 ELSE 0]]
          /\ Instead(e, IF valid = {} THEN <<>> ELSE <<WalkItem(g, valid)>>)
    /\ UNCHANGED <<nodes, filter, managers, handler, chained, owners, emits, fate, made, calls,
                   alive>>

\* the loop over the list that _slotsHead gives
WalkSlots(e) ==
    /\ Doing(e, "walk")
    /\ LET i == Head(work[e]) IN
       Instead(e, [n \in DOMAIN nodes[i.signal] |-> SlotItem(nodes[i.signal][n], i.types)])
    /\ UNCHANGED <<object, owners, emits, fate, history>>

\* operator(): the filter, then the list of managers and the chained signal
LoadFilter(e) ==
    /\ Doing(e, "filter")
    /\ LET i == Head(work[e])  rest == i.types \cap filter[i.slot] IN
       Instead(e, IF rest = {} THEN <<>> ELSE <<LoadItem(i.slot, rest)>>)
    /\ UNCHANGED <<object, owners, emits, fate, history>>

LoadManagers(e) ==
    /\ Doing(e, "load")
    /\ LET i == Head(work[e]) IN
       Instead(e, <<ChainItem(i.slot, i.types, managers[i.slot])>>)
    /\ UNCHANGED <<object, owners, emits, fate, history>>

\* the chained signal is emitted before the managers are visited
LoadChained(e) ==
    /\ Doing(e, "chain")
    /\ LET i == Head(work[e]) IN
       Instead(e, (IF chained[i.slot] THEN <<UpdateItem(ChainOf[i.slot], i.types)>> ELSE <<>>)
                  \o <<VisitItem(i.slot, i.types, i.list)>>)
    /\ UNCHANGED <<object, owners, emits, fate, history>>

\* invoke: exchange for a trigger-once type, load for the others
InvokeLeaves(t, h) == IF t \in OnceTypes THEN EmittedTag ELSE h

\* invoke on the next manager whose type is among those to deliver
Visit(e) ==
    /\ Doing(e, "visit")
    /\ LET i == Head(work[e]) IN
       \/ /\ i.types = {} \/ i.list = <<>>
          /\ Instead(e, <<>>) /\ UNCHANGED <<handler, fate>>
       \/ /\ i.types # {} /\ i.list # <<>> /\ Head(i.list) \notin i.types
          /\ Instead(e, <<VisitItem(i.slot, i.types, Tail(i.list))>>)
          /\ UNCHANGED <<handler, fate>>
       \/ /\ i.types # {} /\ i.list # <<>> /\ Head(i.list) \in i.types
          /\ LET t == Head(i.list)
                 h == handler[i.slot][t]
             IN /\ Instead(e, (IF h \in Handlers THEN <<CallItem(i.slot, t, h)>> ELSE <<>>)
                              \o <<VisitItem(i.slot, i.types \ {t}, Tail(i.list))>>)
                /\ handler' = [handler EXCEPT ![i.slot][t] = InvokeLeaves(t, h)]
                /\ fate' = IF t \in OnceTypes /\ h \in Handlers
                           THEN [fate EXCEPT ![h] = "taken"] ELSE fate
    /\ UNCHANGED <<state, nodes, filter, managers, chained, owners, emits, history>>

\* (*handler)(signal, self); the handler of a once-type is deleted after the call
CallHandler(e) ==
    /\ Doing(e, "call")
    /\ LET i == Head(work[e]) IN
       /\ calls' = [calls EXCEPT ![i.handler] = @ + 1]
       /\ alive' = IF i.types \subseteq OnceTypes THEN alive \ {i.handler} ELSE alive
    /\ Instead(e, <<>>)
    /\ UNCHANGED <<object, owners, emits, fate, made, wins>>

OwnerStep(s) == EmplaceState(s) \/ EmplaceLoad(s) \/ EmplaceCas(s) \/ ClearCas(s)
OwnerCall(s) ==
    \/ RegistSlot(s) \/ ChainedSignal(s)
    \/ \E t \in Types, h \in Handlers : Emplace(s, t, h)
    \/ \E t \in Types : Clear(s, t)
    \/ \E f \in SUBSET Types : SetFilter(s, f)
EmitterStep(e) == UpdateState(e) \/ WalkSlots(e) \/ LoadFilter(e) \/ LoadManagers(e)
                  \/ LoadChained(e) \/ Visit(e) \/ CallHandler(e)

Next ==
    \/ \E s \in Slots : OwnerStep(s) \/ OwnerCall(s)
    \/ \E e \in Emitters : EmitterStep(e)
    \/ \E e \in Emitters, g \in Signals, ts \in SUBSET Types \ {{}} : Emit(e, g, ts)

Spec == Init /\ [][Next]_vars

\* The operating system runs the threads that are inside emits, emplace or clear.
FairSpec ==
    /\ Spec
    /\ \A s \in Slots : WF_vars(OwnerStep(s))
    /\ \A e \in Emitters : WF_vars(EmitterStep(e))

----
TypeOK ==
    /\ state \in [Signals -> SUBSET Types]
    /\ \A g \in Signals : ToSet(nodes[g]) \subseteq {s \in Slots : SignalOf[s] = g}
    /\ filter \in [Slots -> SUBSET Types]
    /\ \A s \in Slots : ToSet(managers[s]) \subseteq Types /\ IsInjective(managers[s])
    /\ handler \in [Slots -> [Types -> Handlers \cup {Null, EmittedTag}]]
    /\ chained \in [Slots -> BOOLEAN]
    /\ pc \in [Slots -> {"new", "idle", "emplaceState", "emplaceLoad", "emplaceCas", "clearCas"}]
    /\ fate \in [Handlers -> {"new", "emplacing", "installed", "refused", "revoked", "taken"}]
    /\ alive \subseteq Handlers

\* invoke: the handler that is called has not been deleted.
CalledWhileAlive == \A e \in Emitters : Doing(e, "call") => Head(work[e]).handler \in alive

\* invoke, emplace and clear: a trigger-once handler is called at most once, and not at
\* all when its owner was told that it will not be: emplace answered false for it, and
\* "Returns false if the signal has already been triggered" only; clear answered true;
\* or a later emplace replaced it. What is called has not been deleted.
CalledAsAnswered ==
    /\ TypeOK /\ CalledWhileAlive
    /\ \A h \in Handlers : made[h].type \in OnceTypes =>
         /\ calls[h] <= 1
         /\ fate[h] \in {"refused", "revoked"} => calls[h] = 0
         /\ fate[h] = "refused" => made[h].type \in state[SignalOf[made[h].slot]]

\* emits "will return the signal which success triggered": of concurrent emits of a
\* trigger-once signal, on a signal or on one chained to it, one alone triggers it.
TriggersOnce == \A g \in Signals, t \in OnceTypes : wins[g][t] <= 1

\* emplace answered true: a signal triggered before or afterwards is never missed; its
\* handler is called in the end, unless the owner takes it back or filters the signal.
TriggeredIsHandled == \A h \in Handlers, s \in Slots \ Filtered, t \in Types :
    (/\ fate[h] = "installed" /\ made[h] = [slot |-> s, type |-> t]
     /\ t \in state[SignalOf[s]])
    ~> (calls[h] > 0 \/ fate[h] = "revoked")

====
