---- MODULE SignalProofs ----
(* Signal and Slot, for any number of signals, slots, emitters and handlers: a signal that *)
(* triggers once has one winner, and its handlers are called as their owners were told.    *)
EXTENDS Signal, TLAPS

\* What TypeOK does not say: the lists, the owners' registers, the work and the history.
Items == [do : {"update", "walk", "filter", "load", "chain", "visit", "call"}, signal : Signals,
          slot : Slots \cup {Null}, types : SUBSET Types, list : Seq(Types),
          handler : Handlers \cup {Null}]
Places == [slot : Slots \cup {Null}, type : Types \cup {Null}]
Registers == [type : Types \cup {Null}, new : Handlers \cup {Null}, old : Handlers \cup {Null}]

MoreTypes ==
    /\ nodes \in [Signals -> Seq(Slots)] /\ managers \in [Slots -> Seq(Types)]
    /\ op \in [Slots -> Registers] /\ work \in [Emitters -> Seq(Items)]
    /\ made \in [Handlers -> Places] /\ calls \in [Handlers -> Nat]
    /\ wins \in [Signals -> [Types -> Nat]]
    /\ \A s \in Slots : chained[s] => ChainOf[s] # NoSignal

\* A handler in a slot is the one made for that place, and nothing else has been decided
\* on it; the tag of an emitted handler says that the signal has been triggered.
HandlerInv == \A s \in Slots, t \in Types :
    /\ handler[s][t] \in Handlers =>
         /\ made[handler[s][t]].slot = s /\ made[handler[s][t]].type = t
         /\ fate[handler[s][t]] = "installed" /\ handler[s][t] \in alive
    /\ handler[s][t] = EmittedTag => t \in OnceTypes /\ t \in state[SignalOf[s]]

\* What an owner holds in its hands: a new handler, nobody else's; and an old one that is
\* in its place still, or was taken by an emitter.
Emplacing == {"emplaceState", "emplaceLoad", "emplaceCas"}
OwnerInv == \A s \in Slots :
    /\ pc[s] \in Emplacing =>
         /\ op[s].type \in Types /\ op[s].new \in Handlers
         /\ made[op[s].new].slot = s /\ made[op[s].new].type = op[s].type
         /\ fate[op[s].new] = "emplacing" /\ op[s].new \in alive
    /\ pc[s] \in {"emplaceCas", "clearCas"} =>
         op[s].type \in Types /\ handler[s][op[s].type] \in {op[s].old, EmittedTag}
    /\ pc[s] = "clearCas" => op[s].old \in Handlers

\* What is left of an emits(): the types it delivers have been triggered on their signal,
\* and a once-handler that it will call was taken, by it alone, and has not been called.
ItemOK(i) ==
    /\ i.do \in {"walk", "filter", "load", "chain", "visit"} => i.types \subseteq state[i.signal]
    /\ i.do \in {"filter", "load", "chain", "visit"} => i.slot \in Slots /\ i.signal = SignalOf[i.slot]
    /\ i.do = "call" =>
         /\ i.handler \in Handlers /\ fate[i.handler] # "new"
         /\ i.types = {made[i.handler].type}
         /\ made[i.handler].type \in OnceTypes =>
              fate[i.handler] = "taken" /\ calls[i.handler] = 0 /\ i.handler \in alive
WorkInv ==
    /\ \A e \in Emitters : \A k \in DOMAIN work[e] : ItemOK(work[e][k])
    /\ \A e, f \in Emitters : \A k \in DOMAIN work[e], l \in DOMAIN work[f] :
         /\ work[e][k].do = "call" /\ work[f][l].do = "call"
         /\ work[e][k].handler = work[f][l].handler
         /\ made[work[e][k].handler].type \in OnceTypes
         => e = f /\ k = l

\* What has been decided on a handler, and how often it was called.
FateInv == \A h \in Handlers :
    /\ fate[h] = "new" => calls[h] = 0
    /\ made[h].type \in OnceTypes =>
         /\ calls[h] \in {0, 1} /\ (calls[h] = 1 => fate[h] = "taken")
         /\ fate[h] = "refused" =>
              made[h].slot \in Slots /\ made[h].type \in state[SignalOf[made[h].slot]]

WinInv == \A g \in Signals, t \in OnceTypes :
    wins[g][t] \in {0, 1} /\ (t \notin state[g] => wins[g][t] = 0)

SignalInv == TypeOK /\ MoreTypes /\ HandlerInv /\ OwnerInv /\ WorkInv /\ FateInv /\ WinInv

----
(* Facts the cases share *)

\* The items in front of what was left after the first.
LEMMA Replaced ==
    ASSUME NEW S, NEW s \in Seq(S), s # <<>>, NEW items \in Seq(S), NEW r, r = items \o Tail(s)
    PROVE  /\ r \in Seq(S)
           /\ \A k \in DOMAIN r :
                \/ k \in DOMAIN items /\ r[k] = items[k]
                \/ /\ k \notin DOMAIN items
                   /\ k - Len(items) + 1 \in DOMAIN s /\ k - Len(items) + 1 # 1
                   /\ r[k] = s[k - Len(items) + 1]
<1>1. Len(s) \in Nat /\ Len(s) # 0 /\ Len(items) \in Nat
  OBVIOUS
<1>2. Tail(s) \in Seq(S) /\ Len(Tail(s)) = Len(s) - 1
  OBVIOUS
<1>3. r \in Seq(S) /\ Len(r) = Len(items) + Len(s) - 1
  BY <1>1, <1>2
<1>4. /\ DOMAIN r = 1 .. Len(items) + Len(s) - 1 /\ DOMAIN items = 1 .. Len(items)
      /\ DOMAIN s = 1 .. Len(s) /\ DOMAIN Tail(s) = 1 .. Len(s) - 1
  BY <1>2, <1>3
<1>5. ASSUME NEW k \in DOMAIN r, k \in DOMAIN items PROVE r[k] = items[k]
  BY <1>1, <1>2, <1>4, <1>5
<1>6. ASSUME NEW k \in DOMAIN r, k \notin DOMAIN items
      PROVE  /\ k - Len(items) + 1 \in DOMAIN s /\ k - Len(items) + 1 # 1
             /\ r[k] = s[k - Len(items) + 1]
  <2>1. k \in Nat /\ k > Len(items) /\ k <= Len(items) + Len(s) - 1
    BY <1>1, <1>4, <1>6
  <2>2. r[k] = Tail(s)[k - Len(items)]
    BY <1>1, <1>2, <2>1
  <2>3. PICK j \in 1 .. Len(s) - 1 : j = k - Len(items)
    BY <1>1, <2>1
  <2>4. Tail(s)[j] = s[j + 1]
    BY <1>1, <1>4, <2>3
  <2> QED
    BY <1>1, <1>4, <2>2, <2>3, <2>4
<1> QED
  BY <1>3, <1>5, <1>6

\* A step that decides nothing anew on a handler that was taken, and keeps what was made.
HandlersStay == \A h \in Handlers :
    /\ fate[h] # "new" => fate'[h] # "new" /\ made'[h] = made[h]
    /\ fate[h] = "taken" =>
         fate'[h] = "taken" /\ calls'[h] = calls[h] /\ (h \in alive => h \in alive')
StateGrows == \A g \in Signals : state[g] \subseteq state'[g]

LEMMA ItemStays ==
    ASSUME NEW i \in Items, ItemOK(i), HandlersStay, StateGrows
    PROVE  ItemOK(i)'
<1>1. i.signal \in Signals
  BY DEF Items
<1>2. i.do \in {"walk", "filter", "load", "chain", "visit"} => i.types \subseteq state'[i.signal]
  BY <1>1 DEF ItemOK, StateGrows
<1>3. i.do = "call" =>
        /\ i.handler \in Handlers /\ fate'[i.handler] # "new"
        /\ i.types = {made'[i.handler].type}
        /\ made'[i.handler].type \in OnceTypes =>
             fate'[i.handler] = "taken" /\ calls'[i.handler] = 0 /\ i.handler \in alive'
  BY DEF ItemOK, HandlersStay
<1> QED
  BY <1>2, <1>3 DEF ItemOK

LEMMA WorkTypes ==
    ASSUME SignalInv
    PROVE  /\ \A e \in Emitters : work[e] \in Seq(Items)
           /\ \A e \in Emitters : \A k \in DOMAIN work[e] : work[e][k] \in Items /\ ItemOK(work[e][k])
<1> DEFINE S == Items
<1> HIDE DEF S
<1>1. work \in [Emitters -> Seq(S)]
  BY DEF SignalInv, MoreTypes, S
<1>2. \A e \in Emitters : work[e] \in Seq(S) /\ \A k \in DOMAIN work[e] : work[e][k] \in S
  BY <1>1
<1> QED
  BY <1>2 DEF S, SignalInv, WorkInv

\* The item an emitter is at.
LEMMA HeadItem ==
    ASSUME SignalInv, NEW e \in Emitters, NEW o, Doing(e, o)
    PROVE  /\ work[e] # <<>> /\ 1 \in DOMAIN work[e] /\ Head(work[e]) = work[e][1]
           /\ Head(work[e]) \in Items /\ ItemOK(Head(work[e])) /\ Head(work[e]).do = o
<1> DEFINE S == Items
<1> HIDE DEF S
<1>1. work[e] \in Seq(S) /\ work[e] # <<>> /\ Head(work[e]).do = o
  BY WorkTypes DEF S, Doing
<1>2. 1 \in DOMAIN work[e] /\ Head(work[e]) = work[e][1]
  BY <1>1
<1> QED
  BY <1>1, <1>2, WorkTypes

LEMMA WorkFrame ==
    ASSUME SignalInv, UNCHANGED work, HandlersStay, StateGrows
    PROVE  WorkInv'
<1>1. \A e \in Emitters : \A k \in DOMAIN work[e] : ItemOK(work[e][k])'
  <2> SUFFICES ASSUME NEW e \in Emitters, NEW k \in DOMAIN work[e] PROVE ItemOK(work[e][k])'
    OBVIOUS
  <2>1. PICK i \in Items : i = work[e][k] /\ i = work'[e][k] /\ ItemOK(i)
    BY WorkTypes
  <2>2. ItemOK(i)'
    BY <2>1, ItemStays
  <2> QED
    BY <2>1, <2>2 DEF ItemOK
<1>2. \A e \in Emitters : \A k \in DOMAIN work[e] :
         work[e][k].do = "call" => made'[work[e][k].handler] = made[work[e][k].handler]
  BY WorkTypes DEF ItemOK, HandlersStay
<1> QED
  BY <1>1, <1>2 DEF SignalInv, WorkInv

\* An emitter's step replaces its first item, and adds at most the call of a handler that
\* was not taken before.
LEMMA WorkStep ==
    ASSUME SignalInv, NEW e \in Emitters, work[e] # <<>>, NEW items \in Seq(Items),
           Instead(e, items), HandlersStay, StateGrows,
           \A k \in DOMAIN items : ItemOK(items[k])',
           \A k \in DOMAIN items : items[k].do = "call" =>
              k = 1 /\ (made'[items[k].handler].type \in OnceTypes => fate[items[k].handler] # "taken")
    PROVE  WorkInv' /\ work' \in [Emitters -> Seq(Items)]
<1> DEFINE S == Items
<1> HIDE DEF S
<1>1. work \in [Emitters -> Seq(S)] /\ items \in Seq(S)
  BY DEF SignalInv, MoreTypes, S
<1>2. PICK r : r = items \o Tail(work[e])
  OBVIOUS
<1>3. work' = [work EXCEPT ![e] = r]
  BY <1>2 DEF Instead
<1>4. /\ r \in Seq(S)
      /\ \A k \in DOMAIN r :
           \/ k \in DOMAIN items /\ r[k] = items[k]
           \/ /\ k \notin DOMAIN items
              /\ k - Len(items) + 1 \in DOMAIN work[e] /\ k - Len(items) + 1 # 1
              /\ r[k] = work[e][k - Len(items) + 1]
  BY <1>1, <1>2, Replaced
<1>5. /\ work'[e] = r /\ \A f \in Emitters : f # e => work'[f] = work[f]
      /\ work' \in [Emitters -> Seq(S)]
  BY <1>1, <1>3, <1>4
<1>6. Len(items) \in Nat /\ DOMAIN r \subseteq Nat
  BY <1>1, <1>4
<1>old. ASSUME NEW f \in Emitters, NEW k \in DOMAIN work[f], NEW i, i = work[f][k]
        PROVE  i \in Items /\ ItemOK(i) /\ ItemOK(i)'
  <2>1. i \in Items /\ ItemOK(i)
    BY <1>old, WorkTypes
  <2> QED
    BY <2>1, ItemStays
<1>7. ASSUME NEW f \in Emitters, NEW k \in DOMAIN work'[f], NEW i, i = work'[f][k]
      PROVE  ItemOK(i)'
  <2>1. CASE f # e
    BY <1>5, <1>7, <1>old, <2>1
  <2>2. CASE f = e /\ k \in DOMAIN items
    <3>1. r[k] = items[k]
      BY <1>4, <1>5, <2>2
    <3>2. i = items[k]
      BY <1>5, <1>7, <2>2, <3>1
    <3> QED
      BY <2>2, <3>2 DEF ItemOK
  <2>3. CASE f = e /\ k \notin DOMAIN items
    <3>1. PICK m \in DOMAIN work[e] : r[k] = work[e][m]
      BY <1>4, <1>5, <2>3
    <3> QED
      BY <1>5, <1>7, <1>old, <2>3, <3>1
  <2> QED
    BY <2>1, <2>2, <2>3
<1>8. ASSUME NEW f \in Emitters, NEW k \in DOMAIN work'[f], NEW i, i = work'[f][k],
             i.do = "call", made'[i.handler].type \in OnceTypes
      PROVE  \/ f = e /\ k = 1 /\ fate[i.handler] # "taken"
             \/ \E m \in DOMAIN work[f] :
                  /\ i = work[f][m] /\ m = (IF f = e THEN k - Len(items) + 1 ELSE k)
                  /\ fate[i.handler] = "taken" /\ made[i.handler].type \in OnceTypes
  <2>0. ASSUME NEW m \in DOMAIN work[f], i = work[f][m]
        PROVE  fate[i.handler] = "taken" /\ made[i.handler].type \in OnceTypes
    <3>1. ItemOK(i)
      BY <2>0, <1>old
    <3>2. i.handler \in Handlers /\ fate[i.handler] # "new"
      BY <1>8, <3>1 DEF ItemOK
    <3>3. made'[i.handler] = made[i.handler]
      BY <3>2 DEF HandlersStay
    <3> QED
      BY <1>8, <3>1, <3>3 DEF ItemOK
  <2>1. CASE f # e
    BY <1>5, <1>8, <2>0, <2>1
  <2>2. CASE f = e /\ k \in DOMAIN items
    <3>1. r[k] = items[k]
      BY <1>4, <1>5, <2>2
    <3>2. i = items[k]
      BY <1>5, <1>8, <2>2, <3>1
    <3> QED
      BY <1>8, <2>2, <3>2
  <2>3. CASE f = e /\ k \notin DOMAIN items
    <3>1. PICK m \in DOMAIN work[e] : r[k] = work[e][m] /\ m = k - Len(items) + 1
      BY <1>4, <1>5, <2>3
    <3>2. i = work[f][m]
      BY <1>5, <1>8, <2>3, <3>1
    <3> QED
      BY <2>0, <2>3, <3>1, <3>2
  <2> QED
    BY <2>1, <2>2, <2>3
<1>9. ASSUME NEW f \in Emitters, NEW h \in Emitters, NEW k \in DOMAIN work'[f], NEW l \in DOMAIN work'[h],
             work'[f][k].do = "call", work'[h][l].do = "call",
             work'[f][k].handler = work'[h][l].handler,
             made'[work'[f][k].handler].type \in OnceTypes
      PROVE  f = h /\ k = l
  <2>1. PICK i : i = work'[f][k]
    OBVIOUS
  <2>2. PICK j : j = work'[h][l]
    OBVIOUS
  <2>3. i.do = "call" /\ j.do = "call" /\ i.handler = j.handler /\ made'[i.handler].type \in OnceTypes
    BY <1>9, <2>1, <2>2
  <2>4. \/ f = e /\ k = 1 /\ fate[i.handler] # "taken"
        \/ \E m \in DOMAIN work[f] :
             /\ i = work[f][m] /\ m = (IF f = e THEN k - Len(items) + 1 ELSE k)
             /\ fate[i.handler] = "taken" /\ made[i.handler].type \in OnceTypes
    BY <1>8, <2>1, <2>3
  <2>5. \/ h = e /\ l = 1 /\ fate[j.handler] # "taken"
        \/ \E m \in DOMAIN work[h] :
             /\ j = work[h][m] /\ m = (IF h = e THEN l - Len(items) + 1 ELSE l)
             /\ fate[j.handler] = "taken" /\ made[j.handler].type \in OnceTypes
    BY <1>8, <2>2, <2>3
  <2>6. CASE fate[i.handler] # "taken"
    BY <2>3, <2>4, <2>5, <2>6
  <2>7. CASE fate[i.handler] = "taken"
    <3>1. PICK m \in DOMAIN work[f] :
             /\ i = work[f][m] /\ m = (IF f = e THEN k - Len(items) + 1 ELSE k)
             /\ made[i.handler].type \in OnceTypes
      BY <2>4, <2>7
    <3>2. PICK n \in DOMAIN work[h] :
             j = work[h][n] /\ n = (IF h = e THEN l - Len(items) + 1 ELSE l)
      BY <2>3, <2>5, <2>7
    <3>3. f = h /\ m = n
      BY <2>3, <3>1, <3>2 DEF SignalInv, WorkInv
    <3>4. CASE f # e
      BY <3>1, <3>2, <3>3, <3>4
    <3>5. CASE f = e
      <4>1. k \in Nat /\ l \in Nat
        BY <1>5, <1>6, <3>3, <3>5
      <4>2. k - Len(items) + 1 = l - Len(items) + 1
        BY <3>1, <3>2, <3>3, <3>5
      <4> QED
        BY <1>6, <3>3, <4>1, <4>2
    <3> QED
      BY <3>4, <3>5
  <2> QED
    BY <2>6, <2>7
<1>10. \A f \in Emitters : \A k \in DOMAIN work'[f] : ItemOK(work[f][k])'
  BY <1>7 DEF ItemOK
<1> QED
  BY <1>5, <1>9, <1>10 DEF S, WorkInv

----
(* One case per step of an owner *)

\* What is put in front of a list.
LEMMA Pushed ==
    ASSUME NEW S, NEW s \in Seq(S), NEW x \in S, NEW r, r = <<x>> \o s
    PROVE  /\ r \in Seq(S) /\ ToSet(r) = {x} \cup ToSet(s)
           /\ IsInjective(s) /\ x \notin ToSet(s) => IsInjective(r)
<1>1. /\ r \in Seq(S) /\ Len(s) \in Nat /\ Len(r) = Len(s) + 1
      /\ DOMAIN r = 1 .. Len(s) + 1 /\ DOMAIN s = 1 .. Len(s)
  OBVIOUS
<1>2. r[1] = x /\ \A k \in 1 .. Len(s) : r[k + 1] = s[k]
  OBVIOUS
<1>3. \A k \in DOMAIN r : k = 1 \/ (k - 1 \in DOMAIN s /\ r[k] = s[k - 1])
  <2> SUFFICES ASSUME NEW k \in DOMAIN r, k # 1 PROVE k - 1 \in DOMAIN s /\ r[k] = s[k - 1]
    OBVIOUS
  <2>1. PICK m \in 1 .. Len(s) : m = k - 1
    BY <1>1
  <2>2. k = m + 1
    BY <1>1, <2>1
  <2> QED
    BY <1>1, <1>2, <2>1, <2>2
<1>4. \A k \in DOMAIN s : k + 1 \in DOMAIN r /\ r[k + 1] = s[k]
  BY <1>1, <1>2
<1>5. ToSet(r) = {x} \cup ToSet(s)
  <2>1. 1 \in DOMAIN r
    BY <1>1
  <2>2. ToSet(r) = {r[k] : k \in DOMAIN r} /\ ToSet(s) = {s[k] : k \in DOMAIN s}
    BY DEF ToSet
  <2>3. \A y \in ToSet(r) : y \in {x} \cup ToSet(s)
    BY <1>2, <1>3, <2>2
  <2>4. \A y \in ToSet(s) : y \in ToSet(r)
    BY <1>4, <2>2
  <2> QED
    BY <1>2, <2>1, <2>2, <2>3, <2>4
<1>6. ASSUME IsInjective(s), x \notin ToSet(s) PROVE IsInjective(r)
  <2>1. \A k, l \in DOMAIN s : s[k] = s[l] => k = l
    BY <1>6 DEF IsInjective
  <2>2. \A k \in DOMAIN s : s[k] # x
    BY <1>6 DEF ToSet
  <2> SUFFICES ASSUME NEW k \in DOMAIN r, NEW l \in DOMAIN r, r[k] = r[l] PROVE k = l
    BY DEF IsInjective
  <2>3. k = 1 <=> l = 1
    BY <1>2, <1>3, <2>2
  <2>4. k # 1 /\ l # 1 => k - 1 = l - 1
    BY <1>3, <2>1
  <2> QED
    BY <1>1, <2>3, <2>4
<1> QED
  BY <1>1, <1>5, <1>6

LEMMA CaseRegistSlot ==
    ASSUME SignalInv, NEW s \in Slots, RegistSlot(s)
    PROVE  SignalInv'
<1>un. /\ UNCHANGED <<state, filter, managers, handler, chained, op, work, fate, made, calls, alive, wins>>
       /\ pc[s] = "new" /\ pc' = [pc EXCEPT ![s] = "idle"]
  BY DEF RegistSlot, Goto, history
<1>1. /\ nodes' \in [Signals -> Seq(Slots)]
      /\ \A g \in Signals : ToSet(nodes'[g]) \subseteq {u \in Slots : SignalOf[u] = g}
  <2>1. PICK g \in Signals : g = SignalOf[s]
    BY SignalAssumption
  <2>2. PICK r : r = <<s>> \o nodes[g]
    OBVIOUS
  <2>3. nodes' = [nodes EXCEPT ![g] = r] /\ nodes \in [Signals -> Seq(Slots)]
    BY <2>1, <2>2 DEF RegistSlot, SignalInv, MoreTypes
  <2>4. r \in Seq(Slots) /\ ToSet(r) = {s} \cup ToSet(nodes[g])
    BY <2>2, <2>3, Pushed
  <2> QED
    BY <2>1, <2>3, <2>4 DEF SignalInv, TypeOK
<1>2. pc' \in [Slots -> {"new", "idle", "emplaceState", "emplaceLoad", "emplaceCas", "clearCas"}]
  BY <1>un DEF SignalInv, TypeOK
<1>3. TypeOK'
  BY <1>un, <1>1, <1>2 DEF SignalInv, TypeOK
<1>4. MoreTypes'
  BY <1>un, <1>1 DEF SignalInv, MoreTypes
<1>5. HandlerInv' /\ FateInv' /\ WinInv'
  BY <1>un DEF SignalInv, HandlerInv, FateInv, WinInv
<1>6. OwnerInv'
  BY <1>un DEF SignalInv, OwnerInv, TypeOK, Emplacing
<1>7. WorkInv'
  BY <1>un, WorkFrame DEF HandlersStay, StateGrows
<1> QED
  BY <1>3, <1>4, <1>5, <1>6, <1>7 DEF SignalInv

LEMMA CaseEmplace ==
    ASSUME SignalInv, NEW s \in Slots, NEW t \in Types, NEW h \in Handlers, Emplace(s, t, h)
    PROVE  SignalInv'
<1>un. /\ UNCHANGED <<state, nodes, filter, handler, chained, work, calls, wins>>
       /\ pc[s] = "idle" /\ pc' = [pc EXCEPT ![s] = "emplaceState"]
       /\ fate[h] = "new" /\ fate' = [fate EXCEPT ![h] = "emplacing"]
       /\ made' = [made EXCEPT ![h] = [slot |-> s, type |-> t]]
       /\ alive' = alive \cup {h}
       /\ op' = [op EXCEPT ![s] = [type |-> t, new |-> h, old |-> Null]]
  BY DEF Emplace, Goto, Decide
<1>1. /\ managers' \in [Slots -> Seq(Types)]
      /\ \A u \in Slots : ToSet(managers'[u]) \subseteq Types /\ IsInjective(managers'[u])
  <2>0. /\ managers \in [Slots -> Seq(Types)]
        /\ \A u \in Slots : ToSet(managers[u]) \subseteq Types /\ IsInjective(managers[u])
    BY DEF SignalInv, MoreTypes, TypeOK
  <2>1. CASE t \in ToSet(managers[s])
    BY <2>0, <2>1 DEF Emplace
  <2>2. CASE t \notin ToSet(managers[s])
    <3>0. PICK q \in Seq(Types) : q = managers[s] /\ IsInjective(q) /\ t \notin ToSet(q)
      BY <2>0, <2>2
    <3>1. PICK r : r = <<t>> \o q
      OBVIOUS
    <3>2. managers' = [managers EXCEPT ![s] = r]
      BY <2>2, <3>0, <3>1 DEF Emplace
    <3>3. r \in Seq(Types) /\ ToSet(r) = {t} \cup ToSet(q) /\ IsInjective(r)
      <4>1. /\ r \in Seq(Types) /\ ToSet(r) = {t} \cup ToSet(q)
            /\ IsInjective(q) /\ t \notin ToSet(q) => IsInjective(r)
        BY <3>1, Pushed, Zenon
      <4> QED
        BY <3>0, <4>1
    <3>4. managers' \in [Slots -> Seq(Types)]
      BY <2>0, <3>2, <3>3
    <3>5. managers'[s] = r /\ \A u \in Slots : u # s => managers'[u] = managers[u]
      BY <2>0, <3>2
    <3>6. ToSet(r) \subseteq Types
      BY <2>0, <3>0, <3>3
    <3>7. ASSUME NEW u \in Slots PROVE ToSet(managers'[u]) \subseteq Types /\ IsInjective(managers'[u])
      <4>1. CASE u = s
        BY <3>3, <3>5, <3>6, <4>1
      <4>2. CASE u # s
        BY <2>0, <3>5, <4>2
      <4> QED
        BY <4>1, <4>2
    <3> QED
      BY <3>4, <3>7
  <2> QED
    BY <2>1, <2>2
<1>2. /\ \A u \in Handlers : u # h => fate'[u] = fate[u] /\ made'[u] = made[u]
      /\ fate'[h] = "emplacing" /\ made'[h].slot = s /\ made'[h].type = t
      /\ \A u \in Slots : u # s => pc'[u] = pc[u] /\ op'[u] = op[u]
      /\ pc'[s] = "emplaceState" /\ op'[s].type = t /\ op'[s].new = h
  BY <1>un DEF SignalInv, TypeOK, MoreTypes
<1>3. TypeOK'
  <2>1. /\ pc' \in [Slots -> {"new", "idle", "emplaceState", "emplaceLoad", "emplaceCas", "clearCas"}]
        /\ fate' \in [Handlers -> {"new", "emplacing", "installed", "refused", "revoked", "taken"}]
        /\ alive' \subseteq Handlers
    BY <1>un DEF SignalInv, TypeOK
  <2> QED
    BY <1>un, <1>1, <2>1 DEF SignalInv, TypeOK
<1>4. MoreTypes'
  <2>1. op' \in [Slots -> Registers] /\ made' \in [Handlers -> Places]
    BY <1>un DEF SignalInv, MoreTypes, Registers, Places
  <2> QED
    BY <1>un, <1>1, <2>1 DEF SignalInv, MoreTypes
<1>5. HandlerInv'
  BY <1>un, <1>2 DEF SignalInv, HandlerInv
<1>6. FateInv' /\ WinInv'
  BY <1>un, <1>2 DEF SignalInv, FateInv, WinInv
<1>7. OwnerInv'
  BY <1>un, <1>2 DEF SignalInv, OwnerInv, Emplacing
<1>8. HandlersStay /\ StateGrows
  BY <1>un, <1>2 DEF HandlersStay, StateGrows
<1>9. WorkInv'
  BY <1>un, <1>8, WorkFrame
<1> QED
  BY <1>3, <1>4, <1>5, <1>6, <1>7, <1>9 DEF SignalInv

\* emplace answers false: for a trigger-once type, only when it has been triggered.
LEMMA CaseRefuse ==
    ASSUME SignalInv, NEW s \in Slots, pc[s] \in Emplacing, Refuse(s),
           UNCHANGED <<object, work, made, calls, wins>>,
           op[s].type \in OnceTypes => op[s].type \in state[SignalOf[s]]
    PROVE  SignalInv'
<1>h. PICK h \in Handlers : h = op[s].new
  BY DEF SignalInv, OwnerInv
<1>un. /\ UNCHANGED <<state, nodes, filter, managers, handler, chained, work, made, calls, wins>>
       /\ pc' = [pc EXCEPT ![s] = "idle"] /\ op' = [op EXCEPT ![s] = NoOp]
       /\ fate' = [fate EXCEPT ![h] = "refused"] /\ alive' = alive \ {h}
  BY <1>h DEF Refuse, Goto, Decide, object
<1>2. /\ fate[h] = "emplacing" /\ made[h].slot = s /\ made[h].type = op[s].type
      /\ \A u \in Handlers : u # h => fate'[u] = fate[u] /\ (u \in alive => u \in alive')
      /\ fate'[h] = "refused"
      /\ \A u \in Slots : u # s => pc'[u] = pc[u] /\ op'[u] = op[u]
      /\ pc'[s] = "idle"
  BY <1>h, <1>un DEF SignalInv, TypeOK, MoreTypes, OwnerInv
<1>3. TypeOK'
  <2>1. /\ pc' \in [Slots -> {"new", "idle", "emplaceState", "emplaceLoad", "emplaceCas", "clearCas"}]
        /\ fate' \in [Handlers -> {"new", "emplacing", "installed", "refused", "revoked", "taken"}]
        /\ alive' \subseteq Handlers
    BY <1>un DEF SignalInv, TypeOK
  <2> QED
    BY <1>un, <2>1 DEF SignalInv, TypeOK
<1>4. MoreTypes'
  <2>1. op' \in [Slots -> Registers]
    BY <1>un DEF SignalInv, MoreTypes, Registers, NoOp
  <2> QED
    BY <1>un, <2>1 DEF SignalInv, MoreTypes
<1>5. HandlerInv'
  BY <1>un, <1>2 DEF SignalInv, HandlerInv
<1>6. FateInv' /\ WinInv'
  BY <1>un, <1>2 DEF SignalInv, FateInv, WinInv
<1>7. OwnerInv'
  <2>1. \A u \in Slots : u # s /\ pc[u] \in Emplacing => op[u].new # h
    BY <1>2 DEF SignalInv, OwnerInv
  <2> QED
    BY <1>un, <1>2, <2>1 DEF SignalInv, OwnerInv, Emplacing
<1>8. HandlersStay /\ StateGrows
  BY <1>un, <1>2 DEF HandlersStay, StateGrows
<1>9. WorkInv'
  BY <1>un, <1>8, WorkFrame
<1> QED
  BY <1>3, <1>4, <1>5, <1>6, <1>7, <1>9 DEF SignalInv

\* The owner goes on to its next access and touches nothing but its register.
LEMMA CaseRegister ==
    ASSUME SignalInv, NEW s \in Slots,
           UNCHANGED <<object, work, fate, made, calls, alive, wins>>,
           op' \in [Slots -> Registers],
           pc' \in [Slots -> {"new", "idle", "emplaceState", "emplaceLoad", "emplaceCas", "clearCas"}],
           \A u \in Slots : u # s => pc'[u] = pc[u] /\ op'[u] = op[u],
           pc'[s] \in Emplacing =>
              pc[s] \in Emplacing /\ op'[s].type = op[s].type /\ op'[s].new = op[s].new,
           pc'[s] \in {"emplaceCas", "clearCas"} =>
              op'[s].type \in Types /\ handler[s][op'[s].type] \in {op'[s].old, EmittedTag},
           pc'[s] = "clearCas" => op'[s].old \in Handlers
    PROVE  SignalInv'
<1>un. UNCHANGED <<state, nodes, filter, managers, handler, chained, work, fate, made, calls, alive, wins>>
  BY DEF object
<1>3. TypeOK'
  BY <1>un DEF SignalInv, TypeOK
<1>4. MoreTypes'
  BY <1>un DEF SignalInv, MoreTypes
<1>5. HandlerInv' /\ FateInv' /\ WinInv'
  BY <1>un DEF SignalInv, HandlerInv, FateInv, WinInv
<1>7. OwnerInv'
  BY <1>un DEF SignalInv, OwnerInv
<1>9. WorkInv'
  BY <1>un, WorkFrame DEF HandlersStay, StateGrows
<1> QED
  BY <1>3, <1>4, <1>5, <1>7, <1>9 DEF SignalInv

LEMMA CaseEmplaceState ==
    ASSUME SignalInv, NEW s \in Slots, EmplaceState(s)
    PROVE  SignalInv'
<1>1. pc[s] = "emplaceState" /\ pc[s] \in Emplacing /\ UNCHANGED <<object, work, made, calls, wins>>
  BY DEF EmplaceState, Emplacing
<1>2. CASE op[s].type \in OnceTypes /\ op[s].type \in state[SignalOf[s]] /\ Refuse(s)
  BY <1>1, <1>2, CaseRefuse
<1>3. CASE Goto(s, "emplaceLoad") /\ UNCHANGED <<op, fate, alive>>
  <2>1. /\ pc' \in [Slots -> {"new", "idle", "emplaceState", "emplaceLoad", "emplaceCas", "clearCas"}]
        /\ \A u \in Slots : u # s => pc'[u] = pc[u] /\ op'[u] = op[u]
        /\ pc'[s] = "emplaceLoad" /\ op' \in [Slots -> Registers]
    BY <1>3 DEF Goto, SignalInv, TypeOK, MoreTypes
  <2> QED
    BY <1>1, <1>3, <2>1, CaseRegister
<1> QED
  BY <1>2, <1>3 DEF EmplaceState

LEMMA CaseEmplaceLoad ==
    ASSUME SignalInv, NEW s \in Slots, EmplaceLoad(s)
    PROVE  SignalInv'
<1>1. /\ pc[s] = "emplaceLoad" /\ pc[s] \in Emplacing /\ UNCHANGED <<object, work, made, calls, wins>>
      /\ op[s].type \in Types
  BY DEF EmplaceLoad, Emplacing, SignalInv, OwnerInv
<1>2. PICK old : old = handler[s][op[s].type]
  OBVIOUS
<1>3. CASE old = EmittedTag /\ Refuse(s)
  <2>1. op[s].type \in state[SignalOf[s]]
    <3>1. PICK t \in Types : t = op[s].type
      BY <1>1
    <3>2. handler[s][t] = EmittedTag
      BY <1>2, <1>3, <3>1
    <3> QED
      BY <3>1, <3>2 DEF SignalInv, HandlerInv
  <2> QED
    BY <1>1, <1>3, <2>1, CaseRefuse
<1>4. CASE /\ old # EmittedTag /\ op' = [op EXCEPT ![s].old = old]
           /\ Goto(s, "emplaceCas") /\ UNCHANGED <<fate, alive>>
  <2>1. old \in Handlers \cup {Null}
    BY <1>1, <1>2, <1>4 DEF SignalInv, TypeOK
  <2>2. /\ pc' \in [Slots -> {"new", "idle", "emplaceState", "emplaceLoad", "emplaceCas", "clearCas"}]
        /\ \A u \in Slots : u # s => pc'[u] = pc[u]
        /\ pc'[s] = "emplaceCas"
    BY <1>4 DEF Goto, SignalInv, TypeOK
  <2>3. /\ op' \in [Slots -> Registers] /\ \A u \in Slots : u # s => op'[u] = op[u]
        /\ op'[s].type = op[s].type /\ op'[s].new = op[s].new /\ op'[s].old = old
    <3>1. op \in [Slots -> Registers]
      BY DEF SignalInv, MoreTypes
    <3>2. PICK b \in Registers : b = op[s]
      BY <3>1
    <3>3. PICK a : a = [b EXCEPT !.old = old]
      OBVIOUS
    <3>4. a \in Registers /\ a.type = b.type /\ a.new = b.new /\ a.old = old
      BY <2>1, <3>3 DEF Registers
    <3>5. op' = [op EXCEPT ![s] = a]
      BY <1>4, <3>2, <3>3
    <3>6. op' \in [Slots -> Registers] /\ op'[s] = a /\ \A u \in Slots : u # s => op'[u] = op[u]
      BY <3>1, <3>4, <3>5
    <3> QED
      BY <3>2, <3>4, <3>6
  <2> QED
    BY <1>1, <1>2, <1>4, <2>2, <2>3, CaseRegister
<1> QED
  BY <1>2, <1>3, <1>4 DEF EmplaceLoad

\* What is in a place gives way: to a new handler, or to none.
Swap(s, t, old, new) ==
    /\ handler[s][t] = old /\ handler' = [handler EXCEPT ![s][t] = new]
    /\ new \in Handlers =>
         /\ fate[new] = "emplacing" /\ new \in alive /\ made[new].slot = s /\ made[new].type = t
         /\ fate'[new] = "installed"
    /\ old \in Handlers => fate'[old] = "revoked"
    /\ fate' = [h \in Handlers |-> fate'[h]]
    /\ \A u \in Handlers : u # new /\ u # old => fate'[u] = fate[u]
    /\ alive' = alive \ {old} /\ op' = [op EXCEPT ![s] = NoOp] /\ pc' = [pc EXCEPT ![s] = "idle"]
    /\ UNCHANGED <<state, nodes, filter, managers, chained, work, made, calls, wins>>

LEMMA CaseSwap ==
    ASSUME SignalInv, NEW s \in Slots, NEW t \in Types,
           NEW old \in Handlers \cup {Null}, NEW new \in Handlers \cup {Null},
           Swap(s, t, old, new)
    PROVE  SignalInv'
<1>sw. /\ handler[s][t] = old /\ handler' = [handler EXCEPT ![s][t] = new]
       /\ new \in Handlers =>
            /\ fate[new] = "emplacing" /\ new \in alive /\ made[new].slot = s /\ made[new].type = t
            /\ fate'[new] = "installed"
       /\ old \in Handlers => fate'[old] = "revoked"
       /\ \A u \in Handlers : u # new /\ u # old => fate'[u] = fate[u]
       /\ alive' = alive \ {old} /\ op' = [op EXCEPT ![s] = NoOp] /\ pc' = [pc EXCEPT ![s] = "idle"]
       /\ UNCHANGED <<state, nodes, filter, managers, chained, work, made, calls, wins>>
  BY DEF Swap
<1> USE <1>sw
<1>null. Null \notin Handlers /\ EmittedTag \notin Handlers /\ Null # EmittedTag
  BY SignalAssumption DEF Null, EmittedTag
<1>1. /\ handler \in [Slots -> [Types -> Handlers \cup {Null, EmittedTag}]]
      /\ pc \in [Slots -> {"new", "idle", "emplaceState", "emplaceLoad", "emplaceCas", "clearCas"}]
      /\ fate \in [Handlers -> {"new", "emplacing", "installed", "refused", "revoked", "taken"}]
      /\ alive \subseteq Handlers /\ op \in [Slots -> Registers]
  BY DEF SignalInv, TypeOK, MoreTypes
<1>2. /\ handler' \in [Slots -> [Types -> Handlers \cup {Null, EmittedTag}]]
      /\ handler'[s][t] = new
      /\ \A u \in Slots, x \in Types : u # s \/ x # t => handler'[u][x] = handler[u][x]
  BY <1>1
<1>3. /\ pc' \in [Slots -> {"new", "idle", "emplaceState", "emplaceLoad", "emplaceCas", "clearCas"}]
      /\ pc'[s] = "idle" /\ \A u \in Slots : u # s => pc'[u] = pc[u] /\ op'[u] = op[u]
  BY <1>1
<1>4. op' \in [Slots -> Registers]
  BY <1>1 DEF Registers, NoOp
<1>5. fate' \in [Handlers -> {"new", "emplacing", "installed", "refused", "revoked", "taken"}]
  <2>1. fate' = [h \in Handlers |-> fate'[h]]
    BY DEF Swap
  <2>2. \A h \in Handlers :
          fate'[h] \in {"new", "emplacing", "installed", "refused", "revoked", "taken"}
    BY <1>1
  <2> QED
    BY <2>1, <2>2
<1>6. old \in Handlers =>
        /\ made[old].slot = s /\ made[old].type = t /\ fate[old] = "installed" /\ old # new
        /\ made[old].type \in OnceTypes => calls[old] = 0
  BY DEF SignalInv, HandlerInv, FateInv
<1>7. TypeOK'
  BY <1>1, <1>2, <1>3, <1>5 DEF SignalInv, TypeOK
<1>8. MoreTypes'
  BY <1>4 DEF SignalInv, MoreTypes
<1>9. HandlerInv'
  <2> SUFFICES ASSUME NEW u \in Slots, NEW x \in Types
               PROVE  /\ handler'[u][x] \in Handlers =>
                           /\ made[handler'[u][x]].slot = u /\ made[handler'[u][x]].type = x
                           /\ fate'[handler'[u][x]] = "installed" /\ handler'[u][x] \in alive'
                      /\ handler'[u][x] = EmittedTag => x \in OnceTypes /\ x \in state[SignalOf[u]]
    BY DEF HandlerInv
  <2>1. CASE u = s /\ x = t
    BY <1>null, <1>2, <1>6, <2>1
  <2>2. CASE u # s \/ x # t
    <3>1. handler'[u][x] = handler[u][x]
      BY <1>2, <2>2
    <3>2. handler[u][x] \in Handlers =>
             /\ made[handler[u][x]].slot = u /\ made[handler[u][x]].type = x
             /\ fate[handler[u][x]] = "installed" /\ handler[u][x] \in alive
      BY DEF SignalInv, HandlerInv
    <3>3. handler[u][x] \in Handlers => handler[u][x] # old /\ handler[u][x] # new
      BY <1>6, <2>2, <3>2
    <3>4. handler[u][x] = EmittedTag => x \in OnceTypes /\ x \in state[SignalOf[u]]
      BY DEF SignalInv, HandlerInv
    <3> QED
      BY <3>1, <3>2, <3>3, <3>4
  <2> QED
    BY <2>1, <2>2
<1>10. OwnerInv'
  <2> SUFFICES ASSUME NEW u \in Slots
               PROVE  /\ pc'[u] \in Emplacing =>
                           /\ op'[u].type \in Types /\ op'[u].new \in Handlers
                           /\ made[op'[u].new].slot = u /\ made[op'[u].new].type = op'[u].type
                           /\ fate'[op'[u].new] = "emplacing" /\ op'[u].new \in alive'
                      /\ pc'[u] \in {"emplaceCas", "clearCas"} =>
                           op'[u].type \in Types /\ handler'[u][op'[u].type] \in {op'[u].old, EmittedTag}
                      /\ pc'[u] = "clearCas" => op'[u].old \in Handlers
    BY DEF OwnerInv
  <2>1. CASE u = s
    BY <1>3, <2>1 DEF Emplacing
  <2>2. CASE u # s
    <3>1. pc'[u] = pc[u] /\ op'[u] = op[u]
      BY <1>3, <2>2
    <3>2. pc[u] \in Emplacing =>
             /\ op[u].type \in Types /\ op[u].new \in Handlers
             /\ made[op[u].new].slot = u /\ made[op[u].new].type = op[u].type
             /\ fate[op[u].new] = "emplacing" /\ op[u].new \in alive
      BY DEF SignalInv, OwnerInv
    <3>3. pc[u] \in Emplacing => op[u].new # old /\ op[u].new # new
      BY <1>6, <2>2, <3>2
    <3>4. pc[u] \in {"emplaceCas", "clearCas"} =>
            op[u].type \in Types /\ handler'[u][op[u].type] \in {op[u].old, EmittedTag}
      BY <1>2, <2>2 DEF SignalInv, OwnerInv
    <3>5. pc[u] = "clearCas" => op[u].old \in Handlers
      BY DEF SignalInv, OwnerInv
    <3> QED
      BY <3>1, <3>2, <3>3, <3>4, <3>5
  <2> QED
    BY <2>1, <2>2
<1>11. FateInv'
  <2> SUFFICES ASSUME NEW h \in Handlers
               PROVE  /\ fate'[h] = "new" => calls[h] = 0
                      /\ made[h].type \in OnceTypes =>
                           /\ calls[h] \in {0, 1} /\ (calls[h] = 1 => fate'[h] = "taken")
                           /\ fate'[h] = "refused" =>
                                made[h].slot \in Slots /\ made[h].type \in state[SignalOf[made[h].slot]]
    BY DEF FateInv
  <2>1. CASE h = old \/ h = new
    <3>1. fate'[h] \in {"installed", "revoked"}
      BY <2>1
    <3>2. made[h].type \in OnceTypes => calls[h] = 0
      BY <1>6, <2>1 DEF SignalInv, FateInv
    <3> QED
      BY <3>1, <3>2
  <2>2. CASE h # old /\ h # new
    BY <2>2 DEF SignalInv, FateInv
  <2> QED
    BY <2>1, <2>2
<1>12. WinInv'
  BY DEF SignalInv, WinInv
<1>13. HandlersStay /\ StateGrows
  <2>1. ASSUME NEW h \in Handlers
        PROVE  /\ fate[h] # "new" => fate'[h] # "new" /\ made'[h] = made[h]
               /\ fate[h] = "taken" =>
                    fate'[h] = "taken" /\ calls'[h] = calls[h] /\ (h \in alive => h \in alive')
    BY <1>6
  <2> QED
    BY <2>1 DEF HandlersStay, StateGrows
<1>14. WorkInv'
  BY <1>13, WorkFrame
<1> QED
  BY <1>7, <1>8, <1>9, <1>10, <1>11, <1>12, <1>14 DEF SignalInv

LEMMA CaseEmplaceCas ==
    ASSUME SignalInv, NEW s \in Slots, EmplaceCas(s)
    PROVE  SignalInv'
<1>1. /\ pc[s] = "emplaceCas" /\ pc[s] \in Emplacing
      /\ UNCHANGED <<state, nodes, filter, managers, chained, work, made, calls, wins>>
  BY DEF EmplaceCas, Emplacing
<1>2. PICK b \in Registers : b = op[s]
  BY DEF SignalInv, MoreTypes
<1>3. PICK old \in Handlers \cup {Null} : old = b.old
  BY DEF Registers
<1>4. PICK new \in Handlers : new = b.new
  BY <1>1, <1>2 DEF SignalInv, OwnerInv
<1>5. PICK t \in Types : t = b.type
  BY <1>1, <1>2 DEF SignalInv, OwnerInv
<1>6. /\ fate[new] = "emplacing" /\ new \in alive /\ made[new].slot = s /\ made[new].type = t
      /\ handler[s][t] \in {old, EmittedTag}
  BY <1>1, <1>2, <1>3, <1>4, <1>5 DEF SignalInv, OwnerInv
<1>7. CASE /\ handler[s][t] = old
           /\ handler' = [handler EXCEPT ![s][t] = new]
           /\ fate' = [h \in Handlers |-> CASE h = new -> "installed"
                                            [] h # new /\ h = old -> "revoked"
                                            [] OTHER -> fate[h]]
           /\ alive' = alive \ {old} /\ op' = [op EXCEPT ![s] = NoOp] /\ Goto(s, "idle")
  <2>1. fate' = [h \in Handlers |-> fate'[h]]
    BY <1>7, Zenon
  <2>2. \A h \in Handlers : fate'[h] = CASE h = new -> "installed"
                                         [] h # new /\ h = old -> "revoked"
                                         [] OTHER -> fate[h]
    BY <1>7, Zenon
  <2>3. fate'[new] = "installed"
    BY <2>2, Zenon
  <2>4. old \in Handlers => old # new
    BY <1>6, <1>7 DEF SignalInv, HandlerInv
  <2>5. old \in Handlers => fate'[old] = "revoked"
    BY <2>2, <2>4, Zenon
  <2>6. \A u \in Handlers : u # new /\ u # old => fate'[u] = fate[u]
    BY <2>2, Zenon
  <2>7. /\ handler[s][t] = old /\ handler' = [handler EXCEPT ![s][t] = new]
        /\ alive' = alive \ {old} /\ op' = [op EXCEPT ![s] = NoOp] /\ pc' = [pc EXCEPT ![s] = "idle"]
    BY <1>7 DEF Goto
  <2>8. Swap(s, t, old, new)
    BY <1>1, <1>6, <2>1, <2>3, <2>5, <2>6, <2>7, Zenon DEF Swap
  <2> QED
    BY <2>8, CaseSwap
<1>8. CASE handler[s][t] # old /\ Refuse(s) /\ UNCHANGED handler
  <2>1. t \in state[SignalOf[s]]
    BY <1>6, <1>8 DEF SignalInv, HandlerInv
  <2> QED
    BY <1>1, <1>2, <1>5, <1>8, <2>1, CaseRefuse DEF object
<1>9. /\ op[s].old = old /\ op[s].new = new /\ op[s].type = t
  BY <1>2, <1>3, <1>4, <1>5
<1> QED
  BY <1>7, <1>8, <1>9 DEF EmplaceCas

LEMMA CaseClear ==
    ASSUME SignalInv, NEW s \in Slots, NEW t \in Types, Clear(s, t)
    PROVE  SignalInv'
<1>1. pc[s] = "idle" /\ UNCHANGED <<object, work, fate, made, calls, alive, wins>>
  BY DEF Clear
<1>2. CASE UNCHANGED owners
  <2>1. UNCHANGED <<pc, op>>
    BY <1>2 DEF owners
  <2> QED
    BY <1>1, <2>1, CaseRegister DEF SignalInv, TypeOK, MoreTypes, Emplacing
<1>3. CASE /\ handler[s][t] \notin {Null, EmittedTag} /\ Goto(s, "clearCas")
           /\ op' = [op EXCEPT ![s] = [type |-> t, new |-> Null, old |-> handler[s][t]]]
  <2>1. PICK old \in Handlers : old = handler[s][t]
    BY <1>3 DEF SignalInv, TypeOK
  <2>2. PICK a : a = [type |-> t, new |-> Null, old |-> old]
    OBVIOUS
  <2>3. a \in Registers /\ a.type = t /\ a.old = old
    BY <2>2 DEF Registers
  <2>4. op \in [Slots -> Registers] /\ op' = [op EXCEPT ![s] = a]
    BY <1>3, <2>1, <2>2 DEF SignalInv, MoreTypes
  <2>5. op' \in [Slots -> Registers] /\ op'[s] = a /\ \A u \in Slots : u # s => op'[u] = op[u]
    BY <2>3, <2>4
  <2>6. /\ pc' \in [Slots -> {"new", "idle", "emplaceState", "emplaceLoad", "emplaceCas", "clearCas"}]
        /\ pc'[s] = "clearCas" /\ \A u \in Slots : u # s => pc'[u] = pc[u]
    BY <1>3 DEF Goto, SignalInv, TypeOK
  <2>7. pc'[s] \notin Emplacing
    BY <2>6 DEF Emplacing
  <2> QED
    BY <1>1, <2>1, <2>3, <2>5, <2>6, <2>7, CaseRegister
<1> QED
  BY <1>2, <1>3 DEF Clear

LEMMA CaseClearCas ==
    ASSUME SignalInv, NEW s \in Slots, ClearCas(s)
    PROVE  SignalInv'
<1>1. /\ pc[s] = "clearCas" /\ op' = [op EXCEPT ![s] = NoOp] /\ Goto(s, "idle")
      /\ UNCHANGED <<state, nodes, filter, managers, chained, work, made, calls, wins>>
  BY DEF ClearCas
<1>2. PICK old \in Handlers : old = op[s].old
  BY <1>1 DEF SignalInv, OwnerInv
<1>3. PICK t \in Types : t = op[s].type
  BY <1>1 DEF SignalInv, OwnerInv
<1>4. CASE /\ handler[s][t] = old /\ handler' = [handler EXCEPT ![s][t] = Null]
           /\ Decide(old, "revoked") /\ alive' = alive \ {old}
  <2>1. Null \notin Handlers
    BY SignalAssumption DEF Null
  <2>2. fate \in [Handlers -> {"new", "emplacing", "installed", "refused", "revoked", "taken"}]
    BY DEF SignalInv, TypeOK
  <2>3. /\ fate' = [h \in Handlers |-> fate'[h]]
        /\ fate'[old] = "revoked" /\ \A u \in Handlers : u # old => fate'[u] = fate[u]
    BY <1>4, <2>2 DEF Decide
  <2>4. Null \in Handlers \cup {Null} /\ old \in Handlers \cup {Null}
    OBVIOUS
  <2>5. /\ handler[s][t] = old /\ handler' = [handler EXCEPT ![s][t] = Null]
        /\ alive' = alive \ {old} /\ pc' = [pc EXCEPT ![s] = "idle"]
    BY <1>1, <1>4 DEF Goto
  <2>6. PICK none \in Handlers \cup {Null} : none = Null /\ none \notin Handlers
    BY <2>1
  <2>7. /\ handler' = [handler EXCEPT ![s][t] = none]
        /\ \A u \in Handlers : u # none /\ u # old => fate'[u] = fate[u]
    BY <2>3, <2>5, <2>6
  <2> QED
    <3>1. Swap(s, t, old, none)
      BY <1>1, <2>3, <2>5, <2>6, <2>7, Zenon DEF Swap
    <3> QED
      BY <2>4, <3>1, CaseSwap
<1>5. CASE UNCHANGED <<handler, fate, alive>>
  <2>1. /\ op' \in [Slots -> Registers] /\ \A u \in Slots : u # s => op'[u] = op[u]
    BY <1>1 DEF SignalInv, MoreTypes, Registers, NoOp
  <2>2. /\ pc' \in [Slots -> {"new", "idle", "emplaceState", "emplaceLoad", "emplaceCas", "clearCas"}]
        /\ pc'[s] = "idle" /\ \A u \in Slots : u # s => pc'[u] = pc[u]
    BY <1>1 DEF Goto, SignalInv, TypeOK
  <2> QED
    BY <1>1, <1>5, <2>1, <2>2, CaseRegister DEF Emplacing, object
<1> QED
  BY <1>2, <1>3, <1>4, <1>5 DEF ClearCas

LEMMA CaseSettings ==
    ASSUME SignalInv, NEW s \in Slots,
           (\E f \in SUBSET Types : SetFilter(s, f)) \/ ChainedSignal(s)
    PROVE  SignalInv'
<1>un. UNCHANGED <<state, nodes, managers, handler, pc, op, work, fate, made, calls, alive, wins>>
  BY DEF SetFilter, ChainedSignal, owners, history
<1>1. filter' \in [Slots -> SUBSET Types]
  BY DEF SetFilter, ChainedSignal, SignalInv, TypeOK
<1>2. chained' \in [Slots -> BOOLEAN] /\ \A u \in Slots : chained'[u] => ChainOf[u] # NoSignal
  BY DEF SetFilter, ChainedSignal, SignalInv, TypeOK, MoreTypes
<1>3. TypeOK' /\ MoreTypes'
  BY <1>un, <1>1, <1>2 DEF SignalInv, TypeOK, MoreTypes
<1>4. HandlerInv' /\ OwnerInv' /\ FateInv' /\ WinInv'
  BY <1>un DEF SignalInv, HandlerInv, OwnerInv, FateInv, WinInv
<1>5. WorkInv'
  BY <1>un, WorkFrame DEF HandlersStay, StateGrows
<1> QED
  BY <1>3, <1>4, <1>5 DEF SignalInv

----
(* One case per step of an emitter *)

LEMMA ItemTypes ==
    ASSUME NEW o \in {"update", "walk", "filter", "load", "chain", "visit", "call"}, NEW g \in Signals,
           NEW s \in Slots \cup {Null}, NEW ts \in SUBSET Types, NEW l \in Seq(Types),
           NEW h \in Handlers \cup {Null}
    PROVE  /\ Item(o, g, s, ts, l, h) \in Items
           /\ Item(o, g, s, ts, l, h).do = o /\ Item(o, g, s, ts, l, h).signal = g
           /\ Item(o, g, s, ts, l, h).slot = s /\ Item(o, g, s, ts, l, h).types = ts
           /\ Item(o, g, s, ts, l, h).handler = h
  BY DEF Item, Items

LEMMA TwoItems ==
    ASSUME NEW S, NEW u \in S, NEW v \in S, NEW r, r = <<u>> \o <<v>>
    PROVE  r \in Seq(S) /\ DOMAIN r = {1, 2} /\ r[1] = u /\ r[2] = v
           /\ \A k \in DOMAIN r : r[k] = u \/ r[k] = v
<1>1. PICK p : p = <<u>>
  OBVIOUS
<1>2. PICK q : q = <<v>>
  OBVIOUS
<1>3. p \in Seq(S) /\ Len(p) = 1 /\ p[1] = u /\ q \in Seq(S) /\ Len(q) = 1 /\ q[1] = v
  BY <1>1, <1>2
<1>4. r = p \o q
  BY <1>1, <1>2
<1>5. r \in Seq(S) /\ Len(r) = 2 /\ r[1] = u /\ r[2] = v
  BY <1>3, <1>4
<1> QED
  BY <1>5

LEMMA NoList == <<>> \in Seq(Types)
  OBVIOUS

\* A step that only goes on with the work: what is put in front calls no handler.
LEMMA CaseInstead ==
    ASSUME SignalInv, NEW e \in Emitters, work[e] # <<>>, NEW items \in Seq(Items),
           Instead(e, items), UNCHANGED <<object, owners, fate, history>>,
           \A k \in DOMAIN items : ItemOK(items[k]) /\ items[k].do # "call"
    PROVE  SignalInv'
<1>un. UNCHANGED <<state, nodes, filter, managers, handler, chained, pc, op, fate, made, calls, alive, wins>>
  BY DEF object, owners, history
<1>1. HandlersStay /\ StateGrows
  BY <1>un DEF HandlersStay, StateGrows
<1>2. \A k \in DOMAIN items : ItemOK(items[k])'
  BY <1>un DEF ItemOK
<1>3. WorkInv' /\ work' \in [Emitters -> Seq(Items)]
  BY <1>1, <1>2, WorkStep
<1>4. TypeOK' /\ MoreTypes'
  BY <1>un, <1>3 DEF SignalInv, TypeOK, MoreTypes
<1>5. HandlerInv' /\ OwnerInv' /\ FateInv' /\ WinInv'
  BY <1>un DEF SignalInv, HandlerInv, OwnerInv, FateInv, WinInv
<1> QED
  BY <1>3, <1>4, <1>5 DEF SignalInv

\* What an item says about its place.
LEMMA ItemParts ==
    ASSUME NEW i \in Items, ItemOK(i)
    PROVE  /\ i.signal \in Signals /\ i.types \subseteq Types /\ i.list \in Seq(Types)
           /\ i.do \in {"walk", "filter", "load", "chain", "visit"} => i.types \subseteq state[i.signal]
           /\ i.do \in {"filter", "load", "chain", "visit"} =>
                i.slot \in Slots /\ i.signal = SignalOf[i.slot] /\ i.types \subseteq state[SignalOf[i.slot]]
  BY DEF Items, ItemOK

LEMMA CaseEmit ==
    ASSUME SignalInv, NEW e \in Emitters, NEW g \in Signals, NEW ts \in SUBSET Types, Emit(e, g, ts)
    PROVE  SignalInv'
<1>un. UNCHANGED <<state, nodes, filter, managers, handler, chained, pc, op, fate, made, calls, alive, wins>>
  BY DEF Emit, object, owners, history
<1>1. PICK i : i = UpdateItem(g, ts)
  OBVIOUS
<1>2. i \in Items /\ i.do = "update"
  BY <1>1, NoList DEF UpdateItem, Item, Items
<1> DEFINE S == Items
<1>3. work \in [Emitters -> Seq(S)] /\ i \in S /\ work' = [work EXCEPT ![e] = <<i>>]
  BY <1>1, <1>2 DEF SignalInv, MoreTypes, Emit
<1> HIDE DEF S
<1>4. /\ work' \in [Emitters -> Seq(S)] /\ work'[e] = <<i>>
      /\ \A f \in Emitters : f # e => work'[f] = work[f]
  BY <1>3
<1>5. \A k \in DOMAIN work'[e] : work'[e][k] = i
  BY <1>4
<1>6. ItemOK(i)'
  BY <1>2 DEF ItemOK
<1>7. ASSUME NEW f \in Emitters, NEW k \in DOMAIN work'[f], NEW j, j = work'[f][k]
      PROVE  ItemOK(j)' /\ (j.do = "call" => f # e)
  <2>1. CASE f = e
    BY <1>2, <1>5, <1>6, <1>7, <2>1
  <2>2. CASE f # e
    <3>1. ItemOK(j)
      BY <1>4, <1>7, <2>2, WorkTypes
    <3> QED
      BY <1>un, <2>2, <3>1 DEF ItemOK
  <2> QED
    BY <2>1, <2>2
<1>8. WorkInv'
  <2>1. \A f \in Emitters : \A k \in DOMAIN work'[f] : ItemOK(work[f][k])'
    BY <1>7 DEF ItemOK
  <2>2. \A f \in Emitters : \A k \in DOMAIN work'[f] : work'[f][k].do = "call" => f # e
    BY <1>7
  <2>3. ASSUME NEW f \in Emitters, NEW h \in Emitters, NEW k \in DOMAIN work'[f], NEW l \in DOMAIN work'[h],
               work'[f][k].do = "call", work'[h][l].do = "call",
               work'[f][k].handler = work'[h][l].handler,
               made'[work'[f][k].handler].type \in OnceTypes
        PROVE  f = h /\ k = l
    <3>1. work'[f] = work[f] /\ work'[h] = work[h]
      BY <1>4, <2>2, <2>3
    <3> QED
      BY <1>un, <2>3, <3>1 DEF SignalInv, WorkInv
  <2> QED
    BY <2>1, <2>3 DEF WorkInv
<1>9. TypeOK' /\ MoreTypes'
  BY <1>un, <1>4 DEF SignalInv, TypeOK, MoreTypes, S
<1>10. HandlerInv' /\ OwnerInv' /\ FateInv' /\ WinInv'
  BY <1>un DEF SignalInv, HandlerInv, OwnerInv, FateInv, WinInv
<1> QED
  BY <1>8, <1>9, <1>10 DEF SignalInv

LEMMA CaseUpdateState ==
    ASSUME SignalInv, NEW e \in Emitters, UpdateState(e)
    PROVE  SignalInv'
<1>un. UNCHANGED <<nodes, filter, managers, handler, chained, pc, op, fate, made, calls, alive>>
  BY DEF UpdateState, owners
<1>do. work[e] # <<>> /\ Doing(e, "update")
  BY DEF UpdateState, Doing
<1>i. PICK i \in Items : i = Head(work[e]) /\ ItemOK(i)
  BY <1>do, HeadItem
<1>g. PICK g \in Signals : g = i.signal
  BY DEF Items
<1>ts. PICK ts \in SUBSET Types : ts = i.types
  BY DEF Items
<1>v. PICK valid \in SUBSET Types : valid = Valid(g, ts)
  BY DEF Valid
<1>items. PICK items : items = IF valid = {} THEN <<>> ELSE <<WalkItem(g, valid)>>
  OBVIOUS
<1>1. /\ state' = [state EXCEPT ![g] = @ \cup ts]
      /\ wins' = [wins EXCEPT ![g] = [t \in Types |-> @[t] + IF t \in valid THEN 1 ELSE 0]]
      /\ Instead(e, items)
  BY <1>i, <1>g, <1>ts, <1>v, <1>items DEF UpdateState
<1>2. state \in [Signals -> SUBSET Types] /\ wins \in [Signals -> [Types -> Nat]]
  BY DEF SignalInv, TypeOK, MoreTypes
<1>3. /\ state' \in [Signals -> SUBSET Types] /\ state'[g] = state[g] \cup ts
      /\ \A u \in Signals : u # g => state'[u] = state[u]
  BY <1>1, <1>2
<1>4. PICK w \in [Types -> Nat] : w = [t \in Types |-> wins[g][t] + IF t \in valid THEN 1 ELSE 0]
  <2>1. \A t \in Types : wins[g][t] \in Nat
    BY <1>2
  <2>2. \A t \in Types : (wins[g][t] + IF t \in valid THEN 1 ELSE 0) \in Nat
    BY <2>1
  <2> QED
    BY <2>2
<1>5. wins' = [wins EXCEPT ![g] = w]
  BY <1>1, <1>2, <1>4
<1>6. /\ wins' \in [Signals -> [Types -> Nat]] /\ wins'[g] = w
      /\ \A u \in Signals : u # g => wins'[u] = wins[u]
  BY <1>2, <1>5
<1>7. StateGrows /\ HandlersStay
  BY <1>un, <1>3 DEF StateGrows, HandlersStay
<1>8. valid \subseteq state'[g]
  BY <1>v, <1>3 DEF Valid
<1>9. /\ items \in Seq(Items)
      /\ \A k \in DOMAIN items : items[k].do = "walk" /\ items[k].signal = g /\ items[k].types = valid
  <2>0. PICK a : a = WalkItem(g, valid)
    OBVIOUS
  <2>1. a \in Items /\ a = WalkItem(g, valid) /\ a.do = "walk" /\ a.signal = g /\ a.types = valid
    BY <2>0, NoList DEF WalkItem, Item, Items
  <2> DEFINE S == Items
  <2>2. a \in S
    BY <2>1
  <2> HIDE DEF S
  <2>3. items = <<>> \/ items = <<a>>
    BY <1>items, <2>1
  <2>4. items \in Seq(S) /\ \A k \in DOMAIN items : items[k] = a
    <3>1. CASE items = <<>>
      BY <3>1
    <3>2. CASE items = <<a>>
      BY <2>2, <3>2
    <3> QED
      BY <2>3, <3>1, <3>2
  <2> QED
    BY <2>1, <2>4 DEF S
<1>10. \A k \in DOMAIN items : ItemOK(items[k])'
  BY <1>8, <1>9 DEF ItemOK
<1>11. WorkInv' /\ work' \in [Emitters -> Seq(Items)]
  BY <1>do, <1>1, <1>7, <1>9, <1>10, WorkStep
<1>12. TypeOK' /\ MoreTypes'
  BY <1>un, <1>3, <1>6, <1>11 DEF SignalInv, TypeOK, MoreTypes
<1>13. HandlerInv' /\ OwnerInv'
  <2>1. \A s \in Slots : SignalOf[s] \in Signals
    BY SignalAssumption
  <2>2. HandlerInv'
    BY <1>un, <1>7, <2>1 DEF SignalInv, HandlerInv, StateGrows
  <2> QED
    BY <1>un, <2>2 DEF SignalInv, OwnerInv
<1>14. FateInv'
  <2>1. \A s \in Slots : SignalOf[s] \in Signals
    BY SignalAssumption
  <2> QED
    BY <1>un, <1>7, <2>1 DEF SignalInv, FateInv, StateGrows
<1>15. WinInv'
  <2> SUFFICES ASSUME NEW u \in Signals, NEW t \in OnceTypes
               PROVE  wins'[u][t] \in {0, 1} /\ (t \notin state'[u] => wins'[u][t] = 0)
    BY DEF WinInv
  <2>0. t \in Types /\ t \notin MultiTypes
    BY SignalAssumption DEF Types
  <2>1. wins[u][t] \in {0, 1} /\ (t \notin state[u] => wins[u][t] = 0)
    BY DEF SignalInv, WinInv
  <2>2. CASE u # g
    BY <1>3, <1>6, <2>1, <2>2
  <2>3. CASE u = g /\ t \in valid
    <3>1. t \notin state[g] /\ t \in state'[g]
      BY <1>v, <1>8, <2>0, <2>3 DEF Valid
    <3>2. w[t] = wins[g][t] + 1
      BY <1>4, <2>0, <2>3
    <3> QED
      BY <1>6, <2>1, <2>3, <3>1, <3>2
  <2>4. CASE u = g /\ t \notin valid
    <3>1. w[t] = wins[g][t] + 0
      BY <1>4, <2>0, <2>4
    <3>2. w[t] = wins[g][t]
      BY <1>2, <2>0, <3>1
    <3> QED
      BY <1>3, <1>6, <2>1, <2>4, <3>2
  <2> QED
    BY <2>2, <2>3, <2>4
<1> QED
  BY <1>11, <1>12, <1>13, <1>14, <1>15 DEF SignalInv

LEMMA CaseWalkSlots ==
    ASSUME SignalInv, NEW e \in Emitters, WalkSlots(e)
    PROVE  SignalInv'
<1>do. work[e] # <<>> /\ Doing(e, "walk") /\ UNCHANGED <<object, owners, fate, history>>
  BY DEF WalkSlots, Doing
<1>i. PICK i \in Items : i = Head(work[e]) /\ ItemOK(i) /\ i.do = "walk"
  BY <1>do, HeadItem
<1>1. i.signal \in Signals /\ i.types \subseteq Types /\ i.types \subseteq state[i.signal]
  BY <1>i, ItemParts
<1>2. PICK l \in Seq(Slots) : l = nodes[i.signal]
  BY <1>1 DEF SignalInv, MoreTypes
<1>3. \A n \in DOMAIN l : l[n] \in Slots /\ SignalOf[l[n]] = i.signal
  BY <1>1, <1>2 DEF SignalInv, TypeOK, ToSet
<1>4. PICK items : items = [n \in DOMAIN l |-> SlotItem(l[n], i.types)]
  OBVIOUS
<1>5. Instead(e, items)
  BY <1>i, <1>2, <1>4 DEF WalkSlots
<1>6. ASSUME NEW n \in DOMAIN l
      PROVE  /\ items[n] \in Items /\ items[n].do = "filter" /\ items[n].signal = i.signal
             /\ items[n].slot = l[n] /\ items[n].types = i.types
  <2>1. PICK s \in Slots : s = l[n] /\ SignalOf[s] = i.signal
    BY <1>3
  <2>2. items[n] = Item("filter", SignalOf[s], s, i.types, <<>>, Null)
    BY <1>4, <2>1 DEF SlotItem
  <2> QED
    BY <1>1, <2>1, <2>2, NoList DEF Item, Items
<1>7. items \in Seq(Items) /\ DOMAIN items = DOMAIN l
  <2> DEFINE S == Items
  <2>1. \A n \in DOMAIN l : items[n] \in S
    BY <1>6
  <2> HIDE DEF S
  <2>2. DOMAIN l = 1 .. Len(l) /\ Len(l) \in Nat
    OBVIOUS
  <2>3. items = [n \in 1 .. Len(l) |-> items[n]] /\ DOMAIN items = DOMAIN l
    BY <1>4, <2>2
  <2>4. items \in [1 .. Len(l) -> S]
    BY <2>1, <2>2, <2>3
  <2>5. items \in Seq(S)
    BY <2>2, <2>4
  <2> QED
    BY <2>3, <2>5 DEF S
<1>8. \A k \in DOMAIN items : ItemOK(items[k]) /\ items[k].do # "call"
  BY <1>1, <1>3, <1>6, <1>7 DEF ItemOK
<1> QED
  BY <1>do, <1>5, <1>7, <1>8, CaseInstead

LEMMA CaseLoadFilter ==
    ASSUME SignalInv, NEW e \in Emitters, LoadFilter(e)
    PROVE  SignalInv'
<1>do. work[e] # <<>> /\ Doing(e, "filter") /\ UNCHANGED <<object, owners, fate, history>>
  BY DEF LoadFilter, Doing
<1>i. PICK i \in Items : i = Head(work[e]) /\ ItemOK(i) /\ i.do = "filter"
  BY <1>do, HeadItem
<1>1. /\ i.slot \in Slots /\ i.types \subseteq Types /\ i.types \subseteq state[SignalOf[i.slot]]
      /\ SignalOf[i.slot] \in Signals
  BY <1>i, ItemParts, SignalAssumption
<1>2. PICK rest \in SUBSET Types : rest = i.types \cap filter[i.slot]
  BY <1>1
<1>3. PICK a : a = LoadItem(i.slot, rest)
  OBVIOUS
<1>4. a \in Items /\ a.do = "load" /\ a.signal = SignalOf[i.slot] /\ a.slot = i.slot /\ a.types = rest
  BY <1>1, <1>3, NoList DEF LoadItem, Item, Items
<1>5. ItemOK(a) /\ a.do # "call"
  BY <1>1, <1>2, <1>4 DEF ItemOK
<1>6. PICK items : items = IF rest = {} THEN <<>> ELSE <<a>>
  OBVIOUS
<1>7. Instead(e, items)
  BY <1>i, <1>2, <1>3, <1>6 DEF LoadFilter
<1>8. items \in Seq(Items) /\ \A k \in DOMAIN items : items[k] = a
  <2> DEFINE S == Items
  <2>1. a \in S
    BY <1>4
  <2> HIDE DEF S
  <2>2. items \in Seq(S) /\ \A k \in DOMAIN items : items[k] = a
    BY <1>6, <2>1
  <2> QED
    BY <2>2 DEF S
<1>9. \A k \in DOMAIN items : ItemOK(items[k]) /\ items[k].do # "call"
  BY <1>5, <1>8
<1> QED
  BY <1>do, <1>7, <1>8, <1>9, CaseInstead

LEMMA CaseLoadManagers ==
    ASSUME SignalInv, NEW e \in Emitters, LoadManagers(e)
    PROVE  SignalInv'
<1>do. work[e] # <<>> /\ Doing(e, "load") /\ UNCHANGED <<object, owners, fate, history>>
  BY DEF LoadManagers, Doing
<1>i. PICK i \in Items : i = Head(work[e]) /\ ItemOK(i) /\ i.do = "load"
  BY <1>do, HeadItem
<1>1. /\ i.slot \in Slots /\ i.types \subseteq Types /\ i.types \subseteq state[SignalOf[i.slot]]
      /\ SignalOf[i.slot] \in Signals
  BY <1>i, ItemParts, SignalAssumption
<1>2. PICK l \in Seq(Types) : l = managers[i.slot]
  BY <1>1 DEF SignalInv, MoreTypes
<1>3. PICK a : a = ChainItem(i.slot, i.types, l)
  OBVIOUS
<1>4. a \in Items /\ a.do = "chain" /\ a.signal = SignalOf[i.slot] /\ a.slot = i.slot /\ a.types = i.types
  BY <1>1, <1>3, ItemTypes DEF ChainItem
<1>5. ItemOK(a) /\ a.do # "call"
  BY <1>1, <1>4 DEF ItemOK
<1>6. PICK items : items = <<a>>
  OBVIOUS
<1>7. Instead(e, items)
  BY <1>i, <1>2, <1>3, <1>6 DEF LoadManagers
<1>8. items \in Seq(Items) /\ \A k \in DOMAIN items : items[k] = a
  <2> DEFINE S == Items
  <2>1. a \in S
    BY <1>4
  <2> HIDE DEF S
  <2>2. items \in Seq(S) /\ \A k \in DOMAIN items : items[k] = a
    BY <1>6, <2>1
  <2> QED
    BY <2>2 DEF S
<1>9. \A k \in DOMAIN items : ItemOK(items[k]) /\ items[k].do # "call"
  BY <1>5, <1>8
<1> QED
  BY <1>do, <1>7, <1>8, <1>9, CaseInstead

LEMMA CaseLoadChained ==
    ASSUME SignalInv, NEW e \in Emitters, LoadChained(e)
    PROVE  SignalInv'
<1>do. work[e] # <<>> /\ Doing(e, "chain") /\ UNCHANGED <<object, owners, fate, history>>
  BY DEF LoadChained, Doing
<1>i. PICK i \in Items : i = Head(work[e]) /\ ItemOK(i) /\ i.do = "chain"
  BY <1>do, HeadItem
<1>1. /\ i.slot \in Slots /\ i.types \subseteq Types /\ i.types \subseteq state[SignalOf[i.slot]]
      /\ SignalOf[i.slot] \in Signals
  BY <1>i, ItemParts, SignalAssumption
<1>2. PICK l \in Seq(Types) : l = i.list
  BY <1>i, ItemParts
<1>3. PICK v : v = VisitItem(i.slot, i.types, l)
  OBVIOUS
<1>4. v \in Items /\ v.do = "visit" /\ v.signal = SignalOf[i.slot] /\ v.slot = i.slot /\ v.types = i.types
  BY <1>1, <1>3, ItemTypes DEF VisitItem
<1>5. ItemOK(v) /\ v.do # "call"
  BY <1>1, <1>4 DEF ItemOK
<1>6. PICK u : u = UpdateItem(ChainOf[i.slot], i.types)
  OBVIOUS
<1>7. chained[i.slot] => u \in Items /\ ItemOK(u) /\ u.do # "call"
  <2> SUFFICES ASSUME chained[i.slot] PROVE u \in Items /\ ItemOK(u) /\ u.do # "call"
    OBVIOUS
  <2>1. PICK g \in Signals : g = ChainOf[i.slot]
    BY <1>1, SignalAssumption DEF SignalInv, MoreTypes
  <2>2. u \in Items /\ u.do = "update"
    BY <1>1, <1>6, <2>1, NoList DEF UpdateItem, Item, Items
  <2> QED
    BY <2>2 DEF ItemOK
<1>8. PICK items : items = (IF chained[i.slot] THEN <<u>> ELSE <<>>) \o <<v>>
  OBVIOUS
<1>9. Instead(e, items)
  BY <1>i, <1>2, <1>3, <1>6, <1>8 DEF LoadChained
<1>10. items \in Seq(Items) /\ \A k \in DOMAIN items : ItemOK(items[k]) /\ items[k].do # "call"
  <2> DEFINE S == Items
  <2>1. v \in S /\ (chained[i.slot] => u \in S)
    BY <1>4, <1>7
  <2> HIDE DEF S
  <2>2. CASE chained[i.slot]
    <3>0. items = <<u>> \o <<v>>
      BY <1>8, <2>2
    <3>1. items \in Seq(S) /\ \A k \in DOMAIN items : items[k] = u \/ items[k] = v
      BY <2>1, <2>2, <3>0, TwoItems
    <3> QED
      BY <1>5, <1>7, <2>2, <3>1 DEF S
  <2>3. CASE ~chained[i.slot]
    <3>1. items = <<v>>
      BY <1>8, <2>1, <2>3
    <3>2. items \in Seq(S) /\ \A k \in DOMAIN items : items[k] = v
      BY <2>1, <3>1
    <3> QED
      BY <1>5, <3>2 DEF S
  <2> QED
    BY <2>2, <2>3
<1> QED
  BY <1>do, <1>9, <1>10, CaseInstead

\* invoke takes what is in the place of a trigger-once type: the tag stays there, and the
\* handler's call comes before the rest of the work.
Take(u, t, h) ==
    /\ t \in state[SignalOf[u]] /\ h = handler[u][t]
    /\ handler' = [handler EXCEPT ![u][t] = EmittedTag]
    /\ fate' = IF h \in Handlers THEN [fate EXCEPT ![h] = "taken"] ELSE fate
    /\ UNCHANGED <<state, nodes, filter, managers, chained, owners, history>>

LEMMA CaseTake ==
    ASSUME SignalInv, NEW e \in Emitters, work[e] # <<>>, NEW u \in Slots, NEW t \in OnceTypes,
           NEW h, Take(u, t, h),
           NEW items \in Seq(Items), Instead(e, items),
           \A k \in DOMAIN items :
              \/ ItemOK(items[k]) /\ items[k].do # "call"
              \/ /\ k = 1 /\ h \in Handlers /\ items[k].do = "call"
                 /\ items[k].handler = h /\ items[k].types = {t}
    PROVE  SignalInv'
<1>take. /\ t \in state[SignalOf[u]] /\ h = handler[u][t]
         /\ handler' = [handler EXCEPT ![u][t] = EmittedTag]
         /\ fate' = IF h \in Handlers THEN [fate EXCEPT ![h] = "taken"] ELSE fate
         /\ UNCHANGED <<state, nodes, filter, managers, chained, pc, op, made, calls, alive, wins>>
  BY DEF Take, owners, history
<1>un. UNCHANGED <<state, nodes, filter, managers, chained, pc, op, made, calls, alive, wins>>
  BY <1>take
<1>t. t \in Types
  BY DEF Types
<1>null. EmittedTag \notin Handlers
  BY SignalAssumption DEF EmittedTag
<1>1. /\ handler \in [Slots -> [Types -> Handlers \cup {Null, EmittedTag}]]
      /\ fate \in [Handlers -> {"new", "emplacing", "installed", "refused", "revoked", "taken"}]
  BY DEF SignalInv, TypeOK
<1>2. /\ handler' \in [Slots -> [Types -> Handlers \cup {Null, EmittedTag}]]
      /\ handler'[u][t] = EmittedTag
      /\ \A s \in Slots, x \in Types : s # u \/ x # t => handler'[s][x] = handler[s][x]
  BY <1>t, <1>1, <1>take
<1>3. /\ fate' \in [Handlers -> {"new", "emplacing", "installed", "refused", "revoked", "taken"}]
      /\ h \in Handlers => fate'[h] = "taken"
      /\ \A x \in Handlers : x # h => fate'[x] = fate[x]
  <2>1. CASE h \in Handlers
    BY <1>1, <1>take, <2>1
  <2>2. CASE h \notin Handlers
    BY <1>1, <1>take, <2>2
  <2> QED
    BY <2>1, <2>2
<1>4. h \in Handlers =>
        /\ made[h].slot = u /\ made[h].type = t /\ fate[h] = "installed" /\ h \in alive
        /\ calls[h] = 0
  <2>1. h \in Handlers =>
          made[h].slot = u /\ made[h].type = t /\ fate[h] = "installed" /\ h \in alive
    BY <1>t, <1>take DEF SignalInv, HandlerInv
  <2>2. h \in Handlers /\ made[h].type \in OnceTypes =>
          calls[h] \in {0, 1} /\ (calls[h] = 1 => fate[h] = "taken")
    BY DEF SignalInv, FateInv
  <2> QED
    BY <2>1, <2>2
<1>5. HandlersStay /\ StateGrows
  <2>1. ASSUME NEW x \in Handlers
        PROVE  /\ fate[x] # "new" => fate'[x] # "new" /\ made'[x] = made[x]
               /\ fate[x] = "taken" =>
                    fate'[x] = "taken" /\ calls'[x] = calls[x] /\ (x \in alive => x \in alive')
    BY <1>un, <1>3
  <2> QED
    BY <1>un, <2>1 DEF HandlersStay, StateGrows
<1>6. ASSUME NEW k \in DOMAIN items
      PROVE  /\ ItemOK(items[k])'
             /\ items[k].do = "call" => k = 1 /\ fate[items[k].handler] # "taken"
  <2>1. PICK a : a = items[k]
    OBVIOUS
  <2>2. CASE ItemOK(a) /\ a.do # "call"
    BY <1>un, <2>1, <2>2 DEF ItemOK
  <2>3. CASE k = 1 /\ h \in Handlers /\ a.do = "call" /\ a.handler = h /\ a.types = {t}
    <3>1. ItemOK(a)'
      BY <1>un, <1>3, <1>4, <2>3 DEF ItemOK
    <3> QED
      BY <1>4, <2>1, <2>3, <3>1
  <2> QED
    BY <2>1, <2>2, <2>3
<1>7. WorkInv' /\ work' \in [Emitters -> Seq(Items)]
  BY <1>5, <1>6, WorkStep
<1>8. TypeOK' /\ MoreTypes'
  BY <1>un, <1>2, <1>3, <1>7 DEF SignalInv, TypeOK, MoreTypes
<1>9. HandlerInv'
  <2> SUFFICES ASSUME NEW s \in Slots, NEW x \in Types
               PROVE  /\ handler'[s][x] \in Handlers =>
                           /\ made[handler'[s][x]].slot = s /\ made[handler'[s][x]].type = x
                           /\ fate'[handler'[s][x]] = "installed" /\ handler'[s][x] \in alive
                      /\ handler'[s][x] = EmittedTag => x \in OnceTypes /\ x \in state[SignalOf[s]]
    BY <1>un DEF HandlerInv
  <2>1. CASE s = u /\ x = t
    BY <1>null, <1>take, <1>2, <2>1
  <2>2. CASE s # u \/ x # t
    <3>1. handler'[s][x] = handler[s][x]
      BY <1>2, <2>2
    <3>2. handler[s][x] \in Handlers =>
             /\ made[handler[s][x]].slot = s /\ made[handler[s][x]].type = x
             /\ fate[handler[s][x]] = "installed" /\ handler[s][x] \in alive
      BY DEF SignalInv, HandlerInv
    <3>3. handler[s][x] \in Handlers => handler[s][x] # h
      BY <1>4, <2>2, <3>2
    <3>4. handler[s][x] = EmittedTag => x \in OnceTypes /\ x \in state[SignalOf[s]]
      BY DEF SignalInv, HandlerInv
    <3> QED
      BY <1>3, <3>1, <3>2, <3>3, <3>4
  <2> QED
    BY <2>1, <2>2
<1>10. OwnerInv'
  <2> SUFFICES ASSUME NEW s \in Slots
               PROVE  /\ pc[s] \in Emplacing =>
                           /\ op[s].type \in Types /\ op[s].new \in Handlers
                           /\ made[op[s].new].slot = s /\ made[op[s].new].type = op[s].type
                           /\ fate'[op[s].new] = "emplacing" /\ op[s].new \in alive
                      /\ pc[s] \in {"emplaceCas", "clearCas"} =>
                           op[s].type \in Types /\ handler'[s][op[s].type] \in {op[s].old, EmittedTag}
                      /\ pc[s] = "clearCas" => op[s].old \in Handlers
    BY <1>un DEF OwnerInv
  <2>1. pc[s] \in Emplacing =>
          /\ op[s].type \in Types /\ op[s].new \in Handlers
          /\ made[op[s].new].slot = s /\ made[op[s].new].type = op[s].type
          /\ fate[op[s].new] = "emplacing" /\ op[s].new \in alive
    BY DEF SignalInv, OwnerInv
  <2>2. pc[s] \in Emplacing => fate'[op[s].new] = "emplacing"
    BY <1>3, <1>4, <2>1
  <2>3. pc[s] \in {"emplaceCas", "clearCas"} =>
          op[s].type \in Types /\ handler'[s][op[s].type] \in {op[s].old, EmittedTag}
    BY <1>2 DEF SignalInv, OwnerInv
  <2>4. pc[s] = "clearCas" => op[s].old \in Handlers
    BY DEF SignalInv, OwnerInv
  <2> QED
    BY <2>1, <2>2, <2>3, <2>4
<1>11. FateInv'
  <2> SUFFICES ASSUME NEW x \in Handlers
               PROVE  /\ fate'[x] = "new" => calls[x] = 0
                      /\ made[x].type \in OnceTypes =>
                           /\ calls[x] \in {0, 1} /\ (calls[x] = 1 => fate'[x] = "taken")
                           /\ fate'[x] = "refused" =>
                                made[x].slot \in Slots /\ made[x].type \in state[SignalOf[made[x].slot]]
    BY <1>un DEF FateInv
  <2>1. CASE x = h
    BY <1>3, <1>4, <2>1
  <2>2. CASE x # h
    BY <1>3, <2>2 DEF SignalInv, FateInv
  <2> QED
    BY <2>1, <2>2
<1>12. WinInv'
  BY <1>un DEF SignalInv, WinInv
<1> QED
  BY <1>7, <1>8, <1>9, <1>10, <1>11, <1>12 DEF SignalInv

\* The handler of a type that triggers many times stays where it is, and is called.
LEMMA CaseShare ==
    ASSUME SignalInv, NEW e \in Emitters, work[e] # <<>>, NEW u \in Slots,
           NEW t \in Types \ OnceTypes, NEW h, h = handler[u][t],
           UNCHANGED <<object, owners, fate, history>>,
           NEW items \in Seq(Items), Instead(e, items),
           \A k \in DOMAIN items :
              \/ ItemOK(items[k]) /\ items[k].do # "call"
              \/ /\ k = 1 /\ h \in Handlers /\ items[k].do = "call"
                 /\ items[k].handler = h /\ items[k].types = {t}
    PROVE  SignalInv'
<1>un. UNCHANGED <<state, nodes, filter, managers, handler, chained, pc, op, fate, made, calls, alive, wins>>
  BY DEF object, owners, history
<1>1. HandlersStay /\ StateGrows
  BY <1>un DEF HandlersStay, StateGrows
<1>2. h \in Handlers => made[h].type = t /\ fate[h] = "installed"
  BY DEF SignalInv, HandlerInv
<1>3. ASSUME NEW k \in DOMAIN items
      PROVE  /\ ItemOK(items[k])'
             /\ items[k].do = "call" =>
                  k = 1 /\ (made'[items[k].handler].type \in OnceTypes => fate[items[k].handler] # "taken")
  <2>1. PICK a : a = items[k]
    OBVIOUS
  <2>2. CASE ItemOK(a) /\ a.do # "call"
    BY <1>un, <2>1, <2>2 DEF ItemOK
  <2>3. CASE k = 1 /\ h \in Handlers /\ a.do = "call" /\ a.handler = h /\ a.types = {t}
    <3>1. ItemOK(a)'
      BY <1>un, <1>2, <2>3 DEF ItemOK
    <3> QED
      BY <1>un, <1>2, <2>1, <2>3, <3>1
  <2> QED
    BY <2>1, <2>2, <2>3
<1>4. WorkInv' /\ work' \in [Emitters -> Seq(Items)]
  BY <1>1, <1>3, WorkStep
<1>5. TypeOK' /\ MoreTypes'
  BY <1>un, <1>4 DEF SignalInv, TypeOK, MoreTypes
<1>6. HandlerInv' /\ OwnerInv' /\ FateInv' /\ WinInv'
  BY <1>un DEF SignalInv, HandlerInv, OwnerInv, FateInv, WinInv
<1> QED
  BY <1>4, <1>5, <1>6 DEF SignalInv

LEMMA CaseVisit ==
    ASSUME SignalInv, NEW e \in Emitters, Visit(e)
    PROVE  SignalInv'
<1>do. /\ work[e] # <<>> /\ Doing(e, "visit")
       /\ UNCHANGED <<state, nodes, filter, managers, chained, owners, history>>
  BY DEF Visit, Doing
<1>i. PICK i \in Items : i = Head(work[e]) /\ ItemOK(i) /\ i.do = "visit"
  BY <1>do, HeadItem
<1>1. /\ i.slot \in Slots /\ i.types \subseteq Types /\ i.types \subseteq state[SignalOf[i.slot]]
      /\ SignalOf[i.slot] \in Signals /\ i.list \in Seq(Types)
  BY <1>i, ItemParts, SignalAssumption
<1>visit. ASSUME NEW ts \in SUBSET i.types, NEW l \in Seq(Types), NEW v, v = VisitItem(i.slot, ts, l)
          PROVE  v \in Items /\ v.do # "call" /\ ItemOK(v)
  <2>1. v \in Items /\ v.do = "visit" /\ v.signal = SignalOf[i.slot] /\ v.slot = i.slot /\ v.types = ts
    BY <1>1, <1>visit DEF VisitItem, Item, Items
  <2> QED
    BY <1>1, <2>1 DEF ItemOK
<1>2. CASE Instead(e, <<>>) /\ UNCHANGED <<handler, fate>>
  <2>0. PICK items : items = <<>>
    OBVIOUS
  <2>1. items = <<>> /\ items \in Seq(Items)
    <3> DEFINE S == Items
    <3> HIDE DEF S
    <3>1. items \in Seq(S)
      BY <2>0
    <3> QED
      BY <2>0, <3>1 DEF S
  <2>2. \A k \in DOMAIN items : ItemOK(items[k]) /\ items[k].do # "call"
    BY <2>1
  <2>3. Instead(e, items)
    BY <1>2, <2>1
  <2> QED
    BY <1>do, <1>2, <2>1, <2>2, <2>3, CaseInstead DEF object
<1>3. CASE /\ i.list # <<>> /\ Instead(e, <<VisitItem(i.slot, i.types, Tail(i.list))>>)
           /\ UNCHANGED <<handler, fate>>
  <2>1. PICK v : v = VisitItem(i.slot, i.types, Tail(i.list))
    OBVIOUS
  <2>2. Tail(i.list) \in Seq(Types)
    BY <1>1, <1>3
  <2>3. v \in Items /\ v.do # "call" /\ ItemOK(v)
    BY <1>visit, <2>1, <2>2
  <2>4. PICK items : items = <<v>>
    OBVIOUS
  <2>5. items \in Seq(Items) /\ \A k \in DOMAIN items : items[k] = v
    <3> DEFINE S == Items
    <3>1. v \in S
      BY <2>3
    <3> HIDE DEF S
    <3>2. items \in Seq(S) /\ \A k \in DOMAIN items : items[k] = v
      BY <2>4, <3>1
    <3> QED
      BY <3>2 DEF S
  <2>6. Instead(e, items)
    BY <1>3, <2>1, <2>4
  <2>7. \A k \in DOMAIN items : ItemOK(items[k]) /\ items[k].do # "call"
    BY <2>3, <2>5
  <2> QED
    BY <1>do, <1>3, <2>5, <2>6, <2>7, CaseInstead DEF object
<1>4. ASSUME i.list # <<>>, Head(i.list) \in i.types, NEW t, t = Head(i.list),
             NEW h, h = handler[i.slot][t],
             Instead(e, (IF h \in Handlers THEN <<CallItem(i.slot, t, h)>> ELSE <<>>)
                        \o <<VisitItem(i.slot, i.types \ {t}, Tail(i.list))>>),
             handler' = [handler EXCEPT ![i.slot][t] = InvokeLeaves(t, h)],
             fate' = IF t \in OnceTypes /\ h \in Handlers THEN [fate EXCEPT ![h] = "taken"] ELSE fate
      PROVE  SignalInv'
  <2>0. t \in Types /\ t \in state[SignalOf[i.slot]] /\ Tail(i.list) \in Seq(Types)
    BY <1>1, <1>4
  <2>1. PICK v : v = VisitItem(i.slot, i.types \ {t}, Tail(i.list))
    OBVIOUS
  <2>2. v \in Items /\ v.do # "call" /\ ItemOK(v)
    <3>1. i.types \ {t} \in SUBSET i.types
      OBVIOUS
    <3> QED
      BY <1>visit, <2>0, <2>1, <3>1
  <2>3. PICK c : c = CallItem(i.slot, t, h)
    OBVIOUS
  <2>4. h \in Handlers => c \in Items /\ c.do = "call" /\ c.handler = h /\ c.types = {t}
    BY <1>1, <2>0, <2>3, NoList DEF CallItem, Item, Items
  <2>5. PICK items : items = (IF h \in Handlers THEN <<c>> ELSE <<>>) \o <<v>>
    OBVIOUS
  <2>6. Instead(e, items)
    BY <1>4, <2>1, <2>3, <2>5
  <2>7. /\ items \in Seq(Items)
        /\ \A k \in DOMAIN items : items[k] = v \/ (h \in Handlers /\ k = 1 /\ items[k] = c)
    <3> DEFINE S == Items
    <3>1. v \in S /\ (h \in Handlers => c \in S)
      BY <2>2, <2>4
    <3> HIDE DEF S
    <3>2. CASE h \in Handlers
      <4>1. items = <<c>> \o <<v>>
        BY <2>5, <3>2
      <4>2. items \in Seq(S) /\ DOMAIN items = {1, 2} /\ items[1] = c /\ items[2] = v
        BY <3>1, <3>2, <4>1, TwoItems
      <4> QED
        BY <3>2, <4>2 DEF S
    <3>3. CASE h \notin Handlers
      <4>1. items = <<v>>
        BY <2>5, <3>1, <3>3
      <4>2. items \in Seq(S) /\ \A k \in DOMAIN items : items[k] = v
        BY <3>1, <4>1
      <4> QED
        BY <4>2 DEF S
    <3> QED
      BY <3>2, <3>3
  <2>8. \A k \in DOMAIN items :
          \/ ItemOK(items[k]) /\ items[k].do # "call"
          \/ /\ k = 1 /\ h \in Handlers /\ items[k].do = "call"
             /\ items[k].handler = h /\ items[k].types = {t}
    BY <2>2, <2>4, <2>7
  <2>9. PICK u \in Slots : u = i.slot
    BY <1>1
  <2>10. CASE t \in OnceTypes
    <3>1. /\ handler' = [handler EXCEPT ![u][t] = EmittedTag] /\ h = handler[u][t]
          /\ fate' = IF h \in Handlers THEN [fate EXCEPT ![h] = "taken"] ELSE fate
          /\ t \in state[SignalOf[u]]
      BY <1>4, <2>0, <2>9, <2>10 DEF InvokeLeaves
    <3> QED
      <4>1. Take(u, t, h)
        BY <1>do, <3>1, Zenon DEF Take
      <4>2. items \in Seq(Items)
        BY <2>7
      <4> QED
        BY <1>do, <2>6, <2>8, <2>10, <4>1, <4>2, CaseTake
  <2>11. CASE t \notin OnceTypes
    <3>1. handler' = handler
      <4>1. handler' = [handler EXCEPT ![u][t] = handler[u][t]]
        BY <1>4, <2>9, <2>11 DEF InvokeLeaves
      <4>2. handler \in [Slots -> [Types -> Handlers \cup {Null, EmittedTag}]]
        BY DEF SignalInv, TypeOK
      <4> QED
        BY <2>0, <4>1, <4>2
    <3>2. fate' = fate /\ h = handler[u][t] /\ t \in Types \ OnceTypes
      BY <1>4, <2>0, <2>9, <2>11
    <3>3. UNCHANGED <<object, owners, fate, history>>
      BY <1>do, <3>1, <3>2 DEF object
    <3> QED
      BY <1>do, <2>6, <2>7, <2>8, <3>2, <3>3, CaseShare
  <2> QED
    BY <2>10, <2>11
<1> QED
  BY <1>i, <1>2, <1>3, <1>4 DEF Visit

\* (*handler)(signal, self): the call of a once-handler is the only one there is.
LEMMA CaseCallHandler ==
    ASSUME SignalInv, NEW e \in Emitters, CallHandler(e)
    PROVE  SignalInv'
<1>un. UNCHANGED <<state, nodes, filter, managers, handler, chained, pc, op, fate, made, wins>>
  BY DEF CallHandler, object, owners
<1>do. /\ work[e] # <<>> /\ Doing(e, "call") /\ 1 \in DOMAIN work[e]
  BY HeadItem DEF CallHandler, Doing
<1>i. PICK i \in Items : i = Head(work[e]) /\ i = work[e][1] /\ ItemOK(i) /\ i.do = "call"
  BY <1>do, HeadItem
<1>h. PICK h \in Handlers : h = i.handler
  BY <1>i DEF ItemOK
<1>1. /\ fate[h] # "new" /\ i.types = {made[h].type}
      /\ made[h].type \in OnceTypes => fate[h] = "taken" /\ calls[h] = 0 /\ h \in alive
  BY <1>i, <1>h DEF ItemOK
<1>2. /\ calls' = [calls EXCEPT ![h] = @ + 1]
      /\ alive' = IF made[h].type \in OnceTypes THEN alive \ {h} ELSE alive
      /\ work' = [work EXCEPT ![e] = <<>> \o Tail(@)]
  BY <1>i, <1>h, <1>1 DEF CallHandler, Instead
<1>3. /\ calls \in [Handlers -> Nat] /\ alive \subseteq Handlers
  BY DEF SignalInv, TypeOK, MoreTypes
<1>4. /\ calls' \in [Handlers -> Nat] /\ calls'[h] = calls[h] + 1
      /\ \A x \in Handlers : x # h => calls'[x] = calls[x]
  BY <1>2, <1>3
<1>5. /\ alive' \subseteq alive /\ \A x \in alive : x # h => x \in alive'
      /\ made[h].type \notin OnceTypes => alive' = alive
  BY <1>2
<1>6. /\ work' \in [Emitters -> Seq(Items)]
      /\ \A f \in Emitters : f # e => work'[f] = work[f]
      /\ \A k \in DOMAIN work'[e] :
           k \in Nat /\ k + 1 \in DOMAIN work[e] /\ k + 1 # 1 /\ work'[e][k] = work[e][k + 1]
  <2> DEFINE S == Items
  <2> HIDE DEF S
  <2>1. work \in [Emitters -> Seq(S)]
    BY DEF S, SignalInv, MoreTypes
  <2>2. PICK none : none = <<>>
    OBVIOUS
  <2>3. none \in Seq(S) /\ Len(none) = 0 /\ DOMAIN none = {}
    BY <2>2
  <2>4. PICK r : r = none \o Tail(work[e])
    OBVIOUS
  <2>5. /\ r \in Seq(S)
        /\ \A k \in DOMAIN r :
             \/ k \in DOMAIN none /\ r[k] = none[k]
             \/ /\ k \notin DOMAIN none
                /\ k - Len(none) + 1 \in DOMAIN work[e] /\ k - Len(none) + 1 # 1
                /\ r[k] = work[e][k - Len(none) + 1]
    BY <1>do, <2>1, <2>3, <2>4, Replaced
  <2>6. \A k \in DOMAIN r : k \in Nat /\ k - Len(none) + 1 = k + 1
    BY <2>3, <2>5
  <2>7. work' = [work EXCEPT ![e] = r]
    BY <1>2, <2>2, <2>4
  <2>8. work' \in [Emitters -> Seq(S)] /\ work'[e] = r /\ \A f \in Emitters : f # e => work'[f] = work[f]
    BY <2>1, <2>5, <2>7
  <2>9. \A k \in DOMAIN r :
          k \in Nat /\ k + 1 \in DOMAIN work[e] /\ k + 1 # 1 /\ r[k] = work[e][k + 1]
    BY <2>3, <2>5, <2>6
  <2> QED
    BY <2>8, <2>9 DEF S
<1>7. ASSUME NEW f \in Emitters, NEW k \in DOMAIN work'[f]
      PROVE  \E m \in DOMAIN work[f] :
               /\ work'[f][k] = work[f][m] /\ (f = e => m # 1)
               /\ m = (IF f = e THEN k + 1 ELSE k)
  BY <1>6, <1>7
<1>8. ASSUME NEW f \in Emitters, NEW k \in DOMAIN work'[f], NEW j, j = work'[f][k]
      PROVE  ItemOK(j)'
  <2>1. PICK m \in DOMAIN work[f] : j = work[f][m] /\ (f = e => m # 1)
    BY <1>7, <1>8
  <2>2. ItemOK(j)
    BY <2>1, WorkTypes
  <2>3. j.do = "call" /\ made[j.handler].type \in OnceTypes => j.handler # h
    BY <1>do, <1>i, <1>h, <2>1 DEF SignalInv, WorkInv
  <2>4. j.do = "call" /\ made[j.handler].type \in OnceTypes =>
          calls'[j.handler] = 0 /\ j.handler \in alive'
    BY <1>4, <1>5, <2>2, <2>3 DEF ItemOK
  <2> QED
    BY <1>un, <2>2, <2>4 DEF ItemOK
<1>9. WorkInv'
  <2>1. \A f \in Emitters : \A k \in DOMAIN work'[f] : ItemOK(work[f][k])'
    BY <1>8 DEF ItemOK
  <2>2. ASSUME NEW f \in Emitters, NEW x \in Emitters, NEW k \in DOMAIN work'[f], NEW l \in DOMAIN work'[x],
               work'[f][k].do = "call", work'[x][l].do = "call",
               work'[f][k].handler = work'[x][l].handler,
               made'[work'[f][k].handler].type \in OnceTypes
        PROVE  f = x /\ k = l
    <3>1. PICK m \in DOMAIN work[f] : work'[f][k] = work[f][m] /\ m = (IF f = e THEN k + 1 ELSE k)
      BY <1>7
    <3>2. PICK n \in DOMAIN work[x] : work'[x][l] = work[x][n] /\ n = (IF x = e THEN l + 1 ELSE l)
      BY <1>7
    <3>3. f = x /\ m = n
      BY <1>un, <2>2, <3>1, <3>2 DEF SignalInv, WorkInv
    <3>4. CASE f # e
      BY <3>1, <3>2, <3>3, <3>4
    <3>5. CASE f = e
      <4>1. k \in Nat /\ l \in Nat
        BY <1>6, <3>3, <3>5
      <4>2. k + 1 = l + 1
        BY <3>1, <3>2, <3>3, <3>5
      <4> QED
        BY <3>3, <4>1, <4>2
    <3> QED
      BY <3>4, <3>5
  <2> QED
    BY <2>1, <2>2 DEF WorkInv
<1>10. TypeOK' /\ MoreTypes'
  BY <1>un, <1>3, <1>4, <1>5, <1>6 DEF SignalInv, TypeOK, MoreTypes
<1>11. \A x \in Handlers : fate[x] \in {"installed", "emplacing"} /\ x \in alive => x \in alive'
  BY <1>1, <1>5
<1>12. HandlerInv'
  BY <1>un, <1>11 DEF SignalInv, HandlerInv
<1>13. OwnerInv'
  BY <1>un, <1>11 DEF SignalInv, OwnerInv
<1>14. FateInv'
  <2> SUFFICES ASSUME NEW x \in Handlers
               PROVE  /\ fate[x] = "new" => calls'[x] = 0
                      /\ made[x].type \in OnceTypes =>
                           /\ calls'[x] \in {0, 1} /\ (calls'[x] = 1 => fate[x] = "taken")
                           /\ fate[x] = "refused" =>
                                made[x].slot \in Slots /\ made[x].type \in state[SignalOf[made[x].slot]]
    BY <1>un DEF FateInv
  <2>1. CASE x = h
    BY <1>1, <1>4, <2>1
  <2>2. CASE x # h
    BY <1>4, <2>2 DEF SignalInv, FateInv
  <2> QED
    BY <2>1, <2>2
<1>15. WinInv'
  BY <1>un DEF SignalInv, WinInv
<1> QED
  BY <1>9, <1>10, <1>12, <1>13, <1>14, <1>15 DEF SignalInv

----
(* The theorems *)

LEMMA SignalInit ==
    ASSUME Init
    PROVE  SignalInv
<1> USE DEF Init
<1>null. Null \notin Handlers /\ EmittedTag \notin Handlers /\ Null # EmittedTag
  BY SignalAssumption DEF Null, EmittedTag
<1>1. TypeOK
  <2>1. \A g \in Signals : ToSet(nodes[g]) = {}
    BY DEF ToSet
  <2>2. \A s \in Slots : ToSet(managers[s]) = {} /\ IsInjective(managers[s])
    BY DEF ToSet, IsInjective
  <2>3. /\ state \in [Signals -> SUBSET Types] /\ filter \in [Slots -> SUBSET Types]
        /\ chained \in [Slots -> BOOLEAN]
    OBVIOUS
  <2>4. handler \in [Slots -> [Types -> Handlers \cup {Null, EmittedTag}]]
    OBVIOUS
  <2>5. /\ pc \in [Slots -> {"new", "idle", "emplaceState", "emplaceLoad", "emplaceCas", "clearCas"}]
        /\ fate \in [Handlers -> {"new", "emplacing", "installed", "refused", "revoked", "taken"}]
        /\ alive \subseteq Handlers
    OBVIOUS
  <2> QED
    BY <2>1, <2>2, <2>3, <2>4, <2>5 DEF TypeOK
<1>2. MoreTypes
  <2>1. nodes \in [Signals -> Seq(Slots)] /\ managers \in [Slots -> Seq(Types)]
    OBVIOUS
  <2>2. op \in [Slots -> Registers] /\ made \in [Handlers -> Places]
    BY DEF Registers, Places, NoOp
  <2>3. calls \in [Handlers -> Nat] /\ wins \in [Signals -> [Types -> Nat]]
    OBVIOUS
  <2>4. work \in [Emitters -> Seq(Items)]
    <3> DEFINE S == Items
    <3> HIDE DEF S
    <3>1. work \in [Emitters -> Seq(S)]
      OBVIOUS
    <3> QED
      BY <3>1 DEF S
  <2>5. \A s \in Slots : chained[s] => ChainOf[s] # NoSignal
    OBVIOUS
  <2> QED
    BY <2>1, <2>2, <2>3, <2>4, <2>5 DEF MoreTypes
<1>3. HandlerInv
  BY <1>null DEF HandlerInv
<1>4. OwnerInv
  BY DEF OwnerInv, Emplacing
<1>5. WorkInv
  <2>1. \A e \in Emitters : DOMAIN work[e] = {}
    OBVIOUS
  <2> QED
    BY <2>1 DEF WorkInv
<1>6. FateInv
  BY DEF FateInv
<1>7. WinInv
  BY DEF WinInv, Types
<1> QED
  BY <1>1, <1>2, <1>3, <1>4, <1>5, <1>6, <1>7 DEF SignalInv

LEMMA SignalStutter ==
    ASSUME SignalInv, UNCHANGED vars
    PROVE  SignalInv'
<1>un. UNCHANGED <<state, nodes, filter, managers, handler, chained, pc, op, work, fate, made, calls,
                   alive, wins>>
  BY DEF vars, object, owners, history
<1>1. TypeOK' /\ MoreTypes'
  BY <1>un DEF SignalInv, TypeOK, MoreTypes
<1>2. HandlerInv' /\ OwnerInv' /\ FateInv' /\ WinInv'
  BY <1>un DEF SignalInv, HandlerInv, OwnerInv, FateInv, WinInv
<1>3. WorkInv'
  BY <1>un, WorkFrame DEF HandlersStay, StateGrows
<1> QED
  BY <1>1, <1>2, <1>3 DEF SignalInv

LEMMA SignalStep ==
    ASSUME SignalInv, [Next]_vars
    PROVE  SignalInv'
<1>1. ASSUME NEW s \in Slots, OwnerStep(s) PROVE SignalInv'
  BY <1>1, CaseEmplaceState, CaseEmplaceLoad, CaseEmplaceCas, CaseClearCas DEF OwnerStep
<1>2. ASSUME NEW s \in Slots, OwnerCall(s) PROVE SignalInv'
  <2>1. CASE RegistSlot(s)
    BY <2>1, CaseRegistSlot
  <2>2. CASE ChainedSignal(s) \/ \E f \in SUBSET Types : SetFilter(s, f)
    BY <2>2, CaseSettings
  <2>3. CASE \E t \in Types, h \in Handlers : Emplace(s, t, h)
    BY <2>3, CaseEmplace
  <2>4. CASE \E t \in Types : Clear(s, t)
    BY <2>4, CaseClear
  <2> QED
    BY <1>2, <2>1, <2>2, <2>3, <2>4 DEF OwnerCall
<1>3. ASSUME NEW e \in Emitters, EmitterStep(e) PROVE SignalInv'
  BY <1>3, CaseUpdateState, CaseWalkSlots, CaseLoadFilter, CaseLoadManagers,
     CaseLoadChained, CaseVisit,
     CaseCallHandler DEF EmitterStep
<1>4. ASSUME NEW e \in Emitters, NEW g \in Signals, NEW ts \in SUBSET Types \ {{}}, Emit(e, g, ts)
      PROVE  SignalInv'
  BY <1>4, CaseEmit
<1>5. CASE UNCHANGED vars
  BY <1>5, SignalStutter
<1> QED
  BY <1>1, <1>2, <1>3, <1>4, <1>5 DEF Next

\* The inductive invariant, of any number of signals, slots, emitters and handlers.
THEOREM SignalInvariant == Spec => []SignalInv
<1>1. Init => SignalInv
  BY SignalInit
<1>2. SignalInv /\ [Next]_vars => SignalInv'
  BY SignalStep
<1> QED
  BY <1>1, <1>2, PTL DEF Spec

\* UpdateState: of all the emits of a trigger-once type on a signal, concurrent, repeated
\* or chained, one alone is told that it triggered it.
THEOREM SignalTriggersOnce == Spec => []TriggersOnce
<1>1. SignalInv => TriggersOnce
  BY DEF SignalInv, WinInv, TriggersOnce
<1> QED
  BY <1>1, SignalInvariant, PTL

\* emplace, clear and invoke, whatever other types there are: a trigger-once handler is
\* called at most once and never after its owner was told that it will not be; emplace
\* refuses it only after the trigger; and it is not deleted before its call.
OnceAsAnswered ==
    /\ \A e \in Emitters : Doing(e, "call") /\ made[Head(work[e]).handler].type \in OnceTypes =>
         Head(work[e]).handler \in alive
    /\ \A h \in Handlers : made[h].type \in OnceTypes =>
         /\ calls[h] <= 1
         /\ fate[h] \in {"refused", "revoked"} => calls[h] = 0
         /\ fate[h] = "refused" => made[h].type \in state[SignalOf[made[h].slot]]

LEMMA SignalAnswers ==
    ASSUME SignalInv
    PROVE  OnceAsAnswered
<1>1. ASSUME NEW e \in Emitters, Doing(e, "call"), made[Head(work[e]).handler].type \in OnceTypes
      PROVE  Head(work[e]).handler \in alive
  <2>1. PICK i \in Items : i = Head(work[e]) /\ ItemOK(i) /\ i.do = "call"
    BY <1>1, HeadItem
  <2> QED
    BY <1>1, <2>1 DEF ItemOK
<1>2. ASSUME NEW h \in Handlers, made[h].type \in OnceTypes
      PROVE  /\ calls[h] <= 1
             /\ fate[h] \in {"refused", "revoked"} => calls[h] = 0
             /\ fate[h] = "refused" => made[h].type \in state[SignalOf[made[h].slot]]
  BY <1>2 DEF SignalInv, FateInv
<1> QED
  BY <1>1, <1>2 DEF OnceAsAnswered

\* The owner of a trigger-once handler can rely on what emplace and clear answered it,
\* in the presence of types that trigger many times too.
THEOREM SignalCallsOnce == Spec => []OnceAsAnswered
  BY SignalInvariant, SignalAnswers, PTL

\* Where no type triggers many times, that is all: whatever is called has not been deleted.
\* The hypothesis is needed: an emitter may have loaded a handler of such a type when the
\* owner deletes it, and calls it nevertheless.
THEOREM SignalCallsAsAnswered ==
    ASSUME MultiTypes = {}
    PROVE  Spec => []CalledAsAnswered
<1>1. SignalInv => CalledAsAnswered
  <2> SUFFICES ASSUME SignalInv PROVE CalledAsAnswered
    OBVIOUS
  <2>1. TypeOK /\ OnceAsAnswered
    BY SignalAnswers DEF SignalInv
  <2>2. CalledWhileAlive
    <3> SUFFICES ASSUME NEW e \in Emitters, Doing(e, "call") PROVE Head(work[e]).handler \in alive
      BY DEF CalledWhileAlive
    <3>1. PICK i \in Items : i = Head(work[e]) /\ ItemOK(i) /\ i.do = "call"
      BY HeadItem
    <3>2. made[i.handler].type \in i.types /\ i.types \subseteq Types
      BY <3>1 DEF ItemOK, Items
    <3>3. made[i.handler].type \in OnceTypes
      BY <3>2 DEF Types
    <3> QED
      BY <3>1, <3>3 DEF ItemOK
  <2> QED
    BY <2>1, <2>2 DEF CalledAsAnswered, OnceAsAnswered
<1> QED
  BY <1>1, SignalInvariant, PTL
====
