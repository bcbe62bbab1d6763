\* A slot that emplaces its first handler while the signal is emitted.
CONSTANTS
    outer = outer
    inner = inner
    s1 = s1
    s2 = s2
    Signals = {outer, inner}
    Slots = {s1, s2}
    SignalOf <- MCSignalOf
    ChainOf <- MCChainOf
    NoSignal = noSignal
    OnceTypes = {"terminate"}
    MultiTypes = {}
    Filtered = {}
    Emitters = {e1, e2}
    MaxEmits = 1
    Handlers = {h1, h2}
SPECIFICATION ReorderSpec
INVARIANTS LaterTriggerIsFound
