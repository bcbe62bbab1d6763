\* One trigger-once signal type, emitted by two threads on either signal; two
\* handlers for the two slots, of which s1 is filtered now and then.
CONSTANTS
    outer = outer
    inner = inner
    s1 = s1
    s2 = s2
    Signals = {outer, inner}
    Slots = {s1, s2}
    SignalOf <- MCSignalOf
    ChainOf <- MCChainOf
    NoSignal = noSignal
    OnceTypes = {"terminate"}
    MultiTypes = {}
    Filtered = {s1}
    Emitters = {e1, e2}
    MaxEmits = 1
    Handlers = {h1, h2}
SPECIFICATION FairSpec
INVARIANTS CalledAsAnswered TriggersOnce
PROPERTIES TriggeredIsHandled
