\* Three coroutines; two readers at a time fill the lock, so that the third overflows.
CONSTANTS
    Coros = {c1, c2, c3}
    Conditions = {"gate1", "gate2"}
    MaxReaders = 2
    Rounds = 2
SPECIFICATION FairSpec
INVARIANTS TypeOK Exclusion SomebodyWakes
PROPERTIES WriterPriority AllFinish
