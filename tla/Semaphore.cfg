\* Up to two permits for four coroutines, of which any may release, one or both at once;
\* with none to begin with it is the notifier of the manual, with one a mutex.
CONSTANTS
    Coros = {c1, c2, c3, c4}
    Conditions = {"cv"}
    LeastMaxValue = 2
    Desired = {0, 1, 2}
    Rounds = 2
SPECIFICATION FairSpec
INVARIANTS ConservesPermits NoIdlePermit
PROPERTIES AllFinish
