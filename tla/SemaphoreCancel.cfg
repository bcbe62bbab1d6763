\* One permit; c2 may be cancelled while it waits for it.
CONSTANTS
    Coros = {c1, c2, c3}
    Conditions = {"cv"}
    LeastMaxValue = 1
    Desired = {1}
    Rounds = 2
    Cancellable = {c2}
SPECIFICATION CancelSpec
INVARIANTS UnlockAssertHolds
CHECK_DEADLOCK FALSE
