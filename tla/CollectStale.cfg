\* To be run by hand: collectAny in a Lazy that awaited a Future before, cancelled.
CONSTANTS
    Sizes = {0, 1, 3}
    Windows = {0, 2}
SPECIFICATION Spec
INVARIANT HasWinner
