\* Up to three tasks; windows of one and two; with and without executor, slot and signal.
CONSTANTS
    Sizes = {0, 1, 3}
    Windows = {0, 2}
SPECIFICATION FairSpec
INVARIANTS AwaiterOutlivesTasks ReturnsResults
PROPERTIES OthersSignalled ParentGoesOn
