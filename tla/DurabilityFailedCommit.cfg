SPECIFICATION Spec
CONSTANTS
    NumPages = 2
    MaxTx = 2
    MaxSlots = 4
    MaxUser = 1
    MaxCrashes = 2
    LateFlush = FALSE
INVARIANTS
    FailedCommitIsAtomic
