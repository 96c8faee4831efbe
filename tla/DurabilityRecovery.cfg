SPECIFICATION Spec
CONSTANTS
    NumPages = 2
    MaxTx = 3
    MaxSlots = 3
    MaxUser = 0
    MaxCrashes = 2
    LateFlush = FALSE
INVARIANTS
    Inductive
    RecoversCommitted
    
    LogAscends
    PagesCounted
    CheckpointedFileComplete
    NoTornPage
PROPERTIES
    ImplementsDurableStore
