\* A circle of waiters is a real stop of the engine: see NoOtherDeadlock.
CHECK_DEADLOCK FALSE
SPECIFICATION Spec
CONSTANTS
    Clients = {c1, c2}
    t1 = t1
    t2 = t2
    Tables = {t1, t2}
    Columns = {a, b}
    Loaded <- OneTable
    MaxStatements = 4
    DdlCommitsFail = FALSE
    None = None
SYMMETRY Symm
INVARIANTS
    Inductive
    NoLostUpdate
    
    
    WritesHitOwnTable
    NoOtherDeadlock
PROPERTIES
    ImplementsSerial
