\* One reader and two writers; checkpoints keep apart from commits.
CONSTANTS
  Readers = {r1}
  Writers = {w1, w2}
  MaxPages = 2
  MaxTx = 2
  CheckpointAlone = TRUE
  None = None
SPECIFICATION Spec
SYMMETRY Symm
INVARIANTS AllocationSafe SnapshotIsolation CacheIsClean NewestSurvives Inductive
PROPERTIES ImplementsStore
