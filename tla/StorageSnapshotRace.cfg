\* One reader and two writers; checkpoints at any time.
CONSTANTS
  Readers = {r1}
  Writers = {w1, w2}
  MaxPages = 2
  MaxTx = 2
  CheckpointAlone = FALSE
  None = None
SPECIFICATION Spec
SYMMETRY Symm
INVARIANT SnapshotIsolation
