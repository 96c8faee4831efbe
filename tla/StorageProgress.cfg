\* Two readers and fair scheduling; checkpoints at any time, as the code allows.
\* Symmetry is not sound for liveness.
CONSTANTS
  Readers = {r1, r2}
  Writers = {w1}
  MaxPages = 1
  MaxTx = 1
  CheckpointAlone = FALSE
  None = None
SPECIFICATION FairSpec
INVARIANT RefcountExact
 
