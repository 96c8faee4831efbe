------------------------------ MODULE MCStorage ------------------------------
EXTENDS StorageInvariant, TLC

Symm == Permutations(Readers) \cup Permutations(Writers)
=============================================================================
