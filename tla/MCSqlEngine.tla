----------------------------- MODULE MCSqlEngine ----------------------------
EXTENDS SqlEngineInvariant, SqlEngineRefinement, TLC

CONSTANTS t1, t2

OneTable == <<t1>>
Symm == Permutations(Clients)
=============================================================================
