---------------------------- MODULE MCDurability ----------------------------
(* Durability with the bounds of the .cfg files.                           *)
EXTENDS DurabilityInvariant, DurabilityRefinement
=============================================================================
