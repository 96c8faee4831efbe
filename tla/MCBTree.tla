------------------------------ MODULE MCBTree -------------------------------
(* BTree on small tables.                                                  *)
EXTENDS BTree

\* Rows of one unit, and one that spills into two overflow pages.
SpillingRows == ((1..5 \ {2}) \X {1}) \cup {<<2, 4>>}

\* Rows of one unit.
ShortRows == (1..3) \X {1}
=============================================================================
