------------------------- MODULE SqlEngineRefinement -------------------------
(***************************************************************************)
(* SqlEngine implements SerialTables: a name stands for the tree whose     *)
(* root sqlite_master gives it, in the committed database and in each      *)
(* transaction.  A write through a copied definition whose table has gone  *)
(* reaches no name, and is a step in which nothing happens.                *)
(***************************************************************************)
EXTENDS SqlEngine

ASSUME NamesAssumption == None \notin Nat /\ None \notin [Tables -> Nat \cup {None}]

\* The rows of sqlite_master for name t.
RowsOf(d, t) == {i \in Ids : d.master[i] # None /\ d.master[i].name = t}

RootOf(d, t) == d.master[CHOOSE i \in RowsOf(d, t) : TRUE].root

ByName(d) ==
    [t \in Tables |-> IF RowsOf(d, t) = {} THEN None ELSE d.writes[RootOf(d, t)]]

Serial == INSTANCE SerialTables WITH
    Statements <- Statement,
    tables     <- ByName(db),
    work       <- [c \in Clients |-> IF tx[c] = None THEN None ELSE ByName(tx[c].db)],
    asks       <- [c \in Clients |-> run[c].stmt]

\* Statements and transactions of all clients take effect one after another on
\* tables by name: run_one and execute_on with their copies of definitions, DDL
\* with its catalog in memory, and the write gate between them.
ImplementsSerial == Serial!Spec
===============================================================================
