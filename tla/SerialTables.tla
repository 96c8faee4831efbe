----------------------------- MODULE SerialTables -----------------------------
(***************************************************************************)
(* What clients of the SQL engine are promised: a database is a map from   *)
(* names to tables, and a transaction works alone on a copy of the newest  *)
(* one, which it puts in its place as a whole or drops.  Whatever happens  *)
(* to pages, roots and copied definitions, a table that is created is      *)
(* empty, and a statement changes the table that it names and no other.    *)
(* The content of a table is the number of writes in it.                   *)
(***************************************************************************)
EXTENDS Naturals

CONSTANTS Clients, Tables, Statements, None

VARIABLES
    tables,     \* name -> content, or None
    work,       \* client -> the copy its transaction works on, or None
    asks        \* client -> the statement it runs, or None

vars == <<tables, work, asks>>

Init ==
    /\ tables \in [Tables -> {0, None}]
    /\ work = [c \in Clients |-> None]
    /\ asks = [c \in Clients |-> None]

Ask(c) ==
    /\ asks[c] = None
    /\ \E s \in Statements : asks' = [asks EXCEPT ![c] = s]
    /\ UNCHANGED <<tables, work>>

Answer(c) == asks' = [asks EXCEPT ![c] = None]

Runs(c, kinds) == asks[c] \in Statements /\ asks[c].kind \in kinds

\* A transaction starts; a change of the schema is its first and only step.
Begin(c, copy) ==
    /\ \A d \in Clients : work[d] = None
    /\ work' = [work EXCEPT ![c] = copy]
    /\ UNCHANGED tables

Create(c) ==
    /\ Runs(c, {"create"}) /\ tables[asks[c].table] = None
    /\ Begin(c, [tables EXCEPT ![asks[c].table] = 0])

Drop(c) ==
    /\ Runs(c, {"drop"})
    /\ Begin(c, [tables EXCEPT ![asks[c].table] = None])

Write(c) ==
    /\ Runs(c, {"write", "subquery"})
    /\ work[c] # None /\ work[c][asks[c].table] # None
    /\ work' = [work EXCEPT ![c][asks[c].table] = @ + 1]
    /\ UNCHANGED tables

Commit(c) ==
    /\ work[c] # None
    /\ tables' = work[c]
    /\ work' = [work EXCEPT ![c] = None]

Rollback(c) ==
    /\ work[c] # None
    /\ work' = [work EXCEPT ![c] = None]
    /\ UNCHANGED tables

\* A statement may be answered with any of its steps, or without one.
Next ==
    \E c \in Clients :
        \/ Ask(c)
        \/ Answer(c) /\ UNCHANGED <<tables, work>>
        \/ /\ \/ Begin(c, tables) \/ Create(c) \/ Drop(c) \/ Write(c)
              \/ Commit(c) \/ Rollback(c)
           /\ Answer(c) \/ UNCHANGED asks

Spec == Init /\ [][Next]_vars
===============================================================================
