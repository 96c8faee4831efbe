----------------------------- MODULE SqlEngine ------------------------------
(***************************************************************************)
(* squrust-sql: SqlEngine over the storage engine.  Clients that share one *)
(* engine run single statements, which plan against the catalog in memory, *)
(* read subqueries from a snapshot, copy the table definition and then     *)
(* take the write gate, and explicit transactions, which hold the gate     *)
(* from begin to commit.  DDL locks the catalog first and the gate second. *)
(*                                                                         *)
(* Between two actions another client may run: an action holds a lock only *)
(* where the code does.  What a transaction has written is private to it,  *)
(* so a statement's work on it is one action.  The content of a table is   *)
(* the number of writes in it, the same number a subquery over it gives.   *)
(***************************************************************************)
EXTENDS Integers, Sequences, FiniteSets, FiniteSetsExt

CONSTANTS
    Clients,
    Tables,
    Columns,        \* names of columns
    Loaded,         \* the tables that Catalog::load finds, oldest first
    MaxStatements,  \* statements issued in a behaviour
    DdlCommitsFail, \* whether the commit of a DDL statement may fail
    None

ASSUME LoadedAssumption == /\ Loaded \in Seq(Tables)
                           /\ \A i, j \in DOMAIN Loaded : Loaded[i] = Loaded[j] => i = j
ASSUME StatementsAssumption == MaxStatements \in Nat
ASSUME CommitsAssumption == DdlCommitsFail \in BOOLEAN
ASSUME ColumnsAssumption == Columns # {}

VARIABLES
    memory,     \* Catalog: table -> its Table and catalog id, or None
    db,         \* the committed database
    tx,         \* client -> its write transaction, or None
    catalog,    \* who holds the catalog mutex
    gate,       \* who holds the write gate
    run,        \* client -> the statement it is running
    issued,     \* statements issued so far
    written     \* writes of all committed transactions

vars == <<memory, db, tx, catalog, gate, run, issued, written>>

\* At most one table is created by a statement, and one column added.
Roots == 2..(Len(Loaded) + MaxStatements + 1)
Ids == 1..(Len(Loaded) + MaxStatements)
Names == UNION {[1..n -> Columns] : n \in 1..(MaxStatements + 1)}

\* A row of sqlite_master; and the Table in memory, with its columns and the
\* text of its CREATE TABLE side by side, and its entry of catalog_ids.
Entry == [name : Tables, root : Roots, sql : Names]
Definition == [id : Ids, root : Roots, columns : Names, sql : Names]
Database == [master : [Ids -> Entry \cup {None}], pages : Nat,
             writes : [Roots -> Nat]]

Ddl == {"create", "drop", "alter"}
Statement ==
    [kind : {"write", "subquery", "query", "drop", "begin"}, table : Tables]
        \cup [kind : {"create"}, table : Tables, column : Columns]
        \cup [kind : {"alter"}, table : Tables, column : Columns, ifNotExists : BOOLEAN]

\* A client between statements, and one at some step of a statement: the text
\* that an ALTER TABLE has prepared, the snapshot of a subquery and its value,
\* the copy that clone_table made; and, for the properties, the writes in
\* every table when the statement began.
NoWrites == [r \in Roots |-> 0]
Idle == [at |-> "idle", stmt |-> None, newSql |-> <<>>, snap |-> None, value |-> None,
         table |-> None, since |-> NoWrites]
Tx == [db : Database, writes : [Roots -> Nat], explicit : BOOLEAN]

ASSUME NoneAssumption == /\ None \notin Clients /\ None \notin Entry
                         /\ None \notin Definition /\ None \notin Database
                         /\ None \notin Tx

Steps == {"begin", "plan", "snapshot", "subquery", "clone", "gate", "run", "commit",
          "lock", "ddl", "ddlcommit"}

At(c, step) == run[c].at = step
Goto(c, step) == run' = [run EXCEPT ![c].at = step]

\* The statement returns, with an answer or with an error.
Return(c) == run' = [run EXCEPT ![c] = Idle]

CatalogFree == catalog = None
InTx(c) == tx[c] # None /\ tx[c].explicit
Known(t) == memory[t] # None
-----------------------------------------------------------------------------
(* Planning.                                                               *)

\* A client calls the engine.
Issue(c) ==
    /\ At(c, "idle")
    /\ issued < MaxStatements
    /\ \E s \in Statement :
        /\ s.kind = "begin" => ~InTx(c)
        /\ run' = [run EXCEPT ![c].at = IF s.kind = "begin" THEN "begin" ELSE "plan",
                              ![c].stmt = s,
                              ![c].since = db.writes]
    /\ issued' = issued + 1
    /\ UNCHANGED <<memory, db, tx, catalog, gate, written>>

Duplicate(s) == \E i \in DOMAIN memory[s.table].columns : memory[s.table].columns[i] = s.column

\* plan_alter_table: a column that is there already is an error, or with IF
\* NOT EXISTS leaves the text as it is.
Plannable(s) ==
    /\ s.kind \in {"create", "drop"} \/ Known(s.table)
    /\ s.kind = "alter" => ~Duplicate(s) \/ s.ifNotExists

AlteredSql(s) ==
    IF Duplicate(s) THEN memory[s.table].sql ELSE Append(memory[s.table].sql, s.column)

\* plan_stmt.  In a transaction execute_on refuses DDL, while the C interface
\* sends it to execute; a query ends here, for it changes nothing.
Plan(c) ==
    LET s == run[c].stmt
    IN /\ At(c, "plan")
       /\ CatalogFree
       /\ \/ /\ ~Plannable(s) \/ s.kind = "query" \/ (s.kind \in Ddl /\ InTx(c))
             /\ Return(c)
          \/ /\ Plannable(s) /\ s.kind \in Ddl
             /\ run' = [run EXCEPT ![c].at = "lock",
                                   ![c].newSql = IF s.kind = "alter" THEN AlteredSql(s) ELSE <<>>]
          \/ /\ Plannable(s) /\ s.kind \in {"write", "subquery"}
             /\ Goto(c, IF s.kind = "write" THEN "clone" ELSE "snapshot")
       /\ UNCHANGED <<memory, db, tx, catalog, gate, issued, written>>

\* A subquery that reads what is not committed yet.
DirtySnapshot(c) ==
    /\ At(c, "snapshot")
    /\ run' = [run EXCEPT ![c].at = "subquery",
                          ![c].snap = IF gate = None THEN db ELSE tx[gate].db]
    /\ UNCHANGED <<memory, db, tx, catalog, gate, issued, written>>

\* rewrite_dml_subqueries takes a snapshot of the committed database, inside a
\* transaction too.
SubquerySnapshot(c) ==
    /\ At(c, "snapshot")
    /\ run' = [run EXCEPT ![c].at = "subquery", ![c].snap = db]
    /\ UNCHANGED <<memory, db, tx, catalog, gate, issued, written>>

\* subquery_rows plans with the catalog of that moment and scans the snapshot;
\* a root page that the snapshot does not have is an error.
Subquery(c) ==
    LET t == run[c].stmt.table
        s == run[c].snap
    IN /\ At(c, "subquery")
       /\ CatalogFree
       /\ IF Known(t) /\ memory[t].root <= s.pages
          THEN run' = [run EXCEPT ![c].at = "clone", ![c].snap = None,
                                  ![c].value = [root |-> memory[t].root,
                                                got |-> s.writes[memory[t].root]]]
          ELSE Return(c)
       /\ UNCHANGED <<memory, db, tx, catalog, gate, issued, written>>

\* clone_table.
CloneTable(c) ==
    LET t == run[c].stmt.table
    IN /\ At(c, "clone")
       /\ CatalogFree
       /\ IF Known(t)
          THEN run' = [run EXCEPT ![c].at = IF InTx(c) THEN "run" ELSE "gate",
                                  ![c].table = memory[t]]
          ELSE Return(c)
       /\ UNCHANGED <<memory, db, tx, catalog, gate, issued, written>>
-----------------------------------------------------------------------------
(* Data modification, and explicit transactions.                           *)

\* A begin_write that does not wait for the gate.
BeginUngated(c, database, explicit) ==
    /\ gate' = c
    /\ tx' = [tx EXCEPT ![c] = [db |-> database, writes |-> NoWrites, explicit |-> explicit]]

\* begin_write returns: the transaction works on the newest version, with the
\* pages it has written so far.
BeginOn(c, database, explicit) ==
    /\ gate = None
    /\ gate' = c
    /\ tx' = [tx EXCEPT ![c] = [db |-> database, writes |-> NoWrites, explicit |-> explicit]]

\* The gate is released: what the transaction did is committed, or dropped.
Finish(c) ==
    /\ tx' = [tx EXCEPT ![c] = None]
    /\ gate' = None

Commit(c) ==
    /\ Finish(c)
    /\ db' = tx[c].db
    /\ written' = [r \in Roots |-> written[r] + tx[c].writes[r]]

Discard(c) ==
    /\ Finish(c)
    /\ UNCHANGED <<db, written>>

BeginWrite(c) ==
    /\ At(c, "gate")
    /\ BeginOn(c, db, FALSE)
    /\ Goto(c, "run")
    /\ UNCHANGED <<memory, db, catalog, issued, written>>

\* What the statement does to the pages of the table it has a copy of.
OneMore(w, r) == [w EXCEPT ![r] = @ + 1]
Wrote(x, r) == [x EXCEPT !.db.writes = OneMore(@, r), !.writes = OneMore(@, r)]
Write(c) == tx' = [tx EXCEPT ![c] = Wrote(@, run[c].table.root)]

\* dml::insert, update, delete on the transaction.
Run(c) ==
    /\ At(c, "run")
    /\ Write(c)
    /\ IF InTx(c) THEN Return(c) ELSE Goto(c, "commit")
    /\ UNCHANGED <<memory, db, catalog, gate, issued, written>>

\* The statement fails, before any of its rows or after some.  On its own it
\* is rolled back; in a transaction the rows stay.
RunFail(c) ==
    /\ At(c, "run")
    /\ \/ ~InTx(c) /\ Discard(c)
       \/ InTx(c) /\ (Write(c) \/ UNCHANGED tx) /\ UNCHANGED <<db, gate, written>>
    /\ Return(c)
    /\ UNCHANGED <<memory, catalog, issued>>

AutoCommit(c) ==
    /\ At(c, "commit")
    /\ Commit(c) \/ Discard(c)
    /\ Return(c)
    /\ UNCHANGED <<memory, catalog, issued>>

BeginTx(c) ==
    /\ At(c, "begin")
    /\ BeginOn(c, db, TRUE)
    /\ Return(c)
    /\ UNCHANGED <<memory, db, catalog, issued, written>>

\* commit, which may fail, or rollback, or drop.
EndTx(c) ==
    /\ At(c, "idle") /\ InTx(c)
    /\ Commit(c) \/ Discard(c)
    /\ UNCHANGED <<memory, catalog, run, issued>>
-----------------------------------------------------------------------------
(* DDL.                                                                    *)

\* An error return that leaves the catalog locked.
LockAndLeave(c) ==
    /\ At(c, "lock")
    /\ CatalogFree
    /\ IF run[c].stmt.kind = "create" /\ Known(run[c].stmt.table)
       THEN Return(c)
       ELSE Goto(c, "ddl")
    /\ catalog' = c
    /\ UNCHANGED <<memory, db, tx, gate, issued, written>>

\* CREATE TABLE that does not look for the name again once it has the mutex.
LockUnchecked(c) ==
    /\ At(c, "lock")
    /\ CatalogFree
    /\ Goto(c, "ddl") /\ catalog' = c
    /\ UNCHANGED <<memory, db, tx, gate, issued, written>>

\* The catalog is locked until the statement ends.  CREATE TABLE looks for the
\* name before it asks for the gate.
LockCatalog(c) ==
    /\ At(c, "lock")
    /\ CatalogFree
    /\ IF run[c].stmt.kind = "create" /\ Known(run[c].stmt.table)
       THEN Return(c) /\ UNCHANGED catalog
       ELSE Goto(c, "ddl") /\ catalog' = c
    /\ UNCHANGED <<memory, db, tx, gate, issued, written>>

\* A fresh root that may have been the root of a dropped table.
ReusedRoot == Min({r \in Roots : \A i \in Ids : db.master[i] # None => db.master[i].root # r})

\* BTree::create takes a fresh page: DROP TABLE frees no root, so alloc_page
\* finds none on the freelist.
NewRoot == db.pages + 1

\* A catalog id by the number of entries.
CountedId == Cardinality({i \in Ids : db.master[i] # None}) + 1

\* insert_entry: last_key plus one.
NextId == Max({0} \cup {i \in Ids : db.master[i] # None}) + 1

\* The database with a row of sqlite_master put in, or taken out.
WithRow(d, i, row) == [d EXCEPT !.master[i] = row]

CreateTable(c) ==
    LET t == run[c].stmt.table
        columns == <<run[c].stmt.column>>
    IN /\ At(c, "ddl") /\ run[c].stmt.kind = "create"
       /\ BeginOn(c, [WithRow(db, NextId, [name |-> t, root |-> NewRoot, sql |-> columns])
                         EXCEPT !.pages = Max({@, NewRoot})], FALSE)
       /\ memory' = [memory EXCEPT ![t] = [id |-> NextId, root |-> NewRoot,
                                           columns |-> columns, sql |-> columns]]
       /\ Goto(c, "ddlcommit")
       /\ UNCHANGED <<db, catalog, issued, written>>

\* drop_table; a table that does not exist leaves an empty transaction.
DropTable(c) ==
    LET t == run[c].stmt.table
    IN /\ At(c, "ddl") /\ run[c].stmt.kind = "drop"
       /\ BeginOn(c, IF Known(t) THEN WithRow(db, memory[t].id, None) ELSE db, FALSE)
       /\ memory' = [memory EXCEPT ![t] = None]
       /\ Goto(c, "ddlcommit")
       /\ UNCHANGED <<db, catalog, issued, written>>

\* alter_add_column rewrites the row of sqlite_master with the text made when
\* the statement was planned, and appends the column in memory.
AlterTable(c) ==
    LET t == run[c].stmt.table
    IN /\ At(c, "ddl") /\ run[c].stmt.kind = "alter"
       /\ Known(t)
       /\ BeginOn(c, WithRow(db, memory[t].id, [name |-> t, root |-> memory[t].root,
                                                sql |-> run[c].newSql]), FALSE)
       /\ memory' = [memory EXCEPT ![t].columns = Append(@, run[c].stmt.column),
                                   ![t].sql = run[c].newSql]
       /\ Goto(c, "ddlcommit")
       /\ UNCHANGED <<db, catalog, issued, written>>

\* An error, which drops the transaction and unlocks the catalog: an ALTER TABLE
\* whose table is gone since it was planned, or a page that cannot be read.
\* CREATE and ALTER TABLE have not changed the catalog in memory by then.
DdlFail(c) ==
    /\ At(c, "ddl") /\ run[c].stmt.kind # "drop"
    /\ gate = None
    /\ catalog' = None
    /\ Return(c)
    /\ UNCHANGED <<memory, db, tx, gate, issued, written>>

\* When the commit fails, the catalog in memory stays as it is.
DdlCommit(c) ==
    /\ At(c, "ddlcommit")
    /\ Commit(c) \/ (DdlCommitsFail /\ Discard(c))
    /\ catalog' = None
    /\ Return(c)
    /\ UNCHANGED <<memory, issued>>
-----------------------------------------------------------------------------
LoadedEntry(i) ==
    [name |-> Loaded[i], root |-> i + 1, sql |-> <<CHOOSE x \in Columns : TRUE>>]

\* Catalog::load of a database whose tables were created one after another.
Init ==
    /\ memory = [t \in Tables |->
                    IF \E i \in DOMAIN Loaded : Loaded[i] = t
                    THEN LET i == CHOOSE i \in DOMAIN Loaded : Loaded[i] = t
                         IN [id |-> i, root |-> i + 1,
                             columns |-> LoadedEntry(i).sql, sql |-> LoadedEntry(i).sql]
                    ELSE None]
    /\ db = [master |-> [i \in Ids |-> IF i \in DOMAIN Loaded THEN LoadedEntry(i) ELSE None],
             pages |-> Len(Loaded) + 1,
             writes |-> NoWrites]
    /\ tx = [c \in Clients |-> None]
    /\ catalog = None /\ gate = None
    /\ run = [c \in Clients |-> Idle]
    /\ issued = 0
    /\ written = NoWrites

Next ==
    \E c \in Clients :
        \/ Issue(c) \/ Plan(c) \/ SubquerySnapshot(c) \/ Subquery(c) \/ CloneTable(c)
        \/ BeginWrite(c) \/ Run(c) \/ RunFail(c) \/ AutoCommit(c)
        \/ BeginTx(c) \/ EndTx(c)
        \/ LockCatalog(c) \/ CreateTable(c) \/ DropTable(c) \/ AlterTable(c)
        \/ DdlFail(c) \/ DdlCommit(c)

Spec == Init /\ [][Next]_vars
-----------------------------------------------------------------------------
(* Properties.                                                             *)

TypeOK ==
    /\ memory \in [Tables -> Definition \cup {None}]
    /\ db \in Database
    /\ catalog \in Clients \cup {None} /\ gate \in Clients \cup {None}
    /\ tx \in [Clients -> Tx \cup {None}]
    /\ run \in [Clients -> [at : {"idle"} \cup Steps, stmt : Statement \cup {None},
                            newSql : Names \cup {<<>>}, snap : Database \cup {None},
                            value : [root : Roots, got : Nat] \cup {None},
                            table : Definition \cup {None},
                            since : [Roots -> Nat]]]
    /\ issued \in 0..MaxStatements
    /\ written \in [Roots -> Nat]

\* No update is lost: a table holds exactly the writes of the transactions that
\* committed, for every statement reads what it changes behind the gate.
NoLostUpdate == \A r \in Roots : db.writes[r] = written[r]

\* The value of a subquery is one that the table it was read from has had, as
\* committed, since the statement began: never an older one, and never one that
\* another client has yet to commit.
SubqueriesAreCurrent ==
    \A c \in Clients : run[c].value # None =>
        LET r == run[c].value.root
        IN run[c].since[r] <= run[c].value.got /\ run[c].value.got <= db.writes[r]

\* While nobody holds the catalog mutex and no commit has failed, memory and
\* sqlite_master name the same tables, with the same catalog ids and roots.
CatalogAgrees ==
    CatalogFree =>
        /\ \A t \in Tables : Known(t) =>
               LET e == db.master[memory[t].id]
               IN e # None /\ e.name = t /\ e.root = memory[t].root
        /\ \A i \in Ids : db.master[i] # None =>
               Known(db.master[i].name) /\ memory[db.master[i].name].id = i

\* A statement with an old copy of a table definition, taken before the gate,
\* never writes into the pages of another table.
WritesHitOwnTable ==
    \A c \in Clients : At(c, "run") =>
        \A i \in Ids :
            LET e == tx[c].db.master[i]
            IN e # None /\ e.root = run[c].table.root => e.name = run[c].stmt.table

WaitsForCatalog(c) ==
    catalog # None /\ run[c].at \in {"plan", "subquery", "clone", "lock"}
WaitsForGate(c) == gate # None /\ run[c].at \in {"begin", "gate", "ddl"}

\* The one way the engine can stop: a transaction that holds the gate waits
\* for the catalog, whose holder waits for the gate.
Circle ==
    \/ \E c, d \in Clients : /\ gate = c /\ WaitsForCatalog(c)
                             /\ catalog = d /\ WaitsForGate(d)
    \/ \E c \in Clients : gate = c /\ WaitsForGate(c)

\* There is no other deadlock: if every statement in progress waits, then a
\* client keeps a transaction open, or the two locks are waited for in a circle.
NoOtherDeadlock ==
    LET busy == {c \in Clients : ~At(c, "idle")}
    IN (busy # {} /\ \A c \in busy : WaitsForCatalog(c) \/ WaitsForGate(c))
         => Circle \/ \E c \in Clients : InTx(c) /\ At(c, "idle")
=============================================================================
