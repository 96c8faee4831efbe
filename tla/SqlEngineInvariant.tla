-------------------------- MODULE SqlEngineInvariant --------------------------
(***************************************************************************)
(* The inductive invariant behind the properties of SqlEngine, in parts.   *)
(* What the catalog in memory says of the pages holds only as long as no   *)
(* commit of a DDL statement fails; the other parts hold in any case.      *)
(***************************************************************************)
EXTENDS SqlEngine

Kind(c) == run[c].stmt.kind
Holds(c) == tx[c] # None

\* The locks and the program counters: the gate is held by the one client that
\* has a transaction, the catalog by the one that executes DDL; a transaction
\* that is not explicit lasts as long as its statement.
Locks ==
    /\ \A c \in Clients : Holds(c) <=> gate = c
    /\ \A c \in Clients : catalog = c <=> run[c].at \in {"ddl", "ddlcommit"}
    /\ \A c \in Clients :
        /\ run[c].at \in {"run", "commit", "ddlcommit"} => Holds(c)
        /\ run[c].at \in {"begin", "gate"} => ~Holds(c)
        /\ run[c].at \in {"commit", "ddlcommit"} => ~InTx(c)
        /\ run[c].at \notin {"run", "commit", "ddlcommit"} /\ Holds(c) => InTx(c)

\* A client is only at the steps of the statement it runs, and has what they need.
Sound(p) ==
    /\ p.at = "idle" => p.stmt = None /\ p.newSql = <<>> /\ p.value = None
    /\ p.at # "idle" => p.stmt \in Statement
    /\ p.at \in {"snapshot", "subquery", "clone", "gate", "run"}
          => p.stmt.kind \in {"write", "subquery"}
    /\ p.at \in {"lock", "ddl", "ddlcommit"} => p.stmt.kind \in Ddl
    /\ p.at \in {"lock", "ddl"} /\ p.stmt.kind = "alter" => p.newSql # <<>>
    /\ p.at = "subquery" => p.snap # None
    /\ p.at \in {"gate", "run"} => p.table # None

Programs == \A c \in Clients : Sound(run[c])

\* DDL statements that may still create a table or add a column.
Pending == {c \in Clients : run[c].at \in {"plan", "lock", "ddl"} /\ Kind(c) \in Ddl}
Done == issued - Cardinality(Pending)

\* Statements done bound the columns of a table, the ids and the pages of a
\* database: so there is an id and a root for each statement to come.
Counts(d, n) ==
    /\ \A i \in Ids : d.master[i] # None => i <= Len(Loaded) + n
    /\ 1 <= d.pages /\ d.pages <= Len(Loaded) + 1 + n

Sizes(t, n) ==
    Known(t) => /\ Len(memory[t].columns) <= n + 1 /\ Len(memory[t].sql) <= n + 1
                /\ memory[t].id <= Len(Loaded) + n

Counted ==
    /\ IsFiniteSet(Pending) /\ Cardinality(Pending) <= issued
    /\ \A t \in Tables : Sizes(t, Done)
    /\ \A c \in Pending : Len(run[c].newSql) <= Done + 2
    /\ Counts(db, Done)
    /\ \A c \in Clients : Holds(c) => Counts(tx[c].db, Done)

\* sqlite_master has no root twice, and none beyond the end of the file.
RootsDiffer(d) ==
    /\ \A i \in Ids : d.master[i] # None => d.master[i].root <= d.pages
    /\ \A i, j \in Ids : d.master[i] # None /\ d.master[j] # None
                            /\ d.master[i].root = d.master[j].root => i = j

\* The gate serializes writers: a transaction is the newest version and its own
\* writes, and only DDL changes sqlite_master.
Transactions ==
    /\ NoLostUpdate
    /\ \A c \in Clients : Holds(c) =>
        /\ \A r \in Roots : tx[c].db.writes[r] = db.writes[r] + tx[c].writes[r]
        /\ db.pages <= tx[c].db.pages
        /\ run[c].at # "ddlcommit" => tx[c].db.master = db.master

\* The snapshot of a subquery lies between the start of its statement and now.
Snapshots ==
    /\ SubqueriesAreCurrent
    /\ \A c \in Clients, r \in Roots :
        /\ run[c].at # "idle" => run[c].since[r] <= db.writes[r]
        /\ run[c].at = "subquery" => /\ run[c].since[r] <= run[c].snap.writes[r]
                                     /\ run[c].snap.writes[r] <= db.writes[r]

\* A catalog m names what sqlite_master in d does.
Agrees(m, d) ==
    /\ \A t \in Tables : m[t] # None =>
           LET e == d.master[m[t].id]
           IN e # None /\ e.name = t /\ e.root = m[t].root
    /\ \A i \in Ids : d.master[i] # None =>
           m[d.master[i].name] # None /\ m[d.master[i].name].id = i

\* The catalog runs ahead of the file only between a DDL statement's work and
\* its commit; CREATE TABLE found no table of the name when it took the mutex.
CatalogFollows ==
    /\ RootsDiffer(db)
    /\ \A c \in Clients :
        /\ Holds(c) => RootsDiffer(tx[c].db)
        /\ run[c].at = "ddlcommit" => Agrees(memory, tx[c].db)
        /\ run[c].at = "ddl" /\ Kind(c) = "create" => ~Known(run[c].stmt.table)
    /\ (\A c \in Clients : run[c].at # "ddlcommit") => Agrees(memory, db)

\* A copied definition names no other table's root, in the file or in a transaction.
OwnRoot(p, d) ==
    \A i \in Ids : d.master[i] # None /\ d.master[i].root = p.table.root
                      => d.master[i].name = p.stmt.table

Copies ==
    \A c \in Clients : run[c].at \in {"gate", "run"} =>
        /\ run[c].table.root <= db.pages
        /\ OwnRoot(run[c], db)
        /\ \A d \in Clients : Holds(d) => OwnRoot(run[c], tx[d].db)

\* Pages that are not in the file yet have never been written.
Unused(d) == \A r \in Roots : r > d.pages => d.writes[r] = 0

Blank == Unused(db) /\ \A c \in Clients : Holds(c) => Unused(tx[c].db)

\* The inductive invariant.
Engine == TypeOK /\ Locks /\ Programs /\ Counted /\ Transactions /\ Snapshots
Inductive == Engine /\ (~DdlCommitsFail => CatalogFollows /\ Copies /\ Blank)
=============================================================================
