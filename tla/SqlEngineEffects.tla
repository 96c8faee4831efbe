--------------------------- MODULE SqlEngineEffects ---------------------------
(***************************************************************************)
(* What each action of SqlEngine does, without its EXCEPTs: what becomes   *)
(* of the client that acts, of its transaction, and of the catalog.        *)
(***************************************************************************)
EXTENDS SqlEngineInvariant, Extrema, FiniteSetTheorems, SequenceTheorems, TLAPS

Program == [at : {"idle"} \cup Steps, stmt : Statement \cup {None},
            newSql : Names \cup {<<>>}, snap : Database \cup {None},
            value : [root : Roots, got : Nat] \cup {None},
            table : Definition \cup {None},
            since : [Roots -> Nat]]

\* The client's program becomes the given one; the others stay where they are.
Becomes(c, at, stmt, newSql, snap, value, table, since) ==
    /\ run'[c].at = at /\ run'[c].stmt = stmt /\ run'[c].newSql = newSql
    /\ run'[c].snap = snap /\ run'[c].value = value
    /\ run'[c].table = table /\ run'[c].since = since
    /\ \A d \in Clients : d # c => run'[d] = run[d]
    /\ run' \in [Clients -> Program]

\* It goes to a step with what it had; it returns.
Goes(c, at) == Becomes(c, at, run[c].stmt, run[c].newSql, run[c].snap,
                       run[c].value, run[c].table, run[c].since)
Returns(c) == Becomes(c, "idle", None, <<>>, None, None, None, NoWrites)

\* A statement's parts are of their types.
LEMMA StatementParts ==
    ASSUME NEW s \in Statement
    PROVE  /\ s.table \in Tables
           /\ s.kind \in {"create", "alter"} => s.column \in Columns
           /\ s.kind \in {"write", "subquery", "query", "drop", "begin", "create", "alter"}
BY DEF Statement

\* A program is a record of its fields.
LEMMA ProgramParts ==
    ASSUME NEW p \in Program
    PROVE  /\ p.at \in {"idle"} \cup Steps /\ p.stmt \in Statement \cup {None}
           /\ p.newSql \in Names \cup {<<>>} /\ p.snap \in Database \cup {None}
           /\ p.value \in [root : Roots, got : Nat] \cup {None}
           /\ p.table \in Definition \cup {None} /\ p.since \in [Roots -> Nat]
           /\ p = [at |-> p.at, stmt |-> p.stmt, newSql |-> p.newSql, snap |-> p.snap,
                   value |-> p.value, table |-> p.table, since |-> p.since]
BY DEF Program

\* An update of the program of one client, in normal form.
LEMMA UpdateBecomes ==
    ASSUME TypeOK, NEW c \in Clients,
           NEW at, NEW stmt, NEW newSql, NEW snap, NEW value, NEW table, NEW since,
           [at |-> at, stmt |-> stmt, newSql |-> newSql, snap |-> snap, value |-> value,
            table |-> table, since |-> since] \in Program,
           run' = [d \in Clients |-> run'[d]],
           \A d \in Clients : d # c => run'[d] = run[d],
           run'[c] = [at |-> at, stmt |-> stmt, newSql |-> newSql, snap |-> snap,
                      value |-> value, table |-> table, since |-> since]
    PROVE  Becomes(c, at, stmt, newSql, snap, value, table, since)
<1>1. run \in [Clients -> Program]
  BY DEF TypeOK, Program
<1> DEFINE p == [at |-> at, stmt |-> stmt, newSql |-> newSql, snap |-> snap, value |-> value,
                 table |-> table, since |-> since]
<1>2. /\ p.at = at /\ p.stmt = stmt /\ p.newSql = newSql /\ p.snap = snap
      /\ p.value = value /\ p.table = table /\ p.since = since
  OBVIOUS
<1>3. p \in Program /\ run'[c] = p
  OBVIOUS
<1> HIDE DEF p
<1>4. run' \in [Clients -> Program]
  BY <1>1, <1>3
<1> QED  BY <1>2, <1>3, <1>4 DEF Becomes

LEMMA IdleTyped == Idle \in Program
<1>1. NoWrites \in [Roots -> Nat]
  BY DEF NoWrites
<1> QED  BY <1>1 DEF Idle, Program

\* The program of a client is typed, and a record of its fields.
LEMMA ProgramTyped ==
    ASSUME TypeOK, NEW c \in Clients
    PROVE  /\ run \in [Clients -> Program] /\ run[c] \in Program
           /\ run = [d \in Clients |-> run[d]]
           /\ run[c] = [at |-> run[c].at, stmt |-> run[c].stmt, newSql |-> run[c].newSql,
                        snap |-> run[c].snap, value |-> run[c].value, table |-> run[c].table,
                        since |-> run[c].since]
BY DEF TypeOK, Program

\* Goto changes the counter and nothing else.
LEMMA GotoBecomes ==
    ASSUME TypeOK, NEW c \in Clients, NEW step \in Steps, Goto(c, step)
    PROVE  Goes(c, step)
<1>1. run \in [Clients -> Program] /\ run[c] \in Program
  BY ProgramTyped
<1> DEFINE p == [run[c] EXCEPT !.at = step]
<1>2. p = [at |-> step, stmt |-> run[c].stmt, newSql |-> run[c].newSql, snap |-> run[c].snap,
           value |-> run[c].value, table |-> run[c].table, since |-> run[c].since]
      /\ p \in Program
  BY <1>1 DEF Program
<1>3. run' = [run EXCEPT ![c] = p]
  BY DEF Goto
<1> HIDE DEF p
<1>4. /\ run'[c] = p
      /\ run' = [d \in Clients |-> run'[d]]
      /\ \A d \in Clients : d # c => run'[d] = run[d]
  BY <1>1, <1>3
<1> QED  BY <1>2, <1>4, UpdateBecomes DEF Goes

LEMMA ReturnBecomes ==
    ASSUME TypeOK, NEW c \in Clients, Return(c)
    PROVE  Returns(c)
<1>1. /\ run'[c] = Idle
      /\ run' = [d \in Clients |-> run'[d]]
      /\ \A d \in Clients : d # c => run'[d] = run[d]
  BY ProgramTyped DEF Return
<1> QED  BY <1>1, IdleTyped, UpdateBecomes DEF Idle, Returns
-----------------------------------------------------------------------------
(* The effect of each action on the program of its client.                 *)

\* Issue starts the program of a statement.
LEMMA IssueRuns ==
    ASSUME TypeOK, NEW c \in Clients, Issue(c)
    PROVE  \E s \in Statement, at \in {"begin", "plan"} :
              /\ at = "begin" => ~InTx(c)
              /\ Becomes(c, at, s, run[c].newSql, run[c].snap, run[c].value, run[c].table,
                         db.writes)
<1>1. PICK s \in Statement :
        /\ s.kind = "begin" => ~InTx(c)
        /\ run' = [run EXCEPT ![c].at = IF s.kind = "begin" THEN "begin" ELSE "plan",
                              ![c].stmt = s,
                              ![c].since = db.writes]
  BY DEF Issue
<1> DEFINE at == IF s.kind = "begin" THEN "begin" ELSE "plan"
<1>2. at \in {"begin", "plan"} /\ (at = "begin" => ~InTx(c))
  BY <1>1
<1>3. run' = [run EXCEPT ![c].at = at, ![c].stmt = s, ![c].since = db.writes]
  BY <1>1
<1> HIDE DEF at
<1>4. db.writes \in [Roots -> Nat]
  BY DEF TypeOK, Database
<1> DEFINE p == [at |-> at, stmt |-> s, newSql |-> run[c].newSql, snap |-> run[c].snap,
                 value |-> run[c].value, table |-> run[c].table, since |-> db.writes]
<1>5. p \in Program
  BY <1>2, <1>4, ProgramTyped DEF Program, Steps
<1>10. /\ run = [d \in Clients |-> run[d]]
      /\ run[c] = [at |-> run[c].at, stmt |-> run[c].stmt, newSql |-> run[c].newSql,
                   snap |-> run[c].snap, value |-> run[c].value, table |-> run[c].table,
                   since |-> run[c].since]
  BY ProgramTyped
<1>6. run'[c] = p
  BY <1>3, <1>10
<1>8. run' = [d \in Clients |-> run'[d]]
  BY <1>3, <1>10
<1>9. \A d \in Clients : d # c => run'[d] = run[d]
  BY <1>3, <1>10
<1>7. Becomes(c, at, s, run[c].newSql, run[c].snap, run[c].value, run[c].table, db.writes)
  BY <1>5, <1>6, <1>8, <1>9, UpdateBecomes
<1> QED  BY <1>2, <1>7

LEMMA PlanRuns ==
    ASSUME TypeOK, NEW c \in Clients, Plan(c), run[c].stmt \in Statement,
           Kind(c) = "alter" => AlteredSql(run[c].stmt) \in Names
    PROVE  \/ Returns(c)
           \/ /\ Kind(c) \in Ddl /\ Plannable(run[c].stmt)
              /\ Becomes(c, "lock", run[c].stmt,
                         IF Kind(c) = "alter" THEN AlteredSql(run[c].stmt) ELSE <<>>,
                         run[c].snap, run[c].value, run[c].table, run[c].since)
           \/ Kind(c) = "write" /\ Goes(c, "clone")
           \/ Kind(c) = "subquery" /\ Goes(c, "snapshot")
<1>0. run[c] \in Program
  BY ProgramTyped
<1> DEFINE sql == IF Kind(c) = "alter" THEN AlteredSql(run[c].stmt) ELSE <<>>
<1>1. CASE Return(c)
  BY <1>1, ReturnBecomes
<1>2. CASE /\ Kind(c) \in Ddl /\ Plannable(run[c].stmt)
           /\ run' = [run EXCEPT ![c].at = "lock", ![c].newSql = sql]
  <2>1. sql \in Names \cup {<<>>}
    OBVIOUS
  <2> HIDE DEF sql
  <2> DEFINE p == [at |-> "lock", stmt |-> run[c].stmt, newSql |-> sql, snap |-> run[c].snap,
                   value |-> run[c].value, table |-> run[c].table, since |-> run[c].since]
  <2>2. p \in Program
    BY <1>0, <2>1 DEF Program, Steps
  <2>10. /\ run = [d \in Clients |-> run[d]]
        /\ run[c] = [at |-> run[c].at, stmt |-> run[c].stmt, newSql |-> run[c].newSql,
                     snap |-> run[c].snap, value |-> run[c].value, table |-> run[c].table,
                     since |-> run[c].since]
    BY ProgramTyped
  <2>4. run'[c] = p
    BY <1>2, <2>10
  <2>6. run' = [d \in Clients |-> run'[d]]
    BY <1>2, <2>10
  <2>7. \A d \in Clients : d # c => run'[d] = run[d]
    BY <1>2, <2>10
  <2>5. Becomes(c, "lock", run[c].stmt, sql, run[c].snap, run[c].value, run[c].table, run[c].since)
    BY <2>2, <2>4, <2>6, <2>7, UpdateBecomes
  <2> QED  BY <1>2, <2>5 DEF sql
<1>3. CASE /\ Kind(c) \in {"write", "subquery"}
           /\ Goto(c, IF Kind(c) = "write" THEN "clone" ELSE "snapshot")
  BY <1>3, GotoBecomes DEF Steps
<1>4. Plan(c)
  OBVIOUS
<1> QED  BY <1>1, <1>2, <1>3, <1>4 DEF Plan, Kind

\* SubquerySnapshot keeps the committed database.
LEMMA SnapshotRuns ==
    ASSUME TypeOK, NEW c \in Clients, SubquerySnapshot(c)
    PROVE  Becomes(c, "subquery", run[c].stmt, run[c].newSql, db, run[c].value, run[c].table,
                   run[c].since)
<1>1. run' = [run EXCEPT ![c].at = "subquery", ![c].snap = db]
  BY DEF SubquerySnapshot
<1>2. /\ run = [d \in Clients |-> run[d]]
      /\ run[c] = [at |-> run[c].at, stmt |-> run[c].stmt, newSql |-> run[c].newSql,
                   snap |-> run[c].snap, value |-> run[c].value, table |-> run[c].table,
                   since |-> run[c].since]
  BY ProgramTyped
<1> DEFINE p == [at |-> "subquery", stmt |-> run[c].stmt, newSql |-> run[c].newSql, snap |-> db,
                 value |-> run[c].value, table |-> run[c].table, since |-> run[c].since]
<1>3. p \in Program
  BY ProgramTyped DEF Program, Steps, TypeOK
<1>4. run'[c] = p
  BY <1>1, <1>2
<1>5. run' = [d \in Clients |-> run'[d]]
  BY <1>1, <1>2
<1>6. \A d \in Clients : d # c => run'[d] = run[d]
  BY <1>1, <1>2
<1> QED  BY <1>3, <1>4, <1>5, <1>6, UpdateBecomes

\* Subquery reads the table of that name in the snapshot.
LEMMA SubqueryRuns ==
    ASSUME TypeOK, NEW c \in Clients, Subquery(c), run[c].snap # None, run[c].stmt \in Statement
    PROVE  \/ Returns(c)
           \/ /\ memory[run[c].stmt.table] # None
              /\ Becomes(c, "clone", run[c].stmt, run[c].newSql, None,
                         [root |-> memory[run[c].stmt.table].root,
                          got |-> run[c].snap.writes[memory[run[c].stmt.table].root]],
                         run[c].table, run[c].since)
<1>0. CASE Return(c)
  BY <1>0, ReturnBecomes
<1>1. CASE /\ memory[run[c].stmt.table] # None
           /\ run' = [run EXCEPT ![c].at = "clone", ![c].snap = None,
                                 ![c].value = [root |-> memory[run[c].stmt.table].root,
                                               got |-> run[c].snap.writes[memory[run[c].stmt.table].root]]]
  <2> DEFINE v == [root |-> memory[run[c].stmt.table].root,
                   got |-> run[c].snap.writes[memory[run[c].stmt.table].root]]
  <2>1. run' = [run EXCEPT ![c].at = "clone", ![c].snap = None, ![c].value = v]
    BY <1>1
  <2>8. memory[run[c].stmt.table] \in Definition
    BY <1>1, StatementParts DEF TypeOK
  <2>9. run[c].snap \in Database
    BY ProgramTyped, ProgramParts
  <2>7. v \in [root : Roots, got : Nat]
    BY <2>8, <2>9 DEF Definition, Database
  <2> HIDE DEF v
  <2>2. /\ run = [d \in Clients |-> run[d]]
        /\ run[c] = [at |-> run[c].at, stmt |-> run[c].stmt, newSql |-> run[c].newSql,
                     snap |-> run[c].snap, value |-> run[c].value, table |-> run[c].table,
                     since |-> run[c].since]
    BY ProgramTyped
  <2> DEFINE p == [at |-> "clone", stmt |-> run[c].stmt, newSql |-> run[c].newSql, snap |-> None,
                   value |-> v, table |-> run[c].table, since |-> run[c].since]
  <2>3. p \in Program
    BY ProgramTyped, <2>7 DEF Program, Steps
  <2>4. run'[c] = p
    BY <2>1, <2>2
  <2>5. run' = [d \in Clients |-> run'[d]]
    BY <2>1, <2>2
  <2>6. \A d \in Clients : d # c => run'[d] = run[d]
    BY <2>1, <2>2
  <2> QED  BY <1>1, <2>3, <2>4, <2>5, <2>6, UpdateBecomes DEF v
<1> QED  BY <1>0, <1>1 DEF Subquery, Known

\* CloneTable copies the definition of the table.
LEMMA CloneRuns ==
    ASSUME TypeOK, NEW c \in Clients, CloneTable(c), run[c].stmt \in Statement
    PROVE  \/ Returns(c)
           \/ /\ memory[run[c].stmt.table] # None
              /\ Becomes(c, IF InTx(c) THEN "run" ELSE "gate", run[c].stmt, run[c].newSql,
                         run[c].snap, run[c].value, memory[run[c].stmt.table], run[c].since)
<1>0. CASE Return(c)
  BY <1>0, ReturnBecomes
<1>1. CASE /\ memory[run[c].stmt.table] # None
           /\ run' = [run EXCEPT ![c].at = IF InTx(c) THEN "run" ELSE "gate",
                                 ![c].table = memory[run[c].stmt.table]]
  <2> DEFINE at == IF InTx(c) THEN "run" ELSE "gate"
  <2>1. run' = [run EXCEPT ![c].at = at, ![c].table = memory[run[c].stmt.table]]
    BY <1>1
  <2>7. at \in {"run", "gate"}
    OBVIOUS
  <2>8. memory[run[c].stmt.table] \in Definition
    BY <1>1, StatementParts DEF TypeOK
  <2> HIDE DEF at
  <2>2. /\ run = [d \in Clients |-> run[d]]
        /\ run[c] = [at |-> run[c].at, stmt |-> run[c].stmt, newSql |-> run[c].newSql,
                     snap |-> run[c].snap, value |-> run[c].value, table |-> run[c].table,
                     since |-> run[c].since]
    BY ProgramTyped
  <2> DEFINE p == [at |-> at, stmt |-> run[c].stmt, newSql |-> run[c].newSql, snap |-> run[c].snap,
                   value |-> run[c].value, table |-> memory[run[c].stmt.table],
                   since |-> run[c].since]
  <2>3. p \in Program
    BY ProgramTyped, <2>7, <2>8 DEF Program, Steps
  <2>4. run'[c] = p
    BY <2>1, <2>2
  <2>5. run' = [d \in Clients |-> run'[d]]
    BY <2>1, <2>2
  <2>6. \A d \in Clients : d # c => run'[d] = run[d]
    BY <2>1, <2>2
  <2> QED  BY <1>1, <2>3, <2>4, <2>5, <2>6, UpdateBecomes DEF at
<1> QED  BY <1>0, <1>1 DEF CloneTable, Known
-----------------------------------------------------------------------------
(* The effect of each action on the transaction of its client.             *)

TxOthers(c) ==
    /\ \A d \in Clients : d # c => tx'[d] = tx[d]
    /\ tx' \in [Clients -> Tx \cup {None}]

\* c begins a transaction on database d; it writes once into the table at r;
\* its transaction is over.
Begins(c, d, e) ==
    /\ TxOthers(c)
    /\ gate = None /\ gate' = c
    /\ tx'[c] # None /\ tx'[c].db = d /\ tx'[c].writes = NoWrites
    /\ tx'[c].explicit <=> e

WritesOnce(c, r) ==
    /\ TxOthers(c)
    /\ tx'[c] # None
    /\ tx'[c].db.master = tx[c].db.master /\ tx'[c].db.pages = tx[c].db.pages
    /\ tx'[c].db.writes = OneMore(tx[c].db.writes, r)
    /\ tx'[c].writes = OneMore(tx[c].writes, r)
    /\ tx'[c].explicit <=> tx[c].explicit

Ends(c) == TxOthers(c) /\ tx'[c] = None /\ gate' = None

\* A transaction is a record of its fields.
LEMMA TxTyped ==
    ASSUME TypeOK, NEW c \in Clients, Holds(c)
    PROVE  /\ tx[c] \in Tx /\ tx[c].db \in Database /\ tx[c].writes \in [Roots -> Nat]
           /\ tx[c].db.writes \in [Roots -> Nat] /\ tx[c].db.pages \in Nat
           /\ tx[c].db.master \in [Ids -> Entry \cup {None}]
BY DEF TypeOK, Holds, Tx, Database

LEMMA BeginOnBegins ==
    ASSUME TypeOK, NEW c \in Clients, NEW d \in Database, NEW e \in BOOLEAN, BeginOn(c, d, e)
    PROVE  Begins(c, d, e)
<1> DEFINE x == [db |-> d, writes |-> NoWrites, explicit |-> e]
<1>1. x \in Tx
  BY DEF Tx, NoWrites
<1>2. x.db = d /\ x.writes = NoWrites
  OBVIOUS
<1>3. x.explicit <=> e
  OBVIOUS
<1>4. gate = None /\ gate' = c /\ tx' = [tx EXCEPT ![c] = x]
  BY DEF BeginOn
<1> HIDE DEF x
<1>5. tx \in [Clients -> Tx \cup {None}]
  BY DEF TypeOK
<1>6. tx'[c] = x /\ TxOthers(c)
  BY <1>1, <1>4, <1>5 DEF TxOthers
<1>7. tx'[c] # None
  BY <1>1, <1>6, NoneAssumption
<1> QED  BY <1>2, <1>3, <1>4, <1>6, <1>7, Zenon DEF Begins

LEMMA OneMoreTyped ==
    ASSUME NEW w \in [Roots -> Nat], NEW r \in Roots
    PROVE  /\ OneMore(w, r) \in [Roots -> Nat]
           /\ \A q \in Roots : OneMore(w, r)[q] = IF q = r THEN w[q] + 1 ELSE w[q]
BY DEF OneMore

\* What one more write makes of a transaction.
LEMMA WroteParts ==
    ASSUME NEW x \in Tx, NEW r \in Roots, NEW y, y = Wrote(x, r)
    PROVE  /\ y \in Tx
           /\ y.db.master = x.db.master /\ y.db.pages = x.db.pages
           /\ y.db.writes = OneMore(x.db.writes, r)
           /\ y.writes = OneMore(x.writes, r)
           /\ y.explicit <=> x.explicit
<1>1. PICK m, p, w, v, e : x = [db |-> [master |-> m, pages |-> p, writes |-> w],
                                writes |-> v, explicit |-> e]
  BY DEF Tx, Database
<1>2. y = [x EXCEPT !.db.writes = OneMore(@, r), !.writes = OneMore(@, r)]
  BY DEF Wrote
<1>3. y = [db |-> [master |-> m, pages |-> p, writes |-> OneMore(w, r)],
           writes |-> OneMore(v, r), explicit |-> e]
  BY <1>1, <1>2
<1>4. /\ m \in [Ids -> Entry \cup {None}] /\ p \in Nat /\ w \in [Roots -> Nat]
      /\ v \in [Roots -> Nat]
  BY <1>1 DEF Tx, Database
<1>5. e \in BOOLEAN
  BY <1>1 DEF Tx
<1>6. OneMore(w, r) \in [Roots -> Nat] /\ OneMore(v, r) \in [Roots -> Nat]
  BY <1>4, OneMoreTyped
<1>7. y \in Tx
  BY <1>3, <1>4, <1>5, <1>6 DEF Tx, Database
<1>8. /\ y.db.master = x.db.master /\ y.db.pages = x.db.pages
      /\ y.db.writes = OneMore(x.db.writes, r)
      /\ y.writes = OneMore(x.writes, r)
  BY <1>1, <1>3
<1>9. y.explicit <=> x.explicit
  BY <1>1, <1>3
<1> QED  BY <1>7, <1>8, <1>9

LEMMA WriteWrites ==
    ASSUME TypeOK, NEW c \in Clients, Holds(c), Write(c), run[c].table # None
    PROVE  WritesOnce(c, run[c].table.root) /\ run[c].table.root \in Roots
<1>1. run[c].table.root \in Roots
  BY ProgramTyped, ProgramParts DEF Definition
<1>2. tx \in [Clients -> Tx \cup {None}] /\ tx[c] \in Tx
  BY TxTyped DEF TypeOK
<1> DEFINE y == Wrote(tx[c], run[c].table.root)
<1>3. tx' = [tx EXCEPT ![c] = y]
  BY DEF Write
<1>4. /\ y \in Tx
      /\ y.db.master = tx[c].db.master /\ y.db.pages = tx[c].db.pages
      /\ y.db.writes = OneMore(tx[c].db.writes, run[c].table.root)
      /\ y.writes = OneMore(tx[c].writes, run[c].table.root)
      /\ y.explicit <=> tx[c].explicit
  BY <1>1, <1>2, WroteParts
<1> HIDE DEF y
<1>5. tx'[c] = y /\ TxOthers(c)
  BY <1>2, <1>3, <1>4 DEF TxOthers
<1>6. y # None
  BY <1>4, NoneAssumption
<1> QED  BY <1>1, <1>4, <1>5, <1>6, Zenon DEF WritesOnce

LEMMA FinishEnds ==
    ASSUME TypeOK, NEW c \in Clients, Finish(c)
    PROVE  Ends(c)
BY DEF Finish, Ends, TxOthers, TypeOK
-----------------------------------------------------------------------------
(* The effect of each action, without its updates.                         *)

\* What becomes of the database when a transaction is over.
Settles(c) ==
    \/ /\ db' = tx[c].db
       /\ written' = [r \in Roots |-> written[r] + tx[c].writes[r]]
    \/ UNCHANGED <<db, written>>

LEMMA CommitSettles ==
    ASSUME TypeOK, NEW c \in Clients, Commit(c) \/ Discard(c)
    PROVE  Ends(c) /\ Settles(c)
BY FinishEnds DEF Commit, Discard, Settles

LEMMA BeginWriteStep ==
    ASSUME TypeOK, NEW c \in Clients, BeginWrite(c)
    PROVE  /\ At(c, "gate") /\ Begins(c, db, FALSE) /\ Goes(c, "run")
           /\ UNCHANGED <<memory, db, catalog, issued, written>>
<1>1. db \in Database
  BY DEF TypeOK
<1> QED  BY <1>1, BeginOnBegins, GotoBecomes DEF BeginWrite, Steps

LEMMA RunStep ==
    ASSUME TypeOK, NEW c \in Clients, Run(c), Holds(c), run[c].table # None
    PROVE  /\ At(c, "run")
           /\ WritesOnce(c, run[c].table.root) /\ run[c].table.root \in Roots
           /\ (InTx(c) /\ Returns(c)) \/ (~InTx(c) /\ Goes(c, "commit"))
           /\ UNCHANGED <<memory, db, catalog, gate, issued, written>>
BY WriteWrites, ReturnBecomes, GotoBecomes DEF Run, Steps

LEMMA RunFailStep ==
    ASSUME TypeOK, NEW c \in Clients, RunFail(c), Holds(c), run[c].table # None
    PROVE  /\ At(c, "run") /\ Returns(c)
           /\ \/ ~InTx(c) /\ Ends(c)
              \/ InTx(c) /\ UNCHANGED <<tx, gate>>
              \/ /\ InTx(c) /\ UNCHANGED gate
                 /\ WritesOnce(c, run[c].table.root) /\ run[c].table.root \in Roots
           /\ UNCHANGED <<memory, db, catalog, issued, written>>
BY WriteWrites, ReturnBecomes, FinishEnds DEF RunFail, Discard

LEMMA AutoCommitStep ==
    ASSUME TypeOK, NEW c \in Clients, AutoCommit(c)
    PROVE  /\ At(c, "commit") /\ Ends(c) /\ Settles(c) /\ Returns(c)
           /\ UNCHANGED <<memory, catalog, issued>>
BY CommitSettles, ReturnBecomes DEF AutoCommit

LEMMA BeginTxStep ==
    ASSUME TypeOK, NEW c \in Clients, BeginTx(c)
    PROVE  /\ At(c, "begin") /\ Begins(c, db, TRUE) /\ Returns(c)
           /\ UNCHANGED <<memory, db, catalog, issued, written>>
<1>1. db \in Database
  BY DEF TypeOK
<1> QED  BY <1>1, BeginOnBegins, ReturnBecomes DEF BeginTx

LEMMA EndTxStep ==
    ASSUME TypeOK, NEW c \in Clients, EndTx(c)
    PROVE  /\ At(c, "idle") /\ InTx(c) /\ Ends(c) /\ Settles(c)
           /\ UNCHANGED <<memory, catalog, run, issued>>
BY CommitSettles DEF EndTx

LEMMA LockStep ==
    ASSUME TypeOK, NEW c \in Clients, LockCatalog(c)
    PROVE  /\ At(c, "lock") /\ catalog = None
           /\ \/ Returns(c) /\ UNCHANGED catalog
              \/ /\ Kind(c) = "create" => ~Known(run[c].stmt.table)
                 /\ Goes(c, "ddl") /\ catalog' = c
           /\ UNCHANGED <<memory, db, tx, gate, issued, written>>
BY ReturnBecomes, GotoBecomes DEF LockCatalog, Steps, CatalogFree, Kind

LEMMA DdlFailStep ==
    ASSUME TypeOK, NEW c \in Clients, DdlFail(c)
    PROVE  /\ At(c, "ddl") /\ gate = None /\ catalog' = None /\ Returns(c)
           /\ UNCHANGED <<memory, db, tx, gate, issued, written>>
BY ReturnBecomes DEF DdlFail

LEMMA DdlCommitStep ==
    ASSUME TypeOK, NEW c \in Clients, DdlCommit(c)
    PROVE  /\ At(c, "ddlcommit") /\ Ends(c) /\ Settles(c) /\ Returns(c) /\ catalog' = None
           /\ DdlCommitsFail \/ db' = tx[c].db
           /\ UNCHANGED <<memory, issued>>
BY CommitSettles, ReturnBecomes, CommitsAssumption DEF DdlCommit, Commit

\* max_by of a page number and the next one.
LEMMA MaxOfNext ==
    ASSUME NEW n \in Nat
    PROVE  Max({n, n + 1}) = n + 1
<1>1. Max({n, n + 1}) \in {n, n + 1} /\ \A k \in {n, n + 1} : Max({n, n + 1}) >= k
  BY MaxIsGreatest
<1> QED  BY <1>1

\* The next catalog id is above every id in use.
LEMMA NextIdFresh ==
    ASSUME TypeOK
    PROVE  /\ NextId \in Nat \ {0}
           /\ \A i \in Ids : db.master[i] # None => i < NextId
           /\ \A b \in Nat : (\A i \in Ids : db.master[i] # None => i <= b) => NextId <= b + 1
<1> DEFINE S == {0} \cup {i \in Ids : db.master[i] # None}
<1>0. Len(Loaded) + MaxStatements \in Nat /\ Ids = 1..(Len(Loaded) + MaxStatements)
  BY LoadedAssumption, StatementsAssumption DEF Ids
<1>1. S \subseteq Nat /\ S # {} /\ \A k \in S : k <= Len(Loaded) + MaxStatements
  BY <1>0
<1>2. Max(S) \in S /\ \A k \in S : Max(S) >= k
  <2> HIDE DEF S
  <2> QED  BY <1>0, <1>1, MaxIsGreatest
<1>3. NextId = Max(S) + 1
  BY DEF NextId
<1> DEFINE m == Max(S)
<1>4. m \in S /\ \A k \in S : m >= k
  BY <1>2
<1>5. NextId = m + 1
  BY <1>3
<1> HIDE DEF m
<1>6. m \in Nat
  BY <1>1, <1>4
<1>7. \A i \in Ids : db.master[i] # None => i <= m
  BY <1>4
<1>8. ASSUME NEW b \in Nat, \A i \in Ids : db.master[i] # None => i <= b
      PROVE  m <= b
  BY <1>4, <1>8
<1> QED  BY <1>0, <1>5, <1>6, <1>7, <1>8

\* The rows of sqlite_master with row i replaced.
Put(m, i, e) == [m EXCEPT ![i] = e]

LEMMA PutAt ==
    ASSUME NEW m \in [Ids -> Entry \cup {None}], NEW i \in Ids, NEW e \in Entry \cup {None}
    PROVE  /\ Put(m, i, e) \in [Ids -> Entry \cup {None}]
           /\ Put(m, i, e)[i] = e
           /\ \A j \in Ids : j # i => Put(m, i, e)[j] = m[j]
BY DEF Put

LEMMA WithRowParts ==
    ASSUME NEW d \in Database, NEW i \in Ids, NEW e \in Entry \cup {None},
           NEW x, x = WithRow(d, i, e)
    PROVE  /\ x \in Database
           /\ x.master = Put(d.master, i, e) /\ x.pages = d.pages /\ x.writes = d.writes
<1>1. PICK m, p, w : d = [master |-> m, pages |-> p, writes |-> w]
  BY DEF Database
<1>2. x = [master |-> Put(m, i, e), pages |-> p, writes |-> w]
  BY <1>1 DEF WithRow, Put
<1>3. m \in [Ids -> Entry \cup {None}] /\ w \in [Roots -> Nat] /\ p \in Nat
  BY <1>1 DEF Database
<1>4. Put(m, i, e) \in [Ids -> Entry \cup {None}]
  BY <1>3, PutAt
<1>5. x \in Database
  BY <1>2, <1>3, <1>4 DEF Database
<1> QED  BY <1>1, <1>2, <1>5

\* A database that has grown to n pages.
LEMMA PagesParts ==
    ASSUME NEW d \in Database, NEW n \in Nat, NEW x, x = [d EXCEPT !.pages = n]
    PROVE  /\ x \in Database
           /\ x.master = d.master /\ x.pages = n /\ x.writes = d.writes
BY DEF Database

\* What CREATE TABLE, DROP TABLE and ALTER TABLE do, to the catalog in memory and
\* in a transaction.
Creates(c) ==
    LET t == run[c].stmt.table
            columns == <<run[c].stmt.column>>
            d == tx'[c].db
        IN /\ At(c, "ddl") /\ Kind(c) = "create"
           /\ Begins(c, d, FALSE) /\ d \in Database
           /\ d.master = Put(db.master, NextId,
                              [name |-> t, root |-> NewRoot, sql |-> columns])
           /\ d.pages = NewRoot /\ d.writes = db.writes
           /\ memory' = [memory EXCEPT ![t] = [id |-> NextId, root |-> NewRoot,
                                               columns |-> columns, sql |-> columns]]
           /\ columns \in Names
           /\ Goes(c, "ddlcommit")
           /\ UNCHANGED <<db, catalog, issued, written>>

Drops(c) ==
    LET t == run[c].stmt.table
            d == tx'[c].db
        IN /\ At(c, "ddl") /\ Kind(c) = "drop"
           /\ Begins(c, d, FALSE) /\ d \in Database
           /\ IF Known(t) THEN d.master = Put(db.master, memory[t].id, None)
                          ELSE d.master = db.master
           /\ d.pages = db.pages /\ d.writes = db.writes
           /\ memory' = [memory EXCEPT ![t] = None]
           /\ Goes(c, "ddlcommit")
           /\ UNCHANGED <<db, catalog, issued, written>>

Alters(c) ==
    LET t == run[c].stmt.table
            d == tx'[c].db
        IN /\ At(c, "ddl") /\ Kind(c) = "alter" /\ Known(t)
           /\ Begins(c, d, FALSE) /\ d \in Database
           /\ d.master = Put(db.master, memory[t].id,
                              [name |-> t, root |-> memory[t].root, sql |-> run[c].newSql])
           /\ d.pages = db.pages /\ d.writes = db.writes
           /\ memory' = [memory EXCEPT ![t] =
                            [id |-> memory[t].id, root |-> memory[t].root,
                             columns |-> Append(memory[t].columns, run[c].stmt.column),
                             sql |-> run[c].newSql]]
           /\ Goes(c, "ddlcommit")
           /\ UNCHANGED <<db, catalog, issued, written>>

LEMMA CreateWork ==
    ASSUME TypeOK, NEW c \in Clients, CreateTable(c), run[c].stmt \in Statement,
           NextId \in Ids, NewRoot \in Roots
    PROVE  Creates(c)
<1> DEFINE t == run[c].stmt.table
           columns == <<run[c].stmt.column>>
           e == [name |-> t, root |-> NewRoot, sql |-> columns]
           x == WithRow(db, NextId, e)
           d == [x EXCEPT !.pages = Max({@, NewRoot})]
<1>1. db \in Database /\ db.pages \in Nat
  BY DEF TypeOK, Database
<1>2. t \in Tables /\ run[c].stmt.column \in Columns
  BY StatementParts DEF CreateTable
<1>3. columns \in Names
  <2>1. <<run[c].stmt.column>> \in [1..1 -> Columns]
    BY <1>2
  <2>2. 1 \in 1..(MaxStatements + 1)
    BY StatementsAssumption
  <2> QED  BY <2>1, <2>2 DEF Names
<1>4. e \in Entry
  BY <1>2, <1>3 DEF Entry
<1>5. Max({db.pages, NewRoot}) = NewRoot /\ NewRoot \in Nat
  BY <1>1, MaxOfNext DEF NewRoot
<1>6. /\ x \in Database
      /\ x.master = Put(db.master, NextId, e) /\ x.pages = db.pages /\ x.writes = db.writes
  BY <1>1, <1>4, WithRowParts
<1>7. /\ d \in Database
      /\ d.master = Put(db.master, NextId, e) /\ d.pages = NewRoot /\ d.writes = db.writes
  <2> HIDE DEF x
  <2>1. d = [x EXCEPT !.pages = NewRoot]
    BY <1>5, <1>6
  <2> HIDE DEF d
  <2> QED  BY <1>5, <1>6, <2>1, PagesParts
<1>8. BeginOn(c, d, FALSE)
  BY DEF CreateTable
<1>9. Begins(c, d, FALSE)
  <2> HIDE DEF d
  <2> QED  BY <1>7, <1>8, BeginOnBegins
<1>10. tx'[c].db = d
  BY <1>9 DEF Begins
<1>11. Goes(c, "ddlcommit")
  BY GotoBecomes DEF CreateTable, Steps
<1>12. /\ At(c, "ddl") /\ Kind(c) = "create"
       /\ memory' = [memory EXCEPT ![t] = [id |-> NextId, root |-> NewRoot,
                                           columns |-> columns, sql |-> columns]]
       /\ UNCHANGED <<db, catalog, issued, written>>
  BY DEF CreateTable, Kind
<1> HIDE DEF d
<1> QED  BY <1>3, <1>7, <1>9, <1>10, <1>11, <1>12 DEF Creates

LEMMA DropWork ==
    ASSUME TypeOK, NEW c \in Clients, DropTable(c), run[c].stmt \in Statement
    PROVE  Drops(c)
<1> DEFINE t == run[c].stmt.table
           d == IF Known(t) THEN WithRow(db, memory[t].id, None) ELSE db
<1>1. db \in Database /\ t \in Tables
  BY StatementParts DEF TypeOK
<1>2. Known(t) => memory[t].id \in Ids
  BY <1>1 DEF TypeOK, Known, Definition
<1>3. /\ d \in Database
      /\ IF Known(t) THEN d.master = Put(db.master, memory[t].id, None)
                     ELSE d.master = db.master
      /\ d.pages = db.pages /\ d.writes = db.writes
  <2>1. CASE Known(t)
    <3>1. d = WithRow(db, memory[t].id, None)
      BY <2>1
    <3> HIDE DEF d
    <3> QED  BY <1>1, <1>2, <2>1, <3>1, WithRowParts
  <2>2. CASE ~Known(t)
    BY <1>1, <2>2
  <2> QED  BY <2>1, <2>2
<1>4. /\ BeginOn(c, d, FALSE) /\ At(c, "ddl") /\ Kind(c) = "drop"
      /\ memory' = [memory EXCEPT ![t] = None]
      /\ UNCHANGED <<db, catalog, issued, written>>
  BY DEF DropTable, Kind
<1>5. Goes(c, "ddlcommit")
  BY GotoBecomes DEF DropTable, Steps
<1> HIDE DEF d
<1>6. Begins(c, d, FALSE)
  BY <1>3, <1>4, BeginOnBegins
<1>7. tx'[c].db = d
  BY <1>6 DEF Begins
<1> QED  BY <1>3, <1>4, <1>5, <1>6, <1>7 DEF Drops

LEMMA AlterWork ==
    ASSUME TypeOK, NEW c \in Clients, AlterTable(c), run[c].stmt \in Statement,
           run[c].newSql # <<>>
    PROVE  Alters(c)
<1> DEFINE t == run[c].stmt.table
           e == [name |-> t, root |-> memory[t].root, sql |-> run[c].newSql]
           d == WithRow(db, memory[t].id, e)
<1>1. db \in Database /\ t \in Tables /\ run[c].newSql \in Names
  BY StatementParts, ProgramTyped, ProgramParts DEF TypeOK
<1>2. Known(t) /\ memory[t] \in Definition
  BY <1>1 DEF TypeOK, Known, AlterTable
<1>3. memory[t].id \in Ids /\ e \in Entry
  BY <1>1, <1>2 DEF Definition, Entry
<1>4. /\ d \in Database
      /\ d.master = Put(db.master, memory[t].id, e)
      /\ d.pages = db.pages /\ d.writes = db.writes
  <2> HIDE DEF e
  <2> QED  BY <1>1, <1>3, WithRowParts
<1>5. /\ BeginOn(c, d, FALSE) /\ At(c, "ddl") /\ Kind(c) = "alter"
      /\ UNCHANGED <<db, catalog, issued, written>>
  BY DEF AlterTable, Kind
<1>6. memory' = [memory EXCEPT ![t] =
                    [id |-> memory[t].id, root |-> memory[t].root,
                     columns |-> Append(memory[t].columns, run[c].stmt.column),
                     sql |-> run[c].newSql]]
  <2>1. memory' = [memory EXCEPT ![t].columns = Append(@, run[c].stmt.column),
                                 ![t].sql = run[c].newSql]
    BY DEF AlterTable
  <2>2. /\ memory = [u \in Tables |-> memory[u]]
        /\ memory[t] = [id |-> memory[t].id, root |-> memory[t].root,
                        columns |-> memory[t].columns, sql |-> memory[t].sql]
    BY <1>2 DEF TypeOK, Definition
  <2> DEFINE v == [id |-> memory[t].id, root |-> memory[t].root,
                   columns |-> Append(memory[t].columns, run[c].stmt.column),
                   sql |-> run[c].newSql]
  <2>3. memory'[t] = v
    BY <1>1, <2>1, <2>2
  <2>4. memory' = [u \in Tables |-> memory'[u]]
    BY <1>1, <2>1, <2>2
  <2>5. \A u \in Tables : u # t => memory'[u] = memory[u]
    BY <1>1, <2>1, <2>2
  <2> HIDE DEF v
  <2> QED  BY <2>2, <2>3, <2>4, <2>5 DEF v
<1>7. Goes(c, "ddlcommit")
  BY GotoBecomes DEF AlterTable, Steps
<1> HIDE DEF d
<1>8. Begins(c, d, FALSE)
  BY <1>4, <1>5, BeginOnBegins
<1>9. tx'[c].db = d
  BY <1>8 DEF Begins
<1> QED  BY <1>2, <1>4, <1>5, <1>6, <1>7, <1>8, <1>9 DEF Alters
===============================================================================
