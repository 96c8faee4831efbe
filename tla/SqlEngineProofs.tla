--------------------------- MODULE SqlEngineProofs ----------------------------
(***************************************************************************)
(* Proofs about SqlEngine for every number of clients, tables, columns and *)
(* statements: each part of Inductive is kept by the step of any client,   *)
(* the properties follow from the parts, and each step is one of           *)
(* SerialTables or changes nothing in it.                                  *)
(***************************************************************************)
EXTENDS SqlEngineEffects, SqlEngineRefinement

(* The parts of the invariant.                                             *)

ClientStep(c) ==
    \/ Issue(c) \/ Plan(c) \/ SubquerySnapshot(c) \/ Subquery(c) \/ CloneTable(c)
    \/ BeginWrite(c) \/ Run(c) \/ RunFail(c) \/ AutoCommit(c)
    \/ BeginTx(c) \/ EndTx(c)
    \/ LockCatalog(c) \/ CreateTable(c) \/ DropTable(c) \/ AlterTable(c)
    \/ DdlFail(c) \/ DdlCommit(c)

\* What the steps of a client rely on.
LEMMA StepNeeds ==
    ASSUME Engine, NEW c \in Clients
    PROVE  /\ TypeOK
           /\ run[c].at # "idle" => run[c].stmt \in Statement
           /\ run[c].at = "run" => Holds(c)
           /\ run[c].at = "run" => run[c].table # None
           /\ run[c].at = "subquery" => run[c].snap # None
           /\ run[c].at = "ddl" /\ Kind(c) = "alter" => run[c].newSql # <<>>
BY DEF Engine, Locks, Programs, Sound, Kind

\* A statement is typed wherever its client is, except between statements.
LEMMA BusyStatement ==
    ASSUME Engine, NEW c \in Clients, ClientStep(c), ~Issue(c), ~EndTx(c)
    PROVE  run[c].stmt \in Statement
<1>1. run[c].at # "idle"
  BY DEF ClientStep, Plan, SubquerySnapshot, Subquery, CloneTable, BeginWrite, Run, RunFail,
         AutoCommit, BeginTx, LockCatalog, CreateTable, DropTable, AlterTable, DdlFail,
         DdlCommit, At
<1> QED  BY <1>1, StepNeeds

\* A statement that may still change the schema is not among those done.
LEMMA PendingCounts ==
    ASSUME Engine, NEW c \in Pending
    PROVE  Done \in Nat /\ Done + 1 <= MaxStatements
<1>1. /\ IsFiniteSet(Pending) /\ Cardinality(Pending) <= issued
      /\ issued \in 0..MaxStatements
  BY DEF Engine, Counted, TypeOK
<1>2. Cardinality(Pending) \in Nat /\ Cardinality(Pending) # 0
  BY <1>1, FS_CardinalityType, FS_EmptySet
<1> QED  BY <1>1, <1>2, StatementsAssumption DEF Done

\* There is an id and a root for a table to come.
LEMMA FreshIds ==
    ASSUME Engine, NEW c \in Clients, At(c, "ddl"), Kind(c) \in Ddl
    PROVE  NextId \in Ids /\ NewRoot \in Roots
<1>1. c \in Pending
  BY DEF At, Pending
<1>2. Counts(db, Done) /\ db.pages \in Nat
  BY DEF Engine, Counted, TypeOK, Database
<1>5. Done \in Nat /\ Done + 1 <= MaxStatements
  BY <1>1, PendingCounts
<1>6. Len(Loaded) \in Nat
  BY LoadedAssumption
<1>7. NextId \in Nat \ {0} /\ NextId <= Len(Loaded) + Done + 1
  <2>1. Len(Loaded) + Done \in Nat /\ \A i \in Ids : db.master[i] # None => i <= Len(Loaded) + Done
    BY <1>2, <1>5, <1>6 DEF Counts
  <2>2. TypeOK
    BY DEF Engine
  <2> QED  BY <2>1, <2>2, NextIdFresh
<1>8. NextId \in Ids
  BY <1>5, <1>6, <1>7, StatementsAssumption DEF Ids
<1>9. NewRoot \in Roots
  <2>1. db.pages <= Len(Loaded) + 1 + Done /\ 1 <= db.pages
    BY <1>2 DEF Counts
  <2> QED  BY <1>2, <1>5, <1>6, <2>1, StatementsAssumption DEF Roots, NewRoot
<1> QED  BY <1>8, <1>9

\* Names are sequences, and one longer as long as there are statements to come.
LEMMA NamesAppend ==
    ASSUME NEW s \in Names, NEW x \in Columns, Len(s) <= MaxStatements
    PROVE  Append(s, x) \in Names /\ Len(Append(s, x)) = Len(s) + 1
<1>1. PICK n \in 1..(MaxStatements + 1) : s \in [1..n -> Columns]
  BY DEF Names
<1>2. s \in Seq(Columns) /\ Len(s) = n /\ n \in Nat
  BY <1>1, StatementsAssumption
<1>3. Append(s, x) \in Seq(Columns) /\ Len(Append(s, x)) = n + 1
  BY <1>2
<1>4. Append(s, x) \in [1..(n + 1) -> Columns]
  BY <1>3, LenProperties
<1>5. n + 1 \in 1..(MaxStatements + 1)
  BY <1>1, <1>2, StatementsAssumption
<1> QED  BY <1>2, <1>3, <1>4, <1>5 DEF Names

LEMMA NamesLength ==
    ASSUME NEW s \in Names
    PROVE  Len(s) \in Nat /\ s # <<>> /\ Len(s) <= MaxStatements + 1
<1>1. PICK n \in 1..(MaxStatements + 1) : s \in [1..n -> Columns]
  BY DEF Names
<1>2. Len(s) = n /\ n \in Nat \ {0}
  BY <1>1, StatementsAssumption
<1> QED  BY <1>1, <1>2, StatementsAssumption

\* The text of an ALTER TABLE that is planned.
LEMMA AlteredTyped ==
    ASSUME Engine, NEW c \in Clients, At(c, "plan"), Kind(c) = "alter",
           Known(run[c].stmt.table)
    PROVE  /\ AlteredSql(run[c].stmt) \in Names
           /\ Len(AlteredSql(run[c].stmt)) <= Done + 2
<1> DEFINE s == run[c].stmt
           sql == memory[s.table].sql
<1>1. s \in Statement /\ TypeOK
  BY StepNeeds DEF At
<1>2. s.table \in Tables /\ s.column \in Columns
  BY <1>1, StatementParts DEF Kind
<1>3. c \in Pending
  BY DEF At, Pending, Ddl
<1>4. sql \in Names /\ Len(sql) <= Done + 1
  BY <1>1, <1>2 DEF TypeOK, Definition, Known, Engine, Counted, Sizes
<1>5. Done \in Nat /\ Done + 1 <= MaxStatements
  BY <1>3, PendingCounts
<1>6. Len(sql) \in Nat
  BY <1>4, NamesLength
<1>7. Append(sql, s.column) \in Names /\ Len(Append(sql, s.column)) = Len(sql) + 1
  <2> HIDE DEF sql, s
  <2> QED  BY <1>2, <1>4, <1>5, <1>6, StatementsAssumption, NamesAppend
<1>8. AlteredSql(s) = sql \/ AlteredSql(s) = Append(sql, s.column)
  BY DEF AlteredSql
<1>9. Len(sql) <= Done + 2 /\ Len(Append(sql, s.column)) <= Done + 2
  BY <1>4, <1>5, <1>6, <1>7
<1> HIDE DEF sql, s
<1>10. AlteredSql(s) \in Names /\ Len(AlteredSql(s)) <= Done + 2
  BY <1>4, <1>7, <1>8, <1>9, Zenon
<1> QED  BY <1>10 DEF s

LEMMA PlanStep ==
    ASSUME Engine, NEW c \in Clients, Plan(c)
    PROVE  /\ At(c, "plan") /\ UNCHANGED <<memory, db, tx, catalog, gate, issued, written>>
           /\ \/ Returns(c)
              \/ /\ Kind(c) \in Ddl
                 /\ \E sql \in Names \cup {<<>>} :
                       /\ Len(sql) <= Done + 2
                       /\ Kind(c) = "alter" => sql # <<>>
                       /\ Becomes(c, "lock", run[c].stmt, sql, run[c].snap, run[c].value,
                                  run[c].table, run[c].since)
              \/ Kind(c) = "write" /\ Goes(c, "clone")
              \/ Kind(c) = "subquery" /\ Goes(c, "snapshot")
<1>1. At(c, "plan") /\ UNCHANGED <<memory, db, tx, catalog, gate, issued, written>>
  BY DEF Plan
<1>2. TypeOK /\ run[c].stmt \in Statement
  BY <1>1, StepNeeds DEF At
<1>3. CASE Return(c)
  BY <1>1, <1>2, <1>3, ReturnBecomes
<1>4. CASE ~Return(c)
  <2>1. Kind(c) = "alter" => Known(run[c].stmt.table)
    BY <1>4 DEF Plan, Plannable, Kind
  <2>2. Kind(c) = "alter" => /\ AlteredSql(run[c].stmt) \in Names
                             /\ Len(AlteredSql(run[c].stmt)) <= Done + 2
    BY <1>1, <2>1, AlteredTyped
  <2>3. CASE /\ Kind(c) \in Ddl /\ Plannable(run[c].stmt)
             /\ Becomes(c, "lock", run[c].stmt,
                        IF Kind(c) = "alter" THEN AlteredSql(run[c].stmt) ELSE <<>>,
                        run[c].snap, run[c].value, run[c].table, run[c].since)
    <3> DEFINE sql == IF Kind(c) = "alter" THEN AlteredSql(run[c].stmt) ELSE <<>>
    <3>1. Done \in Nat
      <4>1. c \in Pending
        BY <1>1, <2>3 DEF Pending, At
      <4> QED  BY <4>1, PendingCounts
    <3>2. /\ sql \in Names \cup {<<>>} /\ Len(sql) <= Done + 2
          /\ Kind(c) = "alter" => sql # <<>>
      BY <2>2, <3>1, NamesLength
    <3> HIDE DEF sql
    <3>3. Becomes(c, "lock", run[c].stmt, sql, run[c].snap, run[c].value, run[c].table,
                  run[c].since)
      BY <2>3 DEF sql
    <3> QED  BY <1>1, <2>3, <3>2, <3>3
  <2> QED  BY <1>1, <1>2, <2>2, <2>3, PlanRuns
<1> QED  BY <1>3, <1>4

LEMMA CreateStep ==
    ASSUME Engine, NEW c \in Clients, CreateTable(c)
    PROVE  Creates(c)
<1>1. At(c, "ddl") /\ Kind(c) \in Ddl
  BY DEF CreateTable, Kind, Ddl
<1>2. TypeOK /\ run[c].stmt \in Statement
  BY <1>1, StepNeeds DEF At
<1> QED  BY <1>1, <1>2, FreshIds, CreateWork

LEMMA DropStep ==
    ASSUME Engine, NEW c \in Clients, DropTable(c)
    PROVE  Drops(c)
<1>1. At(c, "ddl")
  BY DEF DropTable
<1>2. TypeOK /\ run[c].stmt \in Statement
  BY <1>1, StepNeeds DEF At
<1> QED  BY <1>2, DropWork

LEMMA AlterStep ==
    ASSUME Engine, NEW c \in Clients, AlterTable(c)
    PROVE  Alters(c)
<1>1. At(c, "ddl") /\ Kind(c) = "alter"
  BY DEF AlterTable, Kind
<1>2. TypeOK /\ run[c].stmt \in Statement /\ run[c].newSql # <<>>
  BY <1>1, StepNeeds DEF At
<1> QED  BY <1>2, AlterWork

\* What the three have in common.
LEMMA DdlWorks ==
    ASSUME TypeOK, NEW c \in Clients, Creates(c) \/ Drops(c) \/ Alters(c)
    PROVE  /\ At(c, "ddl") /\ Begins(c, tx'[c].db, FALSE) /\ Goes(c, "ddlcommit")
           /\ tx'[c].db \in Database
           /\ tx'[c].db.writes = db.writes /\ db.pages <= tx'[c].db.pages
           /\ UNCHANGED <<db, catalog, issued, written>>
<1>1. db.pages \in Nat
  BY DEF TypeOK, Database
<1>2. tx'[c].db.pages \in {db.pages, NewRoot}
  BY DEF Creates, Drops, Alters
<1>3. db.pages <= tx'[c].db.pages
  BY <1>1, <1>2 DEF NewRoot
<1> QED  BY <1>3 DEF Creates, Drops, Alters

\* The locks are only taken when they are free.
LEMMA LocksStep ==
    ASSUME Engine, NEW c \in Clients, ClientStep(c)
    PROVE  Locks'
<1>0. TypeOK /\ Locks
  BY DEF Engine
<1> USE DEF Locks, Holds, InTx, Becomes, Goes, Returns, At
<1>1. CASE Issue(c)
  BY <1>0, <1>1, IssueRuns DEF Issue
<1>2. CASE Plan(c)
  BY <1>0, <1>2, PlanStep
<1>3. CASE SubquerySnapshot(c)
  BY <1>0, <1>3, SnapshotRuns DEF SubquerySnapshot
<1>4. CASE Subquery(c)
  BY <1>0, <1>4, StepNeeds, SubqueryRuns DEF Subquery
<1>5. CASE CloneTable(c)
  BY <1>0, <1>5, StepNeeds, CloneRuns DEF CloneTable
<1>6. CASE BeginWrite(c)
  BY <1>0, <1>6, BeginWriteStep, NoneAssumption DEF Begins, TxOthers
<1>7. CASE Run(c)
  BY <1>0, <1>7, StepNeeds, RunStep DEF WritesOnce, TxOthers, Run
<1>8. CASE RunFail(c)
  BY <1>0, <1>8, StepNeeds, RunFailStep, NoneAssumption DEF WritesOnce, Ends, TxOthers, RunFail
<1>9. CASE AutoCommit(c)
  BY <1>0, <1>9, AutoCommitStep, NoneAssumption DEF Ends, TxOthers
<1>10. CASE BeginTx(c)
  BY <1>0, <1>10, BeginTxStep, NoneAssumption DEF Begins, TxOthers
<1>11. CASE EndTx(c)
  BY <1>0, <1>11, EndTxStep, NoneAssumption DEF Ends, TxOthers
<1>12. CASE LockCatalog(c)
  BY <1>0, <1>12, LockStep, NoneAssumption
<1>13. CASE CreateTable(c)
  BY <1>0, <1>13, CreateStep, DdlWorks, NoneAssumption DEF Begins, TxOthers
<1>14. CASE DropTable(c)
  BY <1>0, <1>14, DropStep, DdlWorks, NoneAssumption DEF Begins, TxOthers
<1>15. CASE AlterTable(c)
  BY <1>0, <1>15, AlterStep, DdlWorks, NoneAssumption DEF Begins, TxOthers
<1>16. CASE DdlFail(c)
  BY <1>0, <1>16, DdlFailStep, NoneAssumption
<1>17. CASE DdlCommit(c)
  BY <1>0, <1>17, DdlCommitStep, NoneAssumption DEF Ends, TxOthers
<1> QED
  BY <1>1, <1>2, <1>3, <1>4, <1>5, <1>6, <1>7, <1>8, <1>9, <1>10, <1>11, <1>12, <1>13,
     <1>14, <1>15, <1>16, <1>17 DEF ClientStep


\* A client only comes to a step with what the step needs.
LEMMA ProgramsStep ==
    ASSUME Engine, NEW c \in Clients, ClientStep(c)
    PROVE  Programs'
<1>0. TypeOK /\ Programs /\ Sound(run[c])
  BY DEF Engine, Programs
<1>1. CASE Issue(c)
  <2>1. (\A d \in Clients : d # c => run'[d] = run[d]) /\ Sound(run'[c])
    BY <1>0, <1>1, IssueRuns
       DEF Issue, Sound, Becomes, Goes, Returns, At, Kind
  <2> QED  BY <1>0, <2>1 DEF Programs
<1>2. CASE Plan(c)
  <2>1. (\A d \in Clients : d # c => run'[d] = run[d]) /\ Sound(run'[c])
    BY <1>0, <1>2, PlanStep
       DEF Sound, Becomes, Goes, Returns, At, Kind
  <2> QED  BY <1>0, <2>1 DEF Programs
<1>3. CASE SubquerySnapshot(c)
  <2>1. (\A d \in Clients : d # c => run'[d] = run[d]) /\ Sound(run'[c])
    BY <1>0, <1>3, SnapshotRuns, NoneAssumption
       DEF SubquerySnapshot, Sound, Becomes, Goes, Returns, At, Kind, TypeOK
  <2> QED  BY <1>0, <2>1 DEF Programs
<1>4. CASE Subquery(c)
  <2>1. (\A d \in Clients : d # c => run'[d] = run[d]) /\ Sound(run'[c])
    BY <1>0, <1>4, StepNeeds, SubqueryRuns
       DEF Subquery, Sound, Becomes, Goes, Returns, At, Kind
  <2> QED  BY <1>0, <2>1 DEF Programs
<1>5. CASE CloneTable(c)
  <2>1. (\A d \in Clients : d # c => run'[d] = run[d]) /\ Sound(run'[c])
    BY <1>0, <1>5, StepNeeds, CloneRuns
       DEF CloneTable, Sound, Becomes, Goes, Returns, At, Kind
  <2> QED  BY <1>0, <2>1 DEF Programs
<1>6. CASE BeginWrite(c)
  <2>1. (\A d \in Clients : d # c => run'[d] = run[d]) /\ Sound(run'[c])
    BY <1>0, <1>6, BeginWriteStep
       DEF Sound, Becomes, Goes, Returns, At, Kind
  <2> QED  BY <1>0, <2>1 DEF Programs
<1>7. CASE Run(c)
  <2>1. (\A d \in Clients : d # c => run'[d] = run[d]) /\ Sound(run'[c])
    BY <1>0, <1>7, StepNeeds, RunStep
       DEF Run, Sound, Becomes, Goes, Returns, At, Kind
  <2> QED  BY <1>0, <2>1 DEF Programs
<1>8. CASE RunFail(c)
  <2>1. (\A d \in Clients : d # c => run'[d] = run[d]) /\ Sound(run'[c])
    BY <1>0, <1>8, StepNeeds, RunFailStep
       DEF RunFail, Sound, Becomes, Goes, Returns, At, Kind
  <2> QED  BY <1>0, <2>1 DEF Programs
<1>9. CASE AutoCommit(c)
  <2>1. (\A d \in Clients : d # c => run'[d] = run[d]) /\ Sound(run'[c])
    BY <1>0, <1>9, AutoCommitStep
       DEF Sound, Becomes, Goes, Returns, At, Kind
  <2> QED  BY <1>0, <2>1 DEF Programs
<1>10. CASE BeginTx(c)
  <2>1. (\A d \in Clients : d # c => run'[d] = run[d]) /\ Sound(run'[c])
    BY <1>0, <1>10, BeginTxStep
       DEF Sound, Becomes, Goes, Returns, At, Kind
  <2> QED  BY <1>0, <2>1 DEF Programs
<1>11. CASE EndTx(c)
  BY <1>0, <1>11, EndTxStep DEF Programs
<1>12. CASE LockCatalog(c)
  <2>1. (\A d \in Clients : d # c => run'[d] = run[d]) /\ Sound(run'[c])
    BY <1>0, <1>12, LockStep
       DEF Sound, Becomes, Goes, Returns, At, Kind
  <2> QED  BY <1>0, <2>1 DEF Programs
<1>13. CASE CreateTable(c)
  <2>1. (\A d \in Clients : d # c => run'[d] = run[d]) /\ Sound(run'[c])
    BY <1>0, <1>13, CreateStep, DdlWorks
       DEF Sound, Becomes, Goes, Returns, At, Kind
  <2> QED  BY <1>0, <2>1 DEF Programs
<1>14. CASE DropTable(c)
  <2>1. (\A d \in Clients : d # c => run'[d] = run[d]) /\ Sound(run'[c])
    BY <1>0, <1>14, DropStep, DdlWorks
       DEF Sound, Becomes, Goes, Returns, At, Kind
  <2> QED  BY <1>0, <2>1 DEF Programs
<1>15. CASE AlterTable(c)
  <2>1. (\A d \in Clients : d # c => run'[d] = run[d]) /\ Sound(run'[c])
    BY <1>0, <1>15, AlterStep, DdlWorks
       DEF Sound, Becomes, Goes, Returns, At, Kind
  <2> QED  BY <1>0, <2>1 DEF Programs
<1>16. CASE DdlFail(c)
  <2>1. (\A d \in Clients : d # c => run'[d] = run[d]) /\ Sound(run'[c])
    BY <1>0, <1>16, DdlFailStep
       DEF Sound, Becomes, Goes, Returns, At, Kind
  <2> QED  BY <1>0, <2>1 DEF Programs
<1>17. CASE DdlCommit(c)
  <2>1. (\A d \in Clients : d # c => run'[d] = run[d]) /\ Sound(run'[c])
    BY <1>0, <1>17, DdlCommitStep
       DEF Sound, Becomes, Goes, Returns, At, Kind
  <2> QED  BY <1>0, <2>1 DEF Programs
<1> QED
  BY <1>1, <1>2, <1>3, <1>4, <1>5, <1>6, <1>7, <1>8, <1>9, <1>10, <1>11, <1>12, <1>13,
     <1>14, <1>15, <1>16, <1>17 DEF ClientStep

\* A transaction's own writes are added to those of the others.
LEMMA SettlesTyped ==
    ASSUME TypeOK, NEW c \in Clients, Holds(c), Settles(c)
    PROVE  db' \in Database /\ written' \in [Roots -> Nat]
<1>1. tx[c].db \in Database /\ tx[c].writes \in [Roots -> Nat]
  BY TxTyped
<1>2. db \in Database /\ written \in [Roots -> Nat]
  BY DEF TypeOK
<1>3. CASE db' = tx[c].db /\ written' = [r \in Roots |-> written[r] + tx[c].writes[r]]
  BY <1>1, <1>2, <1>3
<1>4. CASE UNCHANGED <<db, written>>
  BY <1>2, <1>4
<1> QED  BY <1>3, <1>4 DEF Settles

\* The definition that ALTER TABLE leaves in the catalog.
Altered(c) ==
    LET t == run[c].stmt.table
    IN [id |-> memory[t].id, root |-> memory[t].root,
        columns |-> Append(memory[t].columns, run[c].stmt.column), sql |-> run[c].newSql]

LEMMA AlteredDefinition ==
    ASSUME Engine, NEW c \in Clients, Alters(c)
    PROVE  Altered(c) \in Definition
<1> DEFINE t == run[c].stmt.table
<1>1. /\ memory \in [Tables -> Definition \cup {None}] /\ TypeOK
      /\ At(c, "ddl") /\ Known(t) /\ Kind(c) = "alter"
  BY DEF Engine, TypeOK, Alters
<1>2. run[c].stmt \in Statement
  BY <1>1, StepNeeds DEF At
<1>3. t \in Tables /\ run[c].stmt.column \in Columns
  BY <1>1, <1>2, StatementParts DEF Kind
<1>4. Done \in Nat /\ Done + 1 <= MaxStatements
  <2>1. c \in Pending
    BY <1>1 DEF Pending, At, Ddl
  <2> QED  BY <2>1, PendingCounts
<1>5. memory[t] \in Definition /\ Len(memory[t].columns) <= Done + 1
  BY <1>1, <1>3 DEF Known, Engine, Counted, Sizes
<1>6. memory[t].columns \in Names
  BY <1>5 DEF Definition
<1>7. Append(memory[t].columns, run[c].stmt.column) \in Names
  <2>1. Len(memory[t].columns) <= MaxStatements
    BY <1>4, <1>5, <1>6, NamesLength, StatementsAssumption
  <2> QED  BY <1>3, <1>6, <2>1, NamesAppend
<1>8. run[c].newSql \in Names
  BY <1>1, <1>2, StepNeeds, ProgramTyped, ProgramParts DEF At
<1> QED  BY <1>5, <1>7, <1>8 DEF Definition, Altered

\* The catalog in memory stays well formed.
LEMMA MemoryStep ==
    ASSUME Engine, NEW c \in Clients, Creates(c) \/ Drops(c) \/ Alters(c)
    PROVE  memory' \in [Tables -> Definition \cup {None}]
<1> DEFINE t == run[c].stmt.table
<1>1. memory \in [Tables -> Definition \cup {None}] /\ TypeOK
  BY DEF Engine, TypeOK
<1>2. At(c, "ddl") /\ run[c].stmt \in Statement
  BY <1>1, DdlWorks, StepNeeds DEF At
<1>3. t \in Tables
  BY <1>2, StatementParts
<1>4. CASE Creates(c)
  <2>1. NextId \in Ids /\ NewRoot \in Roots
    BY <1>2, <1>4, FreshIds DEF Creates, Ddl
  <2>2. [id |-> NextId, root |-> NewRoot, columns |-> <<run[c].stmt.column>>,
         sql |-> <<run[c].stmt.column>>] \in Definition
    BY <1>4, <2>1 DEF Creates, Definition
  <2>3. memory' = [memory EXCEPT ![t] = [id |-> NextId, root |-> NewRoot,
                                         columns |-> <<run[c].stmt.column>>,
                                         sql |-> <<run[c].stmt.column>>]]
    BY <1>4 DEF Creates
  <2> QED  BY <1>1, <1>3, <2>2, <2>3
<1>5. CASE Drops(c)
  <2>1. memory' = [memory EXCEPT ![t] = None]
    BY <1>5 DEF Drops
  <2> QED  BY <1>1, <1>3, <2>1
<1>6. CASE Alters(c)
  <2> DEFINE v == Altered(c)
  <2>1. memory' = [memory EXCEPT ![t] = v]
    BY <1>6 DEF Alters, Altered
  <2>2. v \in Definition
    BY <1>6, AlteredDefinition
  <2> HIDE DEF v
  <2> QED  BY <1>1, <1>3, <2>1, <2>2
<1> QED  BY <1>4, <1>5, <1>6

\* Every variable stays in its set.
LEMMA TypeStep ==
    ASSUME Engine, NEW c \in Clients, ClientStep(c)
    PROVE  TypeOK'
<1>0. /\ TypeOK
      /\ memory \in [Tables -> Definition \cup {None}] /\ db \in Database
      /\ catalog \in Clients \cup {None} /\ gate \in Clients \cup {None}
      /\ tx \in [Clients -> Tx \cup {None}]
      /\ issued \in 0..MaxStatements /\ written \in [Roots -> Nat]
      /\ run \in [Clients -> Program]
      /\ run[c].at \in {"commit", "ddlcommit"} => Holds(c)
      /\ InTx(c) => Holds(c)
  BY DEF Engine, TypeOK, Program, Locks, Holds, InTx
<1>T. ASSUME memory' \in [Tables -> Definition \cup {None}], db' \in Database,
             catalog' \in Clients \cup {None}, gate' \in Clients \cup {None},
             tx' \in [Clients -> Tx \cup {None}], run' \in [Clients -> Program],
             issued' \in 0..MaxStatements, written' \in [Roots -> Nat]
      PROVE  TypeOK'
  BY <1>T DEF TypeOK, Program
<1>1. CASE Issue(c)
  <2>1. run' \in [Clients -> Program]
    BY <1>0, <1>1, IssueRuns DEF Becomes
  <2>2. /\ issued' \in 0..MaxStatements
        /\ UNCHANGED <<memory, db, tx, catalog, gate, written>>
    BY <1>0, <1>1, StatementsAssumption DEF Issue
  <2> QED  BY <1>T, <1>0, <2>1, <2>2
<1>2. CASE Plan(c)
  BY <1>T, <1>0, <1>2, PlanStep DEF At, Becomes, Goes, Returns
<1>3. CASE SubquerySnapshot(c)
  BY <1>T, <1>0, <1>3, SnapshotRuns DEF At, Becomes, Goes, Returns, SubquerySnapshot
<1>4. CASE Subquery(c)
  BY <1>T, <1>0, <1>4, StepNeeds, SubqueryRuns DEF At, Becomes, Goes, Returns, Subquery
<1>5. CASE CloneTable(c)
  BY <1>T, <1>0, <1>5, StepNeeds, CloneRuns DEF At, Becomes, Goes, Returns, CloneTable
<1>6. CASE BeginWrite(c)
  BY <1>T, <1>0, <1>6, BeginWriteStep DEF At, Becomes, Goes, Returns, Begins, TxOthers
<1>7. CASE Run(c)
  BY <1>T, <1>0, <1>7, StepNeeds, RunStep DEF At, Becomes, Goes, Returns, Run, WritesOnce, TxOthers
<1>8. CASE RunFail(c)
  BY <1>T, <1>0, <1>8, StepNeeds, RunFailStep DEF At, Becomes, Goes, Returns, RunFail, WritesOnce, TxOthers, Ends
<1>9. CASE AutoCommit(c)
  BY <1>T, <1>0, <1>9, AutoCommitStep, SettlesTyped DEF At, Becomes, Goes, Returns, Ends, TxOthers
<1>10. CASE BeginTx(c)
  BY <1>T, <1>0, <1>10, BeginTxStep DEF At, Becomes, Goes, Returns, Begins, TxOthers
<1>11. CASE EndTx(c)
  BY <1>T, <1>0, <1>11, EndTxStep, SettlesTyped DEF At, Becomes, Goes, Returns, Ends, TxOthers
<1>12. CASE LockCatalog(c)
  BY <1>T, <1>0, <1>12, LockStep DEF At, Becomes, Goes, Returns
<1>13. CASE CreateTable(c)
  BY <1>T, <1>0, <1>13, CreateStep, DdlWorks, MemoryStep DEF At, Becomes, Goes, Returns, Begins, TxOthers
<1>14. CASE DropTable(c)
  BY <1>T, <1>0, <1>14, DropStep, DdlWorks, MemoryStep DEF At, Becomes, Goes, Returns, Begins, TxOthers
<1>15. CASE AlterTable(c)
  BY <1>T, <1>0, <1>15, AlterStep, DdlWorks, MemoryStep DEF At, Becomes, Goes, Returns, Begins, TxOthers
<1>16. CASE DdlFail(c)
  BY <1>T, <1>0, <1>16, DdlFailStep DEF At, Becomes, Goes, Returns
<1>17. CASE DdlCommit(c)
  BY <1>T, <1>0, <1>17, DdlCommitStep, SettlesTyped DEF At, Becomes, Goes, Returns, Ends, TxOthers
<1> QED
  BY <1>1, <1>2, <1>3, <1>4, <1>5, <1>6, <1>7, <1>8, <1>9, <1>10, <1>11, <1>12, <1>13,
     <1>14, <1>15, <1>16, <1>17 DEF ClientStep

\* The transactions' part, kept by a step after which nobody holds the gate, and
\* by one that leaves the database, the transactions and their ends alone.
LEMMA SettledTransactions ==
    ASSUME Engine, NEW c \in Clients, Holds(c), Ends(c), Settles(c)
    PROVE  Transactions' /\ \A r \in Roots : db'.writes[r] \in Nat /\ db.writes[r] <= db'.writes[r]
<1>1. /\ \A r \in Roots : db.writes[r] = written[r] /\ db.writes[r] \in Nat /\ written[r] \in Nat
      /\ \A r \in Roots : tx[c].db.writes[r] = db.writes[r] + tx[c].writes[r]
      /\ gate = c
  BY DEF Engine, Transactions, NoLostUpdate, Locks, Holds, TypeOK, Database
<1>2. \A r \in Roots : tx[c].writes[r] \in Nat
  BY TxTyped DEF Engine
<1>3. \A d \in Clients : tx'[d] = None
  BY <1>1 DEF Engine, Locks, Holds, Ends, TxOthers
<1>4. CASE db' = tx[c].db /\ written' = [r \in Roots |-> written[r] + tx[c].writes[r]]
  BY <1>1, <1>2, <1>3, <1>4 DEF Transactions, NoLostUpdate, Holds
<1>5. CASE UNCHANGED <<db, written>>
  BY <1>1, <1>3, <1>5 DEF Transactions, NoLostUpdate, Holds
<1> QED  BY <1>4, <1>5 DEF Settles

LEMMA QuietTransactions ==
    ASSUME Engine, NEW c \in Clients, UNCHANGED <<db, tx, written>>,
           \A d \in Clients : d # c => run'[d] = run[d],
           run[c].at # "ddlcommit"
    PROVE  Transactions'
BY DEF Engine, Transactions, NoLostUpdate, Holds

\* A transaction that begins has not written; what it works on is newest.
LEMMA BegunTransactions ==
    ASSUME Engine, NEW c \in Clients, NEW d, NEW e, Begins(c, d, e), UNCHANGED <<db, written>>,
           d.writes = db.writes, db.pages <= d.pages,
           run'[c].at = "ddlcommit" \/ d.master = db.master
    PROVE  Transactions'
<1>1. \A u \in Clients : u # c => tx'[u] = None
  BY NoneAssumption DEF Engine, Locks, Holds, Begins, TxOthers
<1>2. \A r \in Roots : db.writes[r] \in Nat /\ NoWrites[r] = 0
  BY DEF Engine, TypeOK, Database, NoWrites
<1>3. NoLostUpdate'
  BY DEF Engine, Transactions, NoLostUpdate
<1>4. /\ \A r \in Roots : tx'[c].db.writes[r] = db'.writes[r] + tx'[c].writes[r]
      /\ db'.pages <= tx'[c].db.pages
      /\ run'[c].at # "ddlcommit" => tx'[c].db.master = db'.master
  BY <1>2 DEF Begins
<1> QED  BY <1>1, <1>3, <1>4 DEF Transactions, Holds

LEMMA WrittenTransactions ==
    ASSUME Engine, NEW c \in Clients, NEW r \in Roots, WritesOnce(c, r), UNCHANGED <<db, written>>,
           \A d \in Clients : d # c => run'[d] = run[d],
           run[c].at # "ddlcommit", Holds(c)
    PROVE  Transactions'
<1>1. /\ NoLostUpdate
      /\ \A d \in Clients : Holds(d) =>
          /\ \A q \in Roots : tx[d].db.writes[q] = db.writes[q] + tx[d].writes[q]
          /\ db.pages <= tx[d].db.pages
          /\ run[d].at # "ddlcommit" => tx[d].db.master = db.master
  BY DEF Engine, Transactions
<1>2. tx[c].writes \in [Roots -> Nat] /\ tx[c].db.writes \in [Roots -> Nat]
      /\ db.writes \in [Roots -> Nat]
  BY TxTyped DEF Engine, TypeOK, Database
<1>3. /\ \A q \in Roots : OneMore(tx[c].writes, r)[q] = IF q = r THEN tx[c].writes[q] + 1 ELSE tx[c].writes[q]
      /\ \A q \in Roots : OneMore(tx[c].db.writes, r)[q]
                             = IF q = r THEN tx[c].db.writes[q] + 1 ELSE tx[c].db.writes[q]
  BY <1>2, OneMoreTyped
<1>4. /\ tx'[c].writes = OneMore(tx[c].writes, r)
      /\ tx'[c].db.writes = OneMore(tx[c].db.writes, r)
      /\ tx'[c].db.master = tx[c].db.master /\ tx'[c].db.pages = tx[c].db.pages
      /\ \A d \in Clients : d # c => tx'[d] = tx[d]
  BY DEF WritesOnce, TxOthers
<1>5. \A q \in Roots : tx'[c].db.writes[q] = db.writes[q] + tx'[c].writes[q]
  <2> TAKE q \in Roots
  <2>1. tx[c].db.writes[q] = db.writes[q] + tx[c].writes[q]
    BY <1>1
  <2>2. tx[c].db.writes[q] \in Nat /\ db.writes[q] \in Nat /\ tx[c].writes[q] \in Nat
    BY <1>2
  <2>3. CASE q = r
    BY <1>3, <1>4, <2>1, <2>2, <2>3
  <2>4. CASE q # r
    BY <1>3, <1>4, <2>1, <2>2, <2>4
  <2> QED  BY <2>3, <2>4
<1>6. NoLostUpdate'
  BY <1>1 DEF NoLostUpdate
<1> QED  BY <1>1, <1>4, <1>5, <1>6 DEF Transactions, Holds

\* No write is lost.
LEMMA TransactionsStep ==
    ASSUME Engine, NEW c \in Clients, ClientStep(c)
    PROVE  Transactions'
<1>0. /\ TypeOK
      /\ run[c].at \in {"commit", "ddlcommit"} => Holds(c)
      /\ InTx(c) => Holds(c)
      /\ db.pages \in Nat
  BY DEF Engine, TypeOK, Database, Locks, Holds, InTx
<1>1. CASE Issue(c)
  BY <1>0, <1>1, IssueRuns, QuietTransactions
     DEF At, Becomes, Goes, Returns, Issue
<1>2. CASE Plan(c)
  BY <1>0, <1>2, PlanStep, QuietTransactions
     DEF At, Becomes, Goes, Returns
<1>3. CASE SubquerySnapshot(c)
  BY <1>0, <1>3, SnapshotRuns, QuietTransactions
     DEF At, Becomes, Goes, Returns, SubquerySnapshot
<1>4. CASE Subquery(c)
  BY <1>0, <1>4, StepNeeds, SubqueryRuns, QuietTransactions
     DEF At, Becomes, Goes, Returns, Subquery
<1>5. CASE CloneTable(c)
  BY <1>0, <1>5, StepNeeds, CloneRuns, QuietTransactions
     DEF At, Becomes, Goes, Returns, CloneTable
<1>6. CASE BeginWrite(c)
  <2> DEFINE d == db
  <2>1. Begins(c, d, FALSE) /\ UNCHANGED <<db, written>>
    BY <1>0, <1>6, BeginWriteStep, Zenon
  <2>2. d.writes = db.writes /\ db.pages <= d.pages /\ d.master = db.master
    BY <1>0
  <2> HIDE DEF d
  <2> QED  BY <2>1, <2>2, BegunTransactions
<1>7. CASE Run(c)
  BY <1>0, <1>7, StepNeeds, RunStep, WrittenTransactions
     DEF At, Becomes, Goes, Returns, Run
<1>8. CASE RunFail(c)
  BY <1>0, <1>8, StepNeeds, RunFailStep, WrittenTransactions, QuietTransactions, SettledTransactions
     DEF At, Becomes, Goes, Returns, RunFail, Settles
<1>9. CASE AutoCommit(c)
  BY <1>0, <1>9, AutoCommitStep, SettledTransactions
     DEF At, Becomes, Goes, Returns
<1>10. CASE BeginTx(c)
  <2> DEFINE d == db
  <2>1. Begins(c, d, TRUE) /\ UNCHANGED <<db, written>>
    BY <1>0, <1>10, BeginTxStep, Zenon
  <2>2. d.writes = db.writes /\ db.pages <= d.pages /\ d.master = db.master
    BY <1>0
  <2> HIDE DEF d
  <2> QED  BY <2>1, <2>2, BegunTransactions
<1>11. CASE EndTx(c)
  BY <1>0, <1>11, EndTxStep, SettledTransactions
     DEF At, Becomes, Goes, Returns
<1>12. CASE LockCatalog(c)
  BY <1>0, <1>12, LockStep, QuietTransactions
     DEF At, Becomes, Goes, Returns
<1>13. CASE CreateTable(c)
  <2> DEFINE d == tx'[c].db
  <2>1. /\ Begins(c, d, FALSE) /\ UNCHANGED <<db, written>>
        /\ d.writes = db.writes /\ db.pages <= d.pages /\ run'[c].at = "ddlcommit"
    BY <1>0, <1>13, CreateStep, DdlWorks DEF Goes, Becomes
  <2> HIDE DEF d
  <2> QED  BY <2>1, BegunTransactions
<1>14. CASE DropTable(c)
  <2> DEFINE d == tx'[c].db
  <2>1. /\ Begins(c, d, FALSE) /\ UNCHANGED <<db, written>>
        /\ d.writes = db.writes /\ db.pages <= d.pages /\ run'[c].at = "ddlcommit"
    BY <1>0, <1>14, DropStep, DdlWorks DEF Goes, Becomes
  <2> HIDE DEF d
  <2> QED  BY <2>1, BegunTransactions
<1>15. CASE AlterTable(c)
  <2> DEFINE d == tx'[c].db
  <2>1. /\ Begins(c, d, FALSE) /\ UNCHANGED <<db, written>>
        /\ d.writes = db.writes /\ db.pages <= d.pages /\ run'[c].at = "ddlcommit"
    BY <1>0, <1>15, AlterStep, DdlWorks DEF Goes, Becomes
  <2> HIDE DEF d
  <2> QED  BY <2>1, BegunTransactions
<1>16. CASE DdlFail(c)
  BY <1>0, <1>16, DdlFailStep, QuietTransactions
     DEF At, Becomes, Goes, Returns
<1>17. CASE DdlCommit(c)
  BY <1>0, <1>17, DdlCommitStep, SettledTransactions
     DEF At, Becomes, Goes, Returns
<1> QED
  BY <1>1, <1>2, <1>3, <1>4, <1>5, <1>6, <1>7, <1>8, <1>9, <1>10, <1>11, <1>12, <1>13,
     <1>14, <1>15, <1>16, <1>17 DEF ClientStep

\* What Snapshots says of one client, when the tables have had w writes.
Current(p, w) ==
    /\ p.value # None =>
        p.since[p.value.root] <= p.value.got /\ p.value.got <= w[p.value.root]
    /\ \A r \in Roots :
        /\ p.at # "idle" => p.since[r] <= w[r]
        /\ p.at = "subquery" => p.since[r] <= p.snap.writes[r] /\ p.snap.writes[r] <= w[r]

LEMMA SnapshotsCurrent == Snapshots <=> \A c \in Clients : Current(run[c], db.writes)
BY Zenon DEF Snapshots, SubqueriesAreCurrent, Current

\* Tables only gain writes, so what was current stays so.
LEMMA CurrentLonger ==
    ASSUME NEW p \in Program, NEW w \in [Roots -> Nat], NEW v \in [Roots -> Nat],
           \A r \in Roots : w[r] <= v[r], Current(p, w), p.at = "subquery" => p.snap # None
    PROVE  Current(p, v)
<1>1. p.since \in [Roots -> Nat]
  BY ProgramParts
<1>2. ASSUME p.value # None
      PROVE  p.since[p.value.root] <= p.value.got /\ p.value.got <= v[p.value.root]
  <2>1. p.value.root \in Roots /\ p.value.got \in Nat
    BY <1>2, ProgramParts
  <2> QED  BY <1>2, <2>1 DEF Current
<1>3. ASSUME NEW r \in Roots, p.at # "idle" PROVE p.since[r] <= v[r]
  BY <1>1, <1>3 DEF Current
<1>4. ASSUME NEW r \in Roots, p.at = "subquery"
      PROVE  p.since[r] <= p.snap.writes[r] /\ p.snap.writes[r] <= v[r]
  <2>1. p.snap \in Database
    BY <1>4, ProgramParts
  <2>2. p.snap.writes[r] \in Nat
    BY <2>1 DEF Database
  <2> QED  BY <1>4, <2>2 DEF Current
<1> QED  BY <1>2, <1>3, <1>4 DEF Current

\* One client takes a step and no table loses writes.
LEMMA SnapshotsKept ==
    ASSUME Engine, NEW c \in Clients, db'.writes \in [Roots -> Nat],
           \A r \in Roots : db.writes[r] <= db'.writes[r],
           \A d \in Clients : d # c => run'[d] = run[d],
           Current(run'[c], db'.writes)
    PROVE  Snapshots'
<1>1. \A d \in Clients : Current(run[d], db.writes)
  BY SnapshotsCurrent DEF Engine
<1>2. db.writes \in [Roots -> Nat]
  BY DEF Engine, TypeOK, Database
<1>3. ASSUME NEW d \in Clients, d # c PROVE Current(run'[d], db'.writes)
  <2>1. Current(run[d], db.writes) /\ run[d] \in Program /\ run'[d] = run[d]
    BY <1>1, <1>3, ProgramTyped DEF Engine
  <2>2. run[d].at = "subquery" => run[d].snap # None
    BY StepNeeds
  <2> QED  BY <1>2, <2>1, <2>2, CurrentLonger
<1>4. \A d \in Clients : Current(run'[d], db'.writes)
  BY <1>3
<1> QED  BY <1>4, Zenon DEF Snapshots, SubqueriesAreCurrent, Current

\* A client that returns keeps no snapshot.
LEMMA ReturnsCurrent ==
    ASSUME NEW c \in Clients, Returns(c), NEW w
    PROVE  Current(run'[c], w)
BY DEF Returns, Becomes, Current

\* A step that keeps what Current speaks of.
LEMMA StaysCurrent ==
    ASSUME Engine, NEW c \in Clients, run[c].at # "idle",
           run'[c].value = run[c].value, run'[c].since = run[c].since,
           run'[c].at # "subquery"
    PROVE  Current(run'[c], db.writes)
<1>1. Current(run[c], db.writes)
  BY SnapshotsCurrent DEF Engine
<1> QED  BY <1>1 DEF Current

\* The value of a subquery stays one that its table has had.
LEMMA SnapshotsStep ==
    ASSUME Engine, NEW c \in Clients, ClientStep(c)
    PROVE  Snapshots'
<1>0. /\ TypeOK
      /\ run[c].at \in {"commit", "ddlcommit"} => Holds(c)
      /\ InTx(c) => Holds(c)
      /\ db \in Database /\ db.writes \in [Roots -> Nat] /\ \A r \in Roots : db.writes[r] <= db.writes[r]
  BY DEF Engine, TypeOK, Database, Locks, Holds, InTx
<1>1. CASE Issue(c)
  <2>1. UNCHANGED db /\ \A d \in Clients : d # c => run'[d] = run[d]
    BY <1>0, <1>1, IssueRuns DEF At, Becomes, Goes, Returns, Issue
  <2>2. Current(run'[c], db.writes)
    <3>1. Sound(run[c]) /\ At(c, "idle")
      BY <1>1 DEF Engine, Programs, Issue
    <3>2. run'[c].value = None /\ run'[c].since = db.writes /\ run'[c].at # "subquery"
      BY <1>0, <1>1, <3>1, IssueRuns DEF Becomes, Sound, At
    <3> QED  BY <1>0, <3>2 DEF Current, Database
  <2> QED  BY <1>0, <2>1, <2>2, SnapshotsKept DEF Database
<1>2. CASE Plan(c)
  <2>1. UNCHANGED db /\ \A d \in Clients : d # c => run'[d] = run[d]
    BY <1>0, <1>2, PlanStep DEF At, Becomes, Goes, Returns
  <2>2. Returns(c) \/ (/\ run[c].at # "idle" /\ run'[c].at # "subquery"
                         /\ run'[c].value = run[c].value /\ run'[c].since = run[c].since)
    BY <1>0, <1>2, PlanStep
       DEF At, Becomes, Goes
  <2>3. Current(run'[c], db.writes)
    BY <2>2, ReturnsCurrent, StaysCurrent
  <2> QED  BY <1>0, <2>1, <2>3, SnapshotsKept DEF Database
<1>3. CASE SubquerySnapshot(c)
  <2>1. UNCHANGED db /\ \A d \in Clients : d # c => run'[d] = run[d]
    BY <1>0, <1>3, SnapshotRuns DEF At, Becomes, Goes, Returns, SubquerySnapshot
  <2>2. Current(run'[c], db.writes)
    <3>1. /\ run'[c].value = run[c].value /\ run'[c].since = run[c].since
          /\ run'[c].at = "subquery" /\ run'[c].snap = db /\ run[c].at # "idle"
      BY <1>0, <1>3, SnapshotRuns DEF Becomes, SubquerySnapshot, At
    <3>2. Current(run[c], db.writes)
      BY SnapshotsCurrent DEF Engine
    <3> QED  BY <1>0, <3>1, <3>2 DEF Current, Database
  <2> QED  BY <1>0, <2>1, <2>2, SnapshotsKept DEF Database
<1>4. CASE Subquery(c)
  <2>1. UNCHANGED db /\ \A d \in Clients : d # c => run'[d] = run[d]
    BY <1>0, <1>4, StepNeeds, SubqueryRuns DEF Becomes, Returns, Subquery, At
  <2>2. Current(run'[c], db.writes)
    <3>1. CASE Returns(c)
      BY <3>1, ReturnsCurrent
    <3>2. CASE /\ memory[run[c].stmt.table] # None
               /\ Becomes(c, "clone", run[c].stmt, run[c].newSql, None,
                          [root |-> memory[run[c].stmt.table].root,
                           got |-> run[c].snap.writes[memory[run[c].stmt.table].root]],
                          run[c].table, run[c].since)
      <4> DEFINE r == memory[run[c].stmt.table].root
      <4>1. /\ run'[c].value.root = r /\ run'[c].value.got = run[c].snap.writes[r]
            /\ run'[c].since = run[c].since /\ run'[c].at = "clone"
        BY <3>2 DEF Becomes
      <4>2. At(c, "subquery") /\ run[c].stmt \in Statement
        BY <1>4, StepNeeds DEF Subquery, At
      <4>3. r \in Roots
        BY <1>0, <3>2, <4>2, StatementParts DEF TypeOK, Definition
      <4>4. Current(run[c], db.writes)
        BY SnapshotsCurrent DEF Engine
      <4> QED  BY <4>1, <4>2, <4>3, <4>4 DEF Current, At
    <3> QED  BY <1>0, <1>4, <3>1, <3>2, SubqueryRuns, StepNeeds DEF Subquery, At
  <2> QED  BY <1>0, <2>1, <2>2, SnapshotsKept DEF Database
<1>5. CASE CloneTable(c)
  <2>1. UNCHANGED db /\ \A d \in Clients : d # c => run'[d] = run[d]
    BY <1>0, <1>5, StepNeeds, CloneRuns DEF At, Becomes, Goes, Returns, CloneTable
  <2>2. Returns(c) \/ (/\ run[c].at # "idle" /\ run'[c].at # "subquery"
                         /\ run'[c].value = run[c].value /\ run'[c].since = run[c].since)
    BY <1>0, <1>5, StepNeeds, CloneRuns
       DEF At, Becomes, Goes, CloneTable
  <2>3. Current(run'[c], db.writes)
    BY <2>2, ReturnsCurrent, StaysCurrent
  <2> QED  BY <1>0, <2>1, <2>3, SnapshotsKept DEF Database
<1>6. CASE BeginWrite(c)
  <2>1. UNCHANGED db /\ \A d \in Clients : d # c => run'[d] = run[d]
    BY <1>0, <1>6, BeginWriteStep DEF At, Becomes, Goes, Returns
  <2>2. Current(run'[c], db.writes)
    BY <1>0, <1>6, BeginWriteStep, StaysCurrent
       DEF At, Becomes, Goes, Returns
  <2> QED  BY <1>0, <2>1, <2>2, SnapshotsKept DEF Database
<1>7. CASE Run(c)
  <2>1. UNCHANGED db /\ \A d \in Clients : d # c => run'[d] = run[d]
    BY <1>0, <1>7, StepNeeds, RunStep DEF At, Becomes, Goes, Returns, Run
  <2>2. Returns(c) \/ (/\ run[c].at # "idle" /\ run'[c].at # "subquery"
                         /\ run'[c].value = run[c].value /\ run'[c].since = run[c].since)
    BY <1>0, <1>7, StepNeeds, RunStep
       DEF At, Becomes, Goes, Run
  <2>3. Current(run'[c], db.writes)
    BY <2>2, ReturnsCurrent, StaysCurrent
  <2> QED  BY <1>0, <2>1, <2>3, SnapshotsKept DEF Database
<1>8. CASE RunFail(c)
  <2>1. UNCHANGED db /\ \A d \in Clients : d # c => run'[d] = run[d]
    BY <1>0, <1>8, StepNeeds, RunFailStep DEF At, Becomes, Goes, Returns, RunFail
  <2>2. Current(run'[c], db.writes)
    BY <1>0, <1>8, StepNeeds, RunFailStep, ReturnsCurrent DEF RunFail, At
  <2> QED  BY <1>0, <2>1, <2>2, SnapshotsKept DEF Database
<1>9. CASE AutoCommit(c)
  <2>1. Ends(c) /\ Settles(c) /\ Returns(c) /\ Holds(c)
    BY <1>0, <1>9, AutoCommitStep DEF At
  <2>2. db'.writes \in [Roots -> Nat]
    BY <1>0, <2>1, SettlesTyped DEF Database
  <2>3. \A r \in Roots : db.writes[r] <= db'.writes[r]
    BY <2>1, SettledTransactions
  <2>4. Current(run'[c], db'.writes) /\ \A d \in Clients : d # c => run'[d] = run[d]
    BY <2>1, ReturnsCurrent DEF Returns, Becomes
  <2> QED  BY <2>2, <2>3, <2>4, SnapshotsKept
<1>10. CASE BeginTx(c)
  <2>1. UNCHANGED db /\ \A d \in Clients : d # c => run'[d] = run[d]
    BY <1>0, <1>10, BeginTxStep DEF At, Becomes, Goes, Returns
  <2>2. Current(run'[c], db.writes)
    BY <1>0, <1>10, BeginTxStep, ReturnsCurrent
  <2> QED  BY <1>0, <2>1, <2>2, SnapshotsKept DEF Database
<1>11. CASE EndTx(c)
  <2>1. Ends(c) /\ Settles(c) /\ Holds(c) /\ At(c, "idle") /\ run' = run
    BY <1>0, <1>11, EndTxStep
  <2>2. db'.writes \in [Roots -> Nat]
    BY <1>0, <2>1, SettlesTyped DEF Database
  <2>3. \A r \in Roots : db.writes[r] <= db'.writes[r]
    BY <2>1, SettledTransactions
  <2>4. Current(run[c], db.writes)
    BY SnapshotsCurrent DEF Engine
  <2>5. Current(run[c], db'.writes)
    BY <1>0, <2>1, <2>2, <2>3, <2>4, ProgramTyped, CurrentLonger DEF At
  <2> QED  BY <2>1, <2>2, <2>3, <2>5, SnapshotsKept
<1>12. CASE LockCatalog(c)
  <2>1. UNCHANGED db /\ \A d \in Clients : d # c => run'[d] = run[d]
    BY <1>0, <1>12, LockStep DEF At, Becomes, Goes, Returns
  <2>2. Returns(c) \/ (/\ run[c].at # "idle" /\ run'[c].at # "subquery"
                         /\ run'[c].value = run[c].value /\ run'[c].since = run[c].since)
    BY <1>0, <1>12, LockStep
       DEF At, Becomes, Goes
  <2>3. Current(run'[c], db.writes)
    BY <2>2, ReturnsCurrent, StaysCurrent
  <2> QED  BY <1>0, <2>1, <2>3, SnapshotsKept DEF Database
<1>13. CASE CreateTable(c)
  <2>1. UNCHANGED db /\ \A d \in Clients : d # c => run'[d] = run[d]
    BY <1>0, <1>13, CreateStep, DdlWorks DEF At, Becomes, Goes, Returns
  <2>2. Current(run'[c], db.writes)
    BY <1>0, <1>13, CreateStep, DdlWorks, StaysCurrent
       DEF At, Becomes, Goes, Returns
  <2> QED  BY <1>0, <2>1, <2>2, SnapshotsKept DEF Database
<1>14. CASE DropTable(c)
  <2>1. UNCHANGED db /\ \A d \in Clients : d # c => run'[d] = run[d]
    BY <1>0, <1>14, DropStep, DdlWorks DEF At, Becomes, Goes, Returns
  <2>2. Current(run'[c], db.writes)
    BY <1>0, <1>14, DropStep, DdlWorks, StaysCurrent
       DEF At, Becomes, Goes, Returns
  <2> QED  BY <1>0, <2>1, <2>2, SnapshotsKept DEF Database
<1>15. CASE AlterTable(c)
  <2>1. UNCHANGED db /\ \A d \in Clients : d # c => run'[d] = run[d]
    BY <1>0, <1>15, AlterStep, DdlWorks DEF At, Becomes, Goes, Returns
  <2>2. Current(run'[c], db.writes)
    BY <1>0, <1>15, AlterStep, DdlWorks, StaysCurrent
       DEF At, Becomes, Goes, Returns
  <2> QED  BY <1>0, <2>1, <2>2, SnapshotsKept DEF Database
<1>16. CASE DdlFail(c)
  <2>1. UNCHANGED db /\ \A d \in Clients : d # c => run'[d] = run[d]
    BY <1>0, <1>16, DdlFailStep DEF At, Becomes, Goes, Returns
  <2>2. Current(run'[c], db.writes)
    BY <1>0, <1>16, DdlFailStep, ReturnsCurrent
  <2> QED  BY <1>0, <2>1, <2>2, SnapshotsKept DEF Database
<1>17. CASE DdlCommit(c)
  <2>1. Ends(c) /\ Settles(c) /\ Returns(c) /\ Holds(c)
    BY <1>0, <1>17, DdlCommitStep DEF At
  <2>2. db'.writes \in [Roots -> Nat]
    BY <1>0, <2>1, SettlesTyped DEF Database
  <2>3. \A r \in Roots : db.writes[r] <= db'.writes[r]
    BY <2>1, SettledTransactions
  <2>4. Current(run'[c], db'.writes) /\ \A d \in Clients : d # c => run'[d] = run[d]
    BY <2>1, ReturnsCurrent DEF Returns, Becomes
  <2> QED  BY <2>2, <2>3, <2>4, SnapshotsKept
<1> QED
  BY <1>1, <1>2, <1>3, <1>4, <1>5, <1>6, <1>7, <1>8, <1>9, <1>10, <1>11, <1>12, <1>13,
     <1>14, <1>15, <1>16, <1>17 DEF ClientStep

\* The number of statements done does not go down, and goes up when a statement
\* can no longer change the schema.
DoneGrows ==
    /\ IsFiniteSet(Pending') /\ Cardinality(Pending)' <= issued'
    /\ Done' \in Nat /\ Done \in Nat /\ Done <= Done'

LEMMA DoneTyped ==
    ASSUME Engine
    PROVE  /\ IsFiniteSet(Pending) /\ Cardinality(Pending) \in Nat
           /\ issued \in Nat /\ Cardinality(Pending) <= issued /\ Done \in Nat
<1>1. IsFiniteSet(Pending) /\ issued \in Nat /\ Cardinality(Pending) <= issued
  BY StatementsAssumption DEF Engine, Counted, TypeOK
<1>2. Cardinality(Pending) \in Nat
  BY <1>1, FS_CardinalityType
<1> QED  BY <1>1, <1>2 DEF Done

LEMMA StaysPending ==
    ASSUME Engine, NEW c \in Clients, issued' = issued,
           \A d \in Clients : d # c => run'[d] = run[d],
           (run'[c].at \in {"plan", "lock", "ddl"} /\ run'[c].stmt.kind \in Ddl)
             <=> (run[c].at \in {"plan", "lock", "ddl"} /\ run[c].stmt.kind \in Ddl)
    PROVE  DoneGrows /\ Pending' = Pending
<1>1. Pending' = Pending
  BY DEF Pending, Kind
<1>2. Done' = Done /\ Cardinality(Pending)' = Cardinality(Pending)
  BY <1>1 DEF Done
<1> QED  BY <1>1, <1>2, DoneTyped DEF DoneGrows

LEMMA LeavesPending ==
    ASSUME Engine, NEW c \in Pending, issued' = issued,
           \A d \in Clients : d # c => run'[d] = run[d],
           run'[c].at \notin {"plan", "lock", "ddl"}
    PROVE  DoneGrows /\ Pending' \subseteq Pending /\ Done' = Done + 1
<1>1. Pending' = Pending \ {c}
  BY DEF Pending, Kind
<1>2. /\ IsFiniteSet(Pending \ {c})
      /\ Cardinality(Pending \ {c}) = Cardinality(Pending) - 1
  BY DoneTyped, FS_RemoveElement
<1>3. Cardinality(Pending)' = Cardinality(Pending) - 1 /\ IsFiniteSet(Pending')
  BY <1>1, <1>2
<1>4. Done' = Done + 1
  BY <1>3, DoneTyped DEF Done
<1> QED  BY <1>1, <1>3, <1>4, DoneTyped DEF DoneGrows

LEMMA ComesPending ==
    ASSUME Engine, NEW c \in Clients, issued' = issued + 1, run[c].at = "idle",
           \A d \in Clients : d # c => run'[d] = run[d]
    PROVE  DoneGrows /\ Pending' \subseteq Pending \cup {c}
<1>1. Pending' = Pending \/ Pending' = Pending \cup {c}
  BY DEF Pending, Kind
<1>2. c \notin Pending
  BY DEF Pending
<1>3. IsFiniteSet(Pending \cup {c}) /\ Cardinality(Pending \cup {c}) = Cardinality(Pending) + 1
  BY <1>2, DoneTyped, FS_AddElement
<1>4. CASE Pending' = Pending
  <2>1. Cardinality(Pending)' = Cardinality(Pending) /\ Done' = Done + 1
    BY <1>4, DoneTyped DEF Done
  <2> QED  BY <1>4, <2>1, DoneTyped DEF DoneGrows
<1>5. CASE Pending' = Pending \cup {c}
  <2>1. Cardinality(Pending)' = Cardinality(Pending) + 1 /\ IsFiniteSet(Pending')
    BY <1>3, <1>5
  <2>2. Done' = Done
    BY <2>1, DoneTyped DEF Done
  <2> QED  BY <1>5, <2>1, <2>2, DoneTyped DEF DoneGrows
<1> QED  BY <1>1, <1>4, <1>5

\* The bounds hold of what they held of when more statements are done.
LEMMA CountsLonger ==
    ASSUME NEW d \in Database, NEW n \in Nat, NEW m \in Nat, n <= m, Counts(d, n)
    PROVE  Counts(d, m)
<1>1. d.pages \in Nat /\ Len(Loaded) \in Nat /\ Len(Loaded) + MaxStatements \in Nat
  BY LoadedAssumption, StatementsAssumption DEF Database
<1>2. ASSUME NEW i \in Ids, d.master[i] # None PROVE i <= Len(Loaded) + m
  <2>1. i \in Nat /\ i <= Len(Loaded) + n
    BY <1>1, <1>2 DEF Ids, Counts
  <2> QED  BY <1>1, <2>1
<1>3. 1 <= d.pages /\ d.pages <= Len(Loaded) + 1 + m
  BY <1>1 DEF Counts
<1> QED  BY <1>2, <1>3 DEF Counts

LEMMA SizesLonger ==
    ASSUME TypeOK, NEW t \in Tables, NEW n \in Nat, NEW m \in Nat, n <= m, Sizes(t, n)
    PROVE  Sizes(t, m)
<1> SUFFICES ASSUME Known(t)
             PROVE  /\ Len(memory[t].columns) <= m + 1 /\ Len(memory[t].sql) <= m + 1
                    /\ memory[t].id <= Len(Loaded) + m
  BY DEF Sizes
<1>1. memory[t] \in Definition
  BY DEF TypeOK, Known
<1>2. Len(memory[t].columns) \in Nat /\ Len(memory[t].sql) \in Nat
  BY <1>1, NamesLength DEF Definition
<1>3. memory[t].id \in Nat /\ Len(Loaded) \in Nat
  BY <1>1, LoadedAssumption, StatementsAssumption DEF Definition, Ids
<1> QED  BY <1>2, <1>3 DEF Sizes

\* Counted is kept when nothing grows faster than the number of statements done.
LEMMA CountedKept ==
    ASSUME Engine, NEW c \in Clients, DoneGrows,
           UNCHANGED memory \/ \A t \in Tables : Sizes(t, Done)',
           \A d \in Clients : d # c => run'[d] = run[d],
           Pending' \subseteq Pending \cup {c},
           c \in Pending' => Len(run'[c].newSql) <= Done' + 2,
           Counts(db', Done'),
           \A d \in Clients : tx'[d] # None => tx'[d] = tx[d] \/ Counts(tx'[d].db, Done')
    PROVE  Counted'
<1>1. Done \in Nat /\ Done' \in Nat /\ Done <= Done'
  BY DEF DoneGrows
<1>2. \A t \in Tables : Sizes(t, Done)'
  <2>1. CASE UNCHANGED memory
    <3>1. ASSUME NEW t \in Tables PROVE Sizes(t, Done')
      BY <1>1, SizesLonger DEF Engine, Counted
    <3> QED  BY <2>1, <3>1 DEF Sizes, Known
  <2> QED  BY <2>1
<1>3. ASSUME NEW d \in Clients, d \in Pending' PROVE Len(run'[d].newSql) <= Done' + 2
  <2>1. CASE d = c
    BY <1>3, <2>1
  <2>2. CASE d # c
    <3>1. Len(run[d].newSql) <= Done + 2 /\ run'[d] = run[d]
      BY <1>3, <2>2 DEF Engine, Counted
    <3>2. Len(run[d].newSql) \in Nat
      BY ProgramTyped, ProgramParts, NamesLength DEF Engine
    <3> QED  BY <1>1, <3>1, <3>2
  <2> QED  BY <2>1, <2>2
<1>4. ASSUME NEW d \in Clients, tx'[d] # None PROVE Counts(tx'[d].db, Done')
  <2>1. CASE tx'[d] = tx[d]
    <3>1. Counts(tx[d].db, Done) /\ tx[d].db \in Database
      BY <1>4, <2>1, TxTyped DEF Engine, Counted, Holds
    <3> QED  BY <1>1, <2>1, <3>1, CountsLonger
  <2> QED  BY <1>4, <2>1
<1>5. Pending' \subseteq Clients
  BY DEF Pending
<1> QED
  BY <1>2, <1>3, <1>4, <1>5 DEF Counted, DoneGrows, Holds, Counts

\* A step that leads out of the steps where the schema may still change.
LEMMA OutsidePending ==
    ASSUME Engine, NEW c \in Clients, issued' = issued,
           \A d \in Clients : d # c => run'[d] = run[d],
           run'[c].at \notin {"plan", "lock", "ddl"}
    PROVE  DoneGrows /\ Pending' \subseteq Pending /\ c \notin Pending'
<1>1. c \notin Pending'
  BY DEF Pending
<1>2. CASE c \in Pending
  BY <1>1, <1>2, LeavesPending
<1>3. CASE c \notin Pending
  BY <1>1, <1>3, StaysPending DEF Pending, Kind
<1> QED  BY <1>2, <1>3

\* The databases there are still count.
LEMMA CountsKept ==
    ASSUME Engine, DoneGrows
    PROVE  Counts(db, Done') /\ \A d \in Clients : Holds(d) => Counts(tx[d].db, Done')
<1>1. Counts(db, Done) /\ db \in Database
  BY DEF Engine, Counted, TypeOK
<1>2. ASSUME NEW d \in Clients, Holds(d) PROVE Counts(tx[d].db, Done')
  <2>1. Counts(tx[d].db, Done) /\ tx[d].db \in Database
    BY <1>2, TxTyped DEF Engine, Counted
  <2> QED  BY <2>1, CountsLonger DEF DoneGrows
<1> QED  BY <1>1, <1>2, CountsLonger DEF DoneGrows

LEMMA CountsSame ==
    ASSUME NEW x, NEW y, NEW n, x.master = y.master, x.pages = y.pages, Counts(y, n)
    PROVE  Counts(x, n)
BY DEF Counts

\* Every step but the work of a DDL statement: the catalog stays, and the
\* database is the same or the one its transaction worked on.
Quiet(c) ==
    /\ UNCHANGED memory
    /\ \A d \in Clients : d # c => run'[d] = run[d] /\ tx'[d] = tx[d]
    /\ db' = db \/ (Holds(c) /\ db' = tx[c].db)
    /\ \/ tx'[c] = None \/ tx'[c] = tx[c] \/ tx'[c].db = db
       \/ Holds(c) /\ tx'[c].db.master = tx[c].db.master /\ tx'[c].db.pages = tx[c].db.pages

QuietAction(c) ==
    \/ Issue(c) \/ Plan(c) \/ SubquerySnapshot(c) \/ Subquery(c) \/ CloneTable(c)
    \/ BeginWrite(c) \/ Run(c) \/ RunFail(c) \/ AutoCommit(c)
    \/ BeginTx(c) \/ EndTx(c) \/ LockCatalog(c) \/ DdlFail(c) \/ DdlCommit(c)

LEMMA QuietStep ==
    ASSUME Engine, NEW c \in Clients, QuietAction(c)
    PROVE  Quiet(c)
<1>0. /\ TypeOK
      /\ run[c].at \in {"commit", "ddlcommit", "run"} => Holds(c)
      /\ InTx(c) => Holds(c)
  BY DEF Engine, Locks, Holds, InTx
<1> USE DEF Quiet, At, Becomes, Goes, Returns
<1>1. CASE Issue(c)
  BY <1>0, <1>1, IssueRuns DEF Issue
<1>2. CASE Plan(c)
  BY <1>0, <1>2, PlanStep
<1>3. CASE SubquerySnapshot(c)
  BY <1>0, <1>3, SnapshotRuns DEF SubquerySnapshot
<1>4. CASE Subquery(c)
  BY <1>0, <1>4, SubqueryRuns, StepNeeds DEF Subquery
<1>5. CASE CloneTable(c)
  BY <1>0, <1>5, CloneRuns, StepNeeds DEF CloneTable
<1>6. CASE BeginWrite(c)
  BY <1>0, <1>6, BeginWriteStep DEF Begins, TxOthers
<1>7. CASE Run(c)
  BY <1>0, <1>7, RunStep, StepNeeds DEF WritesOnce, TxOthers, Run
<1>8. CASE RunFail(c)
  BY <1>0, <1>8, RunFailStep, StepNeeds DEF WritesOnce, Ends, TxOthers, RunFail
<1>9. CASE AutoCommit(c)
  BY <1>0, <1>9, AutoCommitStep DEF Ends, TxOthers, Settles
<1>10. CASE BeginTx(c)
  BY <1>0, <1>10, BeginTxStep DEF Begins, TxOthers
<1>11. CASE EndTx(c)
  BY <1>0, <1>11, EndTxStep DEF Ends, TxOthers, Settles
<1>12. CASE LockCatalog(c)
  BY <1>0, <1>12, LockStep
<1>13. CASE DdlFail(c)
  BY <1>0, <1>13, DdlFailStep
<1>14. CASE DdlCommit(c)
  BY <1>0, <1>14, DdlCommitStep DEF Ends, TxOthers, Settles
<1> QED
  BY <1>1, <1>2, <1>3, <1>4, <1>5, <1>6, <1>7, <1>8, <1>9, <1>10,
     <1>11, <1>12, <1>13, <1>14 DEF QuietAction

\* A step that is quiet, of a statement that does not or no longer change the schema.
LEMMA CountedOutside ==
    ASSUME Engine, NEW c \in Clients, Quiet(c), issued' = issued,
           run'[c].at \notin {"plan", "lock", "ddl"}
    PROVE  Counted'
<1>1. DoneGrows /\ Pending' \subseteq Pending /\ c \notin Pending'
  BY OutsidePending DEF Quiet
<1>2. Counts(db, Done') /\ \A d \in Clients : Holds(d) => Counts(tx[d].db, Done')
  BY <1>1, CountsKept
<1>3. Counts(db', Done')
  BY <1>2 DEF Quiet
<1>4. tx'[c] # None => tx'[c] = tx[c] \/ Counts(tx'[c].db, Done')
  BY <1>2, CountsSame DEF Quiet
<1> QED  BY <1>1, <1>3, <1>4, CountedKept DEF Quiet

\* A DDL statement has done its work.
LEMMA CountedWorks ==
    ASSUME Engine, NEW c \in Clients, At(c, "ddl"), Kind(c) \in Ddl, UNCHANGED <<db, issued>>,
           Goes(c, "ddlcommit"), TxOthers(c),
           Done' = Done + 1 => Counts(tx'[c].db, Done')
              /\ \A t \in Tables : Sizes(t, Done)'
    PROVE  Counted'
<1>1. /\ c \in Pending
      /\ \A d \in Clients : d # c => run'[d] = run[d]
      /\ run'[c].at = "ddlcommit"
  BY DEF At, Pending, Goes, Becomes
<1>2. DoneGrows /\ Pending' \subseteq Pending /\ Done' = Done + 1 /\ c \notin Pending'
  BY <1>1, LeavesPending DEF Pending
<1>3. Counts(db', Done')
  BY <1>2, CountsKept
<1> QED  BY <1>1, <1>2, <1>3, CountedKept DEF TxOthers

LEMMA NextIdCounts ==
    ASSUME Engine
    PROVE  NextId <= Len(Loaded) + Done + 1 /\ NextId \in Nat /\ Len(Loaded) \in Nat
<1>1. Done \in Nat /\ Len(Loaded) \in Nat
  BY DoneTyped, LoadedAssumption
<1>2. \A i \in Ids : db.master[i] # None => i <= Len(Loaded) + Done
  BY DEF Engine, Counted, Counts
<1>3. TypeOK /\ Len(Loaded) + Done \in Nat
  BY <1>1 DEF Engine
<1> QED  BY <1>1, <1>2, <1>3, NextIdFresh

\* A table of the catalog is replaced by one within the bounds.
LEMMA SizesReplaced ==
    ASSUME Engine, NEW t \in Tables, NEW d, memory' = [memory EXCEPT ![t] = d],
           Done' = Done + 1,
           d # None => /\ Len(d.columns) <= Done + 2 /\ Len(d.sql) <= Done + 2
                       /\ d.id <= Len(Loaded) + Done + 1
    PROVE  \A u \in Tables : Sizes(u, Done)'
<1>0. TypeOK /\ Done \in Nat /\ memory \in [Tables -> Definition \cup {None}]
  BY DoneTyped DEF Engine, TypeOK
<1>6. Len(Loaded) \in Nat
  BY LoadedAssumption
<1>1. ASSUME NEW u \in Tables, u # t, Known(u)'
      PROVE  /\ Len(memory'[u].columns) <= Done' + 1 /\ Len(memory'[u].sql) <= Done' + 1
             /\ memory'[u].id <= Len(Loaded) + Done'
  <2>1. memory'[u] = memory[u]
    BY <1>0, <1>1
  <2>2. Sizes(u, Done') /\ Known(u)
    <3>1. Sizes(u, Done) /\ Done <= Done' /\ Done' \in Nat
      BY <1>0 DEF Engine, Counted
    <3> QED  BY <1>0, <1>1, <2>1, <3>1, SizesLonger DEF Known
  <2> QED  BY <2>1, <2>2 DEF Sizes
<1>2. ASSUME Known(t)'
      PROVE  /\ Len(memory'[t].columns) <= Done' + 1 /\ Len(memory'[t].sql) <= Done' + 1
             /\ memory'[t].id <= Len(Loaded) + Done'
  <2>1. memory'[t] = d /\ d # None
    BY <1>0, <1>2 DEF Known
  <2>2. Done' + 1 = Done + 2 /\ Len(Loaded) + Done' = Len(Loaded) + Done + 1
    BY <1>0, <1>6
  <2> QED  BY <2>1, <2>2
<1> QED  BY <1>1, <1>2 DEF Sizes

\* A row of sqlite_master is replaced, and the file has at most one page more.
LEMMA CountsReplaced ==
    ASSUME Engine, NEW i \in Ids, NEW e \in Entry \cup {None}, NEW x \in Database,
           x.master = Put(db.master, i, e), x.pages \in {db.pages, NewRoot},
           e # None => i <= Len(Loaded) + Done + 1
    PROVE  Counts(x, Done + 1)
<1>1. Done \in Nat /\ Len(Loaded) \in Nat /\ db.master \in [Ids -> Entry \cup {None}]
      /\ db.pages \in Nat
  BY DoneTyped, LoadedAssumption DEF Engine, TypeOK, Database
<1>2. Counts(db, Done) /\ Counts(db, Done + 1)
  <2>1. Counts(db, Done) /\ db \in Database /\ Done + 1 \in Nat /\ Done <= Done + 1
    BY <1>1 DEF Engine, Counted, TypeOK
  <2> QED  BY <1>1, <2>1, CountsLonger
<1>3. ASSUME NEW j \in Ids, x.master[j] # None PROVE j <= Len(Loaded) + (Done + 1)
  <2>1. CASE j = i
    <3>1. e # None
      BY <1>1, <1>3, <2>1, PutAt
    <3> QED  BY <1>1, <2>1, <3>1
  <2>2. CASE j # i
    <3>1. db.master[j] # None
      BY <1>1, <1>3, <2>2, PutAt
    <3> QED  BY <1>2, <3>1 DEF Counts
  <2> QED  BY <2>1, <2>2
<1>4. 1 <= x.pages /\ x.pages <= Len(Loaded) + 1 + (Done + 1)
  BY <1>1, <1>2 DEF Counts, NewRoot
<1> QED  BY <1>3, <1>4 DEF Counts

LEMMA CreateCounted ==
    ASSUME Engine, NEW c \in Clients, Creates(c)
    PROVE  Counted'
<1> DEFINE t == run[c].stmt.table
           columns == <<run[c].stmt.column>>
           e == [name |-> t, root |-> NewRoot, sql |-> columns]
           d == [id |-> NextId, root |-> NewRoot, columns |-> columns, sql |-> columns]
<1>1. At(c, "ddl") /\ Kind(c) \in Ddl
  BY DEF Creates, Ddl
<1>2. t \in Tables
  <2>1. run[c].stmt \in Statement
    BY <1>1, StepNeeds DEF At
  <2> QED  BY <2>1, StatementParts
<1>3. NextId \in Ids /\ NewRoot \in Roots /\ NextId <= Len(Loaded) + Done + 1 /\ Done \in Nat
  BY <1>1, FreshIds, NextIdCounts, DoneTyped
<1>4. e \in Entry
  BY <1>2, <1>3 DEF Creates, Entry
<1>5. /\ tx'[c].db \in Database /\ tx'[c].db.master = Put(db.master, NextId, e)
      /\ tx'[c].db.pages = NewRoot /\ memory' = [memory EXCEPT ![t] = d]
      /\ Goes(c, "ddlcommit") /\ TxOthers(c) /\ UNCHANGED <<db, issued>>
  BY DEF Creates, Begins
<1>6. Len(d.columns) <= Done + 2 /\ Len(d.sql) <= Done + 2 /\ d.id <= Len(Loaded) + Done + 1
  BY <1>3
<1> HIDE DEF e, d
<1>7. ASSUME Done' = Done + 1
      PROVE  Counts(tx'[c].db, Done') /\ \A u \in Tables : Sizes(u, Done)'
  <2>1. Counts(tx'[c].db, Done + 1)
    BY <1>3, <1>4, <1>5, CountsReplaced
  <2>2. \A u \in Tables : Sizes(u, Done)'
    BY <1>2, <1>5, <1>6, <1>7, SizesReplaced
  <2> QED  BY <1>7, <2>1, <2>2
<1> QED  BY <1>1, <1>5, <1>7, CountedWorks

LEMMA DropCounted ==
    ASSUME Engine, NEW c \in Clients, Drops(c)
    PROVE  Counted'
<1> DEFINE t == run[c].stmt.table
<1>1. At(c, "ddl") /\ Kind(c) \in Ddl
  BY DEF Drops, Ddl
<1>2. t \in Tables
  <2>1. run[c].stmt \in Statement
    BY <1>1, StepNeeds DEF At
  <2> QED  BY <2>1, StatementParts
<1>5. /\ tx'[c].db \in Database
      /\ tx'[c].db.pages = db.pages /\ memory' = [memory EXCEPT ![t] = None]
      /\ Goes(c, "ddlcommit") /\ TxOthers(c) /\ UNCHANGED <<db, issued>>
  BY DEF Drops, Begins
<1>7. ASSUME Done' = Done + 1
      PROVE  Counts(tx'[c].db, Done') /\ \A u \in Tables : Sizes(u, Done)'
  <2>1. CASE Known(t)
    <3>1. memory[t].id \in Ids
      BY <1>2, <2>1 DEF Engine, TypeOK, Known, Definition
    <3>2. tx'[c].db.master = Put(db.master, memory[t].id, None)
      BY <2>1 DEF Drops
    <3> QED  BY <1>2, <1>5, <1>7, <3>1, <3>2, CountsReplaced, SizesReplaced
  <2>2. CASE ~Known(t)
    <3>1. tx'[c].db.master = db.master
      BY <2>2 DEF Drops
    <3>2. Counts(db, Done + 1)
      <4>1. Counts(db, Done) /\ db \in Database /\ Done \in Nat /\ Done + 1 \in Nat /\ Done <= Done + 1
        BY DoneTyped DEF Engine, Counted, TypeOK
      <4> QED  BY <4>1, CountsLonger
    <3> QED  BY <1>2, <1>5, <1>7, <3>1, <3>2, CountsSame, SizesReplaced
  <2> QED  BY <2>1, <2>2
<1> QED  BY <1>1, <1>5, <1>7, CountedWorks

LEMMA AlterCounted ==
    ASSUME Engine, NEW c \in Clients, Alters(c)
    PROVE  Counted'
<1> DEFINE t == run[c].stmt.table
           e == [name |-> t, root |-> memory[t].root, sql |-> run[c].newSql]
           d == [id |-> memory[t].id, root |-> memory[t].root,
                 columns |-> Append(memory[t].columns, run[c].stmt.column),
                 sql |-> run[c].newSql]
<1>1. At(c, "ddl") /\ Kind(c) = "alter" /\ Kind(c) \in Ddl
  BY DEF Alters, Ddl
<1>2. t \in Tables /\ run[c].stmt.column \in Columns
  <2>1. run[c].stmt \in Statement
    BY <1>1, StepNeeds DEF At
  <2> QED  BY <1>1, <2>1, StatementParts DEF Kind
<1>3. Known(t) /\ memory[t] \in Definition
  BY <1>2 DEF Alters, Engine, TypeOK, Known
<1>4. run[c].newSql \in Names
  <2>1. run[c].newSql # <<>> /\ TypeOK
    BY <1>1, StepNeeds DEF At
  <2> QED  BY <2>1, ProgramTyped, ProgramParts
<1>8. memory[t].id \in Ids /\ e \in Entry
  BY <1>2, <1>3, <1>4 DEF Definition, Entry
<1>5. /\ tx'[c].db \in Database /\ tx'[c].db.master = Put(db.master, memory[t].id, e)
      /\ tx'[c].db.pages = db.pages /\ memory' = [memory EXCEPT ![t] = d]
      /\ Goes(c, "ddlcommit") /\ TxOthers(c) /\ UNCHANGED <<db, issued>>
  BY DEF Alters, Begins
<1>9. Done \in Nat /\ Len(Loaded) \in Nat /\ Done + 1 <= MaxStatements
  <2>1. c \in Pending
    BY <1>1 DEF Pending, At
  <2> QED  BY <2>1, PendingCounts, LoadedAssumption
<1>10. /\ memory[t].id <= Len(Loaded) + Done /\ Len(memory[t].columns) <= Done + 1
  BY <1>2, <1>3 DEF Engine, Counted, Sizes
<1>11. Len(run[c].newSql) <= Done + 2
  <2>1. c \in Pending
    BY <1>1 DEF Pending, At
  <2> QED  BY <2>1 DEF Engine, Counted
<1>12. Len(Append(memory[t].columns, run[c].stmt.column)) <= Done + 2
  <2>1. memory[t].columns \in Names
    BY <1>3 DEF Definition
  <2>2. Len(memory[t].columns) \in Nat /\ Len(memory[t].columns) <= MaxStatements
    BY <1>9, <1>10, <2>1, NamesLength, StatementsAssumption
  <2>3. Len(Append(memory[t].columns, run[c].stmt.column)) = Len(memory[t].columns) + 1
    BY <1>2, <2>1, <2>2, NamesAppend
  <2> QED  BY <1>9, <1>10, <2>2, <2>3
<1>13. memory[t].id <= Len(Loaded) + Done + 1
  <2>1. memory[t].id \in Nat
    BY <1>8, <1>9, StatementsAssumption DEF Ids
  <2> QED  BY <1>9, <1>10, <2>1
<1>6. Len(d.columns) <= Done + 2 /\ Len(d.sql) <= Done + 2 /\ d.id <= Len(Loaded) + Done + 1
  BY <1>11, <1>12, <1>13
<1> HIDE DEF e, d
<1>7. ASSUME Done' = Done + 1
      PROVE  Counts(tx'[c].db, Done') /\ \A u \in Tables : Sizes(u, Done)'
  <2>1. Counts(tx'[c].db, Done + 1)
    BY <1>5, <1>8, <1>13, CountsReplaced
  <2>2. \A u \in Tables : Sizes(u, Done)'
    BY <1>2, <1>5, <1>6, <1>7, SizesReplaced
  <2> QED  BY <1>7, <2>1, <2>2
<1> QED  BY <1>1, <1>5, <1>7, CountedWorks

\* There is an id and a root for each table to come.
LEMMA CountedStep ==
    ASSUME Engine, NEW c \in Clients, ClientStep(c)
    PROVE  Counted'
<1>0. TypeOK
  BY DEF Engine
<1>1. CASE Issue(c)
  <2>1. /\ run[c].at = "idle" /\ issued' = issued + 1
        /\ UNCHANGED <<memory, db, tx>>
    BY <1>1 DEF Issue, At
  <2>2. Sound(run[c])
    BY DEF Engine, Programs
  <2>3. /\ \A d \in Clients : d # c => run'[d] = run[d]
        /\ run'[c].newSql = <<>>
    BY <1>0, <1>1, <2>1, <2>2, IssueRuns DEF Becomes, Sound
  <2>4. DoneGrows /\ Pending' \subseteq Pending \cup {c}
    BY <2>1, <2>3, ComesPending
  <2>5. Len(run'[c].newSql) <= Done' + 2
    <3>1. Len(run'[c].newSql) = 0 /\ Done' \in Nat
      BY <2>3, <2>4 DEF DoneGrows
    <3>2. \A n \in Nat : 0 <= n + 2
      OBVIOUS
    <3> QED  BY <3>1, <3>2, Zenon
  <2>6. Counts(db', Done')
    BY <2>1, <2>4, CountsKept
  <2> QED  BY <2>1, <2>3, <2>4, <2>5, <2>6, CountedKept
<1>2. CASE Plan(c)
  <2>1. At(c, "plan") /\ UNCHANGED <<memory, db, tx, catalog, gate, issued, written>>
    BY <1>2, PlanStep
  <2>2. CASE Returns(c) \/ Goes(c, "clone") \/ Goes(c, "snapshot")
    <3>1. run'[c].at \notin {"plan", "lock", "ddl"}
      BY <2>2 DEF Becomes, Goes, Returns
    <3> QED  BY <1>2, <2>1, <3>1, QuietStep, CountedOutside DEF QuietAction
  <2>3. ASSUME NEW sql \in Names \cup {<<>>}, Kind(c) \in Ddl, Len(sql) <= Done + 2,
               Becomes(c, "lock", run[c].stmt, sql, run[c].snap, run[c].value,
                       run[c].table, run[c].since)
        PROVE  Counted'
    <3>1. /\ \A d \in Clients : d # c => run'[d] = run[d]
          /\ run'[c].at = "lock" /\ run'[c].stmt = run[c].stmt /\ run'[c].newSql = sql
      BY <2>3 DEF Becomes
    <3>2. DoneGrows /\ Pending' = Pending
      BY <2>1, <2>3, <3>1, StaysPending DEF At, Kind
    <3>3. Done' = Done
      BY <2>1, <3>2 DEF Done
    <3>4. Counts(db', Done')
      BY <2>1, <3>2, CountsKept
    <3> QED  BY <2>1, <2>3, <3>1, <3>2, <3>3, <3>4, CountedKept
  <2> QED  BY <1>2, <2>2, <2>3, PlanStep
<1>3. CASE SubquerySnapshot(c)
  <2>1. issued' = issued /\ run'[c].at \notin {"plan", "lock", "ddl"}
    BY <1>0, <1>3, SnapshotRuns DEF At, Becomes, Goes, Returns, SubquerySnapshot
  <2> QED  BY <1>3, <2>1, QuietStep, CountedOutside DEF QuietAction
<1>4. CASE Subquery(c)
  <2>1. issued' = issued /\ run'[c].at \notin {"plan", "lock", "ddl"}
    BY <1>0, <1>4, SubqueryRuns, StepNeeds DEF At, Becomes, Goes, Returns, Subquery
  <2> QED  BY <1>4, <2>1, QuietStep, CountedOutside DEF QuietAction
<1>5. CASE CloneTable(c)
  <2>1. issued' = issued /\ run'[c].at \notin {"plan", "lock", "ddl"}
    BY <1>0, <1>5, CloneRuns, StepNeeds DEF At, Becomes, Goes, Returns, CloneTable
  <2> QED  BY <1>5, <2>1, QuietStep, CountedOutside DEF QuietAction
<1>6. CASE BeginWrite(c)
  <2>1. issued' = issued /\ run'[c].at \notin {"plan", "lock", "ddl"}
    BY <1>0, <1>6, BeginWriteStep DEF At, Becomes, Goes, Returns
  <2> QED  BY <1>6, <2>1, QuietStep, CountedOutside DEF QuietAction
<1>7. CASE Run(c)
  <2>1. issued' = issued /\ run'[c].at \notin {"plan", "lock", "ddl"}
    BY <1>0, <1>7, RunStep, StepNeeds DEF At, Becomes, Goes, Returns, Run
  <2> QED  BY <1>7, <2>1, QuietStep, CountedOutside DEF QuietAction
<1>8. CASE RunFail(c)
  <2>1. issued' = issued /\ run'[c].at \notin {"plan", "lock", "ddl"}
    BY <1>0, <1>8, RunFailStep, StepNeeds DEF At, Becomes, Goes, Returns, RunFail
  <2> QED  BY <1>8, <2>1, QuietStep, CountedOutside DEF QuietAction
<1>9. CASE AutoCommit(c)
  <2>1. issued' = issued /\ run'[c].at \notin {"plan", "lock", "ddl"}
    BY <1>0, <1>9, AutoCommitStep DEF At, Becomes, Goes, Returns
  <2> QED  BY <1>9, <2>1, QuietStep, CountedOutside DEF QuietAction
<1>10. CASE BeginTx(c)
  <2>1. issued' = issued /\ run'[c].at \notin {"plan", "lock", "ddl"}
    BY <1>0, <1>10, BeginTxStep DEF At, Becomes, Goes, Returns
  <2> QED  BY <1>10, <2>1, QuietStep, CountedOutside DEF QuietAction
<1>11. CASE EndTx(c)
  <2>1. issued' = issued /\ run'[c].at \notin {"plan", "lock", "ddl"}
    BY <1>0, <1>11, EndTxStep DEF At, Becomes, Goes, Returns
  <2> QED  BY <1>11, <2>1, QuietStep, CountedOutside DEF QuietAction
<1>12. CASE LockCatalog(c)
  <2>1. At(c, "lock") /\ UNCHANGED <<memory, db, tx, gate, issued, written>>
    BY <1>0, <1>12, LockStep
  <2>2. CASE Returns(c)
    <3>1. run'[c].at \notin {"plan", "lock", "ddl"}
      BY <2>2 DEF Becomes, Returns
    <3> QED  BY <1>12, <2>1, <3>1, QuietStep, CountedOutside DEF QuietAction
  <2>3. CASE Goes(c, "ddl")
    <3>1. /\ \A d \in Clients : d # c => run'[d] = run[d]
          /\ run'[c].at = "ddl" /\ run'[c].stmt = run[c].stmt /\ run'[c].newSql = run[c].newSql
      BY <2>3 DEF Becomes, Goes
    <3>2. DoneGrows /\ Pending' = Pending
      BY <2>1, <3>1, StaysPending DEF At
    <3>3. Done' = Done
      BY <2>1, <3>2 DEF Done
    <3>4. Counts(db', Done')
      BY <2>1, <3>2, CountsKept
    <3>5. c \in Pending => Len(run[c].newSql) <= Done + 2
      BY DEF Engine, Counted
    <3> QED  BY <2>1, <3>1, <3>2, <3>3, <3>4, <3>5, CountedKept
  <2> QED  BY <1>0, <1>12, <2>2, <2>3, LockStep
<1>13. CASE CreateTable(c)
  BY <1>13, CreateStep, CreateCounted
<1>14. CASE DropTable(c)
  BY <1>14, DropStep, DropCounted
<1>15. CASE AlterTable(c)
  BY <1>15, AlterStep, AlterCounted
<1>16. CASE DdlFail(c)
  <2>1. issued' = issued /\ run'[c].at \notin {"plan", "lock", "ddl"}
    BY <1>0, <1>16, DdlFailStep DEF At, Becomes, Goes, Returns
  <2> QED  BY <1>16, <2>1, QuietStep, CountedOutside DEF QuietAction
<1>17. CASE DdlCommit(c)
  <2>1. issued' = issued /\ run'[c].at \notin {"plan", "lock", "ddl"}
    BY <1>0, <1>17, DdlCommitStep DEF At, Becomes, Goes, Returns
  <2> QED  BY <1>17, <2>1, QuietStep, CountedOutside DEF QuietAction
<1> QED
  BY <1>1, <1>2, <1>3, <1>4, <1>5, <1>6, <1>7, <1>8, <1>9, <1>10, <1>11, <1>12, <1>13,
     <1>14, <1>15, <1>16, <1>17 DEF ClientStep

\* The databases and the catalog only matter by what these speak of.
LEMMA RootsSame ==
    ASSUME NEW x, NEW y, x.master = y.master, x.pages = y.pages, RootsDiffer(y)
    PROVE  RootsDiffer(x)
BY DEF RootsDiffer

LEMMA AgreesSame ==
    ASSUME NEW m, NEW x, NEW y, x.master = y.master, Agrees(m, y)
    PROVE  Agrees(m, x)
BY DEF Agrees

\* A quiet step keeps the catalog and the file together: a commit that succeeds
\* brings to the file what the catalog has already.
LEMMA FollowsKept ==
    ASSUME Engine, CatalogFollows, NEW c \in Clients, Quiet(c),
           run[c].at = "ddlcommit" => db' = tx[c].db,
           run'[c].at # "ddlcommit",
           run'[c].at = "ddl" /\ run'[c].stmt.kind = "create" => ~Known(run'[c].stmt.table)
    PROVE  CatalogFollows'
<1>1. RootsDiffer(db) /\ \A d \in Clients : Holds(d) => RootsDiffer(tx[d].db)
  BY DEF CatalogFollows
<1>2. RootsDiffer(db')
  BY <1>1 DEF Quiet
<1>3. ASSUME NEW d \in Clients, tx'[d] # None PROVE RootsDiffer(tx'[d].db)
  <2>1. CASE d = c
    BY <1>1, <1>3, <2>1, RootsSame DEF Quiet, Holds
  <2>2. CASE d # c
    BY <1>1, <1>3, <2>2 DEF Quiet, Holds
  <2> QED  BY <2>1, <2>2
<1>4. ASSUME NEW d \in Clients, run'[d].at = "ddlcommit" PROVE Agrees(memory', tx'[d].db)
  <2>1. /\ d # c /\ run'[d] = run[d] /\ tx'[d] = tx[d] /\ memory' = memory
    BY <1>4 DEF Quiet
  <2>2. Agrees(memory, tx[d].db)
    BY <1>4, <2>1 DEF CatalogFollows
  <2> QED  BY <2>1, <2>2
<1>5. ASSUME NEW d \in Clients, run'[d].at = "ddl", run'[d].stmt.kind = "create"
      PROVE  memory'[run'[d].stmt.table] = None
  BY <1>5 DEF Quiet, CatalogFollows, Kind, Known
<1>6. ASSUME \A d \in Clients : run'[d].at # "ddlcommit" PROVE Agrees(memory', db')
  <2>1. CASE run[c].at = "ddlcommit"
    BY <2>1 DEF Quiet, CatalogFollows
  <2>2. CASE run[c].at # "ddlcommit"
    <3>1. Agrees(memory, db)
      BY <1>6, <2>2 DEF Quiet, CatalogFollows
    <3>2. db'.master = db.master
      BY <2>2 DEF Quiet, Engine, Transactions
    <3> QED  BY <3>1, <3>2, AgreesSame DEF Quiet
  <2> QED  BY <2>1, <2>2
<1> QED  BY <1>2, <1>3, <1>4, <1>5, <1>6 DEF CatalogFollows, Holds, Kind, Known

\* The client that does DDL is alone: it has the catalog, and nobody has the gate.
LEMMA DdlAlone ==
    ASSUME Engine, NEW c \in Clients, At(c, "ddl")
    PROVE  /\ \A d \in Clients : d # c => run[d].at \notin {"ddl", "ddlcommit"}
           /\ CatalogFollows => Agrees(memory, db)
           /\ gate = None => \A d \in Clients : ~Holds(d)
<1>1. \A d \in Clients : d # c => run[d].at \notin {"ddl", "ddlcommit"}
  BY DEF Engine, Locks, At
<1>2. gate = None => \A d \in Clients : ~Holds(d)
  BY NoneAssumption DEF Engine, Locks
<1> QED  BY <1>1, <1>2 DEF CatalogFollows, At

\* It leaves the catalog in step with its transaction.
LEMMA FollowsWorks ==
    ASSUME Engine, CatalogFollows, NEW c \in Clients, At(c, "ddl"),
           Begins(c, tx'[c].db, FALSE), Goes(c, "ddlcommit"), UNCHANGED db,
           Agrees(memory', tx'[c].db), RootsDiffer(tx'[c].db)
    PROVE  CatalogFollows'
<1>1. /\ gate = None /\ \A d \in Clients : d # c => run'[d] = run[d] /\ tx'[d] = tx[d]
      /\ run'[c].at = "ddlcommit"
  BY DEF Begins, TxOthers, Goes, Becomes
<1>2. \A d \in Clients : d # c => /\ run'[d].at \notin {"ddl", "ddlcommit"}
                                  /\ tx'[d] = None
  BY <1>1, DdlAlone DEF Holds
<1>3. RootsDiffer(db')
  BY DEF CatalogFollows
<1> QED  BY <1>1, <1>2, <1>3 DEF CatalogFollows, Holds, Kind

LEMMA CreateFollows ==
    ASSUME Engine, CatalogFollows, NEW c \in Clients, Creates(c)
    PROVE  CatalogFollows'
<1> DEFINE t == run[c].stmt.table
           columns == <<run[c].stmt.column>>
           e == [name |-> t, root |-> NewRoot, sql |-> columns]
           d == [id |-> NextId, root |-> NewRoot, columns |-> columns, sql |-> columns]
           x == tx'[c].db
<1>1. /\ At(c, "ddl") /\ Kind(c) = "create" /\ Kind(c) \in Ddl /\ UNCHANGED db
      /\ Begins(c, x, FALSE) /\ Goes(c, "ddlcommit") /\ columns \in Names
  BY DEF Creates, Ddl
<1>2. t \in Tables
  <2>1. run[c].stmt \in Statement
    BY <1>1, StepNeeds DEF At
  <2> QED  BY <2>1, StatementParts
<1>3. NextId \in Ids /\ NewRoot \in Roots
  BY <1>1, FreshIds
<1>4. e \in Entry
  BY <1>1, <1>2, <1>3 DEF Entry
<1>5. x.master = Put(db.master, NextId, e) /\ x.pages = NewRoot
      /\ memory' = [memory EXCEPT ![t] = d]
  BY DEF Creates
<1>6. d # None /\ e # None
  BY <1>1, <1>3, <1>4, NoneAssumption DEF Definition
<1>7. e.name = t /\ e.root = NewRoot /\ d.id = NextId /\ d.root = NewRoot
  OBVIOUS
<1> HIDE DEF e, d, x, columns
<1>8. /\ db.master \in [Ids -> Entry \cup {None}] /\ memory \in [Tables -> Definition \cup {None}]
      /\ db.pages \in Nat /\ TypeOK
  BY DEF Engine, TypeOK, Database
<1>9. /\ x.master[NextId] = e /\ \A j \in Ids : j # NextId => x.master[j] = db.master[j]
      /\ memory'[t] = d /\ \A u \in Tables : u # t => memory'[u] = memory[u]
  BY <1>2, <1>3, <1>4, <1>5, <1>8, PutAt
<1>10. Agrees(memory, db) /\ memory[t] = None /\ RootsDiffer(db)
  BY <1>1, DdlAlone DEF CatalogFollows, Known, At
<1>11. db.master[NextId] = None
  <2>1. \A i \in Ids : db.master[i] # None => i < NextId
    BY <1>8, NextIdFresh
  <2>2. NextId \in Int
    BY <1>8, NextIdFresh
  <2> QED  BY <1>3, <2>1, <2>2
<1>12. Agrees(memory', x)
  <2>1. ASSUME NEW u \in Tables, memory'[u] # None
        PROVE  /\ x.master[memory'[u].id] # None /\ x.master[memory'[u].id].name = u
               /\ x.master[memory'[u].id].root = memory'[u].root
    <3>1. CASE u = t
      BY <1>6, <1>7, <1>9, <3>1
    <3>2. CASE u # t
      <4>1. memory'[u] = memory[u] /\ memory[u].id \in Ids
        BY <1>8, <1>9, <2>1, <3>2 DEF Definition
      <4>2. memory[u].id # NextId
        BY <1>10, <1>11, <2>1, <4>1 DEF Agrees
      <4> QED  BY <1>9, <1>10, <2>1, <4>1, <4>2 DEF Agrees
    <3> QED  BY <3>1, <3>2
  <2>2. ASSUME NEW i \in Ids, x.master[i] # None
        PROVE  memory'[x.master[i].name] # None /\ memory'[x.master[i].name].id = i
    <3>1. CASE i = NextId
      BY <1>6, <1>7, <1>9, <3>1
    <3>2. CASE i # NextId
      <4>1. x.master[i] = db.master[i] /\ db.master[i].name \in Tables
        BY <1>8, <1>9, <2>2, <3>2 DEF Entry
      <4>2. memory[db.master[i].name] # None /\ memory[db.master[i].name].id = i
        BY <1>10, <2>2, <4>1 DEF Agrees
      <4>3. db.master[i].name # t
        BY <1>10, <4>2
      <4> QED  BY <1>9, <4>1, <4>2, <4>3
    <3> QED  BY <3>1, <3>2
  <2> QED  BY <2>1, <2>2 DEF Agrees
<1>13. RootsDiffer(x)
  <2>0. NewRoot = db.pages + 1
    BY DEF NewRoot
  <2>1. ASSUME NEW i \in Ids, x.master[i] # None
        PROVE  /\ i # NextId => x.master[i].root <= db.pages /\ x.master[i] = db.master[i]
               /\ i = NextId => x.master[i].root = NewRoot
    BY <1>7, <1>9, <1>10, <2>1 DEF RootsDiffer
  <2>2. ASSUME NEW i \in Ids, x.master[i] # None PROVE x.master[i].root \in Int
    <3>1. x.master[i] \in Entry /\ NewRoot \in Int
      BY <1>3, <1>4, <1>8, <1>9, <2>0, <2>2
    <3>2. Roots \subseteq Int
      BY LoadedAssumption, StatementsAssumption DEF Roots
    <3> QED  BY <3>1, <3>2 DEF Entry
  <2>3. ASSUME NEW i \in Ids, x.master[i] # None PROVE x.master[i].root <= x.pages
    BY <1>5, <1>8, <2>0, <2>1, <2>2, <2>3
  <2>4. ASSUME NEW i \in Ids, NEW j \in Ids, x.master[i] # None, x.master[j] # None,
               x.master[i].root = x.master[j].root
        PROVE  i = j
    <3>1. CASE i = NextId /\ j # NextId
      BY <1>8, <2>0, <2>1, <2>2, <2>4, <3>1
    <3>2. CASE i # NextId /\ j = NextId
      BY <1>8, <2>0, <2>1, <2>2, <2>4, <3>2
    <3>3. CASE i # NextId /\ j # NextId
      BY <1>10, <2>1, <2>4, <3>3 DEF RootsDiffer
    <3> QED  BY <3>1, <3>2, <3>3
  <2> QED  BY <2>3, <2>4 DEF RootsDiffer
<1> QED  BY <1>1, <1>12, <1>13, FollowsWorks DEF x

LEMMA DropFollows ==
    ASSUME Engine, CatalogFollows, NEW c \in Clients, Drops(c)
    PROVE  CatalogFollows'
<1> DEFINE t == run[c].stmt.table
           i0 == memory[t].id
           x == tx'[c].db
<1>1. /\ At(c, "ddl") /\ UNCHANGED db /\ Begins(c, x, FALSE) /\ Goes(c, "ddlcommit")
      /\ x.pages = db.pages /\ memory' = [memory EXCEPT ![t] = None]
      /\ IF Known(t) THEN x.master = Put(db.master, i0, None) ELSE x.master = db.master
  BY DEF Drops
<1>2. t \in Tables
  <2>1. run[c].stmt \in Statement
    BY <1>1, StepNeeds DEF At
  <2> QED  BY <2>1, StatementParts
<1> HIDE DEF t, x
<1>8. /\ db.master \in [Ids -> Entry \cup {None}] /\ memory \in [Tables -> Definition \cup {None}]
  BY DEF Engine, TypeOK, Database
<1>9. memory'[t] = None /\ \A u \in Tables : u # t => memory'[u] = memory[u]
  BY <1>1, <1>2, <1>8
<1>10. Agrees(memory, db) /\ RootsDiffer(db)
  BY <1>1, DdlAlone DEF CatalogFollows
<1>11. /\ \A i \in Ids : x.master[i] # None =>
               db.master[i] # None /\ x.master[i] = db.master[i] /\ db.master[i].name # t
       /\ \A u \in Tables : u # t /\ memory[u] # None => x.master[memory[u].id] = db.master[memory[u].id]
  <2>1. CASE Known(t)
    <3>1. i0 \in Ids /\ db.master[i0].name = t /\ \A u \in Tables : memory[u] # None => memory[u].id \in Ids
      BY <1>2, <1>8, <1>10, <2>1 DEF Known, Definition, Agrees
    <3>2. x.master[i0] = None /\ \A i \in Ids : i # i0 => x.master[i] = db.master[i]
      BY <1>1, <1>8, <2>1, <3>1, PutAt
    <3>3. \A i \in Ids : db.master[i] # None /\ db.master[i].name = t => i = i0
      BY <1>10 DEF Agrees
    <3>4. \A u \in Tables : u # t /\ memory[u] # None => memory[u].id # i0
      BY <1>10, <3>1 DEF Agrees
    <3> QED  BY <3>1, <3>2, <3>3, <3>4
  <2>2. CASE ~Known(t)
    BY <1>1, <1>10, <2>2 DEF Known, Agrees
  <2> QED  BY <2>1, <2>2
<1>12. Agrees(memory', x)
  <2>1. ASSUME NEW u \in Tables, memory'[u] # None
        PROVE  /\ x.master[memory'[u].id] # None /\ x.master[memory'[u].id].name = u
               /\ x.master[memory'[u].id].root = memory'[u].root
    BY <1>9, <1>10, <1>11, <2>1 DEF Agrees
  <2>2. ASSUME NEW i \in Ids, x.master[i] # None
        PROVE  memory'[x.master[i].name] # None /\ memory'[x.master[i].name].id = i
    <3>1. db.master[i].name \in Tables
      BY <1>8, <1>11, <2>2 DEF Entry
    <3> QED  BY <1>9, <1>10, <1>11, <2>2, <3>1 DEF Agrees
  <2> QED  BY <2>1, <2>2 DEF Agrees
<1>13. RootsDiffer(x)
  BY <1>1, <1>10, <1>11 DEF RootsDiffer
<1> QED  BY <1>1, <1>12, <1>13, FollowsWorks DEF x

LEMMA AlterFollows ==
    ASSUME Engine, CatalogFollows, NEW c \in Clients, Alters(c)
    PROVE  CatalogFollows'
<1> DEFINE t == run[c].stmt.table
           i0 == memory[t].id
           e == [name |-> t, root |-> memory[t].root, sql |-> run[c].newSql]
           d == Altered(c)
           x == tx'[c].db
<1>1. /\ At(c, "ddl") /\ UNCHANGED db /\ Begins(c, x, FALSE) /\ Goes(c, "ddlcommit")
      /\ x.pages = db.pages /\ memory' = [memory EXCEPT ![t] = d]
      /\ Known(t) /\ x.master = Put(db.master, i0, e)
  BY DEF Alters, Altered
<1>2. t \in Tables /\ run[c].newSql \in Names
  <2>1. run[c].stmt \in Statement /\ run[c].newSql # <<>> /\ TypeOK
    BY <1>1, StepNeeds DEF At, Alters
  <2> QED  BY <2>1, StatementParts, ProgramTyped, ProgramParts
<1>8. db.master \in [Ids -> Entry \cup {None}] /\ memory \in [Tables -> Definition \cup {None}]
  BY DEF Engine, TypeOK, Database
<1>3. i0 \in Ids /\ e \in Entry /\ d \in Definition
  BY <1>1, <1>2, <1>8, AlteredDefinition DEF Known, Definition, Entry
<1>6. e # None /\ d # None
  BY <1>3, NoneAssumption
<1>7. e.name = t /\ e.root = memory[t].root /\ d.id = i0 /\ d.root = memory[t].root
  BY DEF Altered
<1>10. /\ Agrees(memory, db) /\ RootsDiffer(db) /\ memory[t] # None
       /\ db.master[i0] # None /\ db.master[i0].name = t /\ db.master[i0].root = e.root
  BY <1>1, <1>2, DdlAlone DEF CatalogFollows, Known, Agrees
<1> HIDE DEF e, d, x, t, i0
<1>9. /\ x.master[i0] = e /\ \A j \in Ids : j # i0 => x.master[j] = db.master[j]
      /\ memory'[t] = d /\ \A u \in Tables : u # t => memory'[u] = memory[u]
  BY <1>1, <1>2, <1>3, <1>8, PutAt
<1>11. \A i \in Ids : /\ x.master[i] # None <=> db.master[i] # None
                      /\ db.master[i] # None => /\ x.master[i].name = db.master[i].name
                                                /\ x.master[i].root = db.master[i].root
  BY <1>6, <1>7, <1>9, <1>10
<1>12. \A u \in Tables : /\ memory'[u] # None <=> memory[u] # None
                         /\ memory[u] # None => /\ memory'[u].id = memory[u].id
                                                /\ memory'[u].root = memory[u].root
  <2>1. memory[t].id = i0
    BY DEF i0
  <2> QED  BY <1>6, <1>7, <1>9, <1>10, <2>1
<1>13. Agrees(memory', x)
  <2>1. ASSUME NEW u \in Tables, memory'[u] # None
        PROVE  /\ x.master[memory'[u].id] # None /\ x.master[memory'[u].id].name = u
               /\ x.master[memory'[u].id].root = memory'[u].root
    <3>1. memory[u] # None /\ memory[u].id \in Ids /\ memory'[u].id = memory[u].id
          /\ memory'[u].root = memory[u].root
      BY <1>8, <1>12, <2>1 DEF Definition
    <3> QED  BY <1>10, <1>11, <3>1 DEF Agrees
  <2>2. ASSUME NEW i \in Ids, x.master[i] # None
        PROVE  memory'[x.master[i].name] # None /\ memory'[x.master[i].name].id = i
    <3>1. db.master[i] # None /\ db.master[i].name \in Tables
          /\ x.master[i].name = db.master[i].name
      BY <1>8, <1>11, <2>2 DEF Entry
    <3> QED  BY <1>10, <1>12, <3>1 DEF Agrees
  <2> QED  BY <2>1, <2>2 DEF Agrees
<1>14. RootsDiffer(x)
  BY <1>1, <1>10, <1>11 DEF RootsDiffer
<1> QED  BY <1>1, <1>13, <1>14, FollowsWorks DEF x

\* As long as no commit of DDL fails, the catalog follows the file.
LEMMA CatalogFollowsStep ==
    ASSUME Engine, CatalogFollows, ~DdlCommitsFail, NEW c \in Clients, ClientStep(c)
    PROVE  CatalogFollows'
<1>1. CASE CreateTable(c)
  BY <1>1, CreateStep, CreateFollows
<1>2. CASE DropTable(c)
  BY <1>2, DropStep, DropFollows
<1>3. CASE AlterTable(c)
  BY <1>3, AlterStep, AlterFollows
<1>4. CASE QuietAction(c)
  <2>0. TypeOK
    BY DEF Engine
  <2>1. run[c].at = "ddlcommit" => db' = tx[c].db
    BY <1>4, <2>0, DdlCommitStep
       DEF QuietAction, Issue, Plan, SubquerySnapshot, Subquery, CloneTable, BeginWrite, Run,
           RunFail, AutoCommit, BeginTx, EndTx, LockCatalog, DdlFail, At
  <2>2. /\ run'[c].at # "ddlcommit"
        /\ run'[c].at = "ddl" /\ run'[c].stmt.kind = "create"
              => LockCatalog(c) /\ ~Known(run'[c].stmt.table)
    <3>1. CASE LockCatalog(c)
      BY <2>0, <3>1, LockStep DEF Becomes, Goes, Returns, Kind
    <3>2. CASE Issue(c) \/ Plan(c) \/ SubquerySnapshot(c)
      BY <2>0, <3>2, IssueRuns, PlanStep, SnapshotRuns DEF Becomes, Goes, Returns
    <3>3. CASE Subquery(c)
      BY <2>0, <3>3, StepNeeds, SubqueryRuns DEF Becomes, Returns, Subquery, At
    <3>4. CASE CloneTable(c)
      BY <2>0, <3>4, StepNeeds, CloneRuns DEF Becomes, Returns, CloneTable, At
    <3>5. CASE BeginWrite(c) \/ AutoCommit(c) \/ BeginTx(c)
      BY <2>0, <3>5, BeginWriteStep, AutoCommitStep, BeginTxStep DEF Becomes, Goes, Returns
    <3>6. CASE Run(c)
      BY <2>0, <3>6, StepNeeds, RunStep DEF Becomes, Goes, Returns, Run, At
    <3>7. CASE RunFail(c)
      BY <2>0, <3>7, StepNeeds, RunFailStep DEF Becomes, Returns, RunFail, At
    <3>8. CASE EndTx(c)
      BY <2>0, <3>8, EndTxStep DEF At
    <3>9. CASE DdlFail(c) \/ DdlCommit(c)
      BY <2>0, <3>9, DdlFailStep, DdlCommitStep DEF Becomes, Returns
    <3> QED
      BY <1>4, <3>1, <3>2, <3>3, <3>4, <3>5, <3>6, <3>7, <3>8, <3>9 DEF QuietAction
  <2> QED  BY <1>4, <2>1, <2>2, QuietStep, FollowsKept
<1> QED  BY <1>1, <1>2, <1>3, <1>4 DEF ClientStep, QuietAction

\* What Copies says of one program is kept by a quiet step.
LEMMA CopyKept ==
    ASSUME Engine, NEW c \in Clients, Quiet(c), NEW p \in Program, p.table # None,
           p.table.root <= db.pages, OwnRoot(p, db),
           \A d \in Clients : Holds(d) => OwnRoot(p, tx[d].db)
    PROVE  /\ p.table.root <= db'.pages /\ OwnRoot(p, db')
           /\ \A d \in Clients : tx'[d] # None => OwnRoot(p, tx'[d].db)
<1>1. p.table.root <= db'.pages
  <2>1. p.table \in Definition /\ Roots \subseteq Int
    BY ProgramParts, LoadedAssumption, StatementsAssumption DEF Roots
  <2>2. p.table.root \in Int
    BY <2>1 DEF Definition
  <2>3. db.pages \in Nat /\ (Holds(c) => tx[c].db.pages \in Nat /\ db.pages <= tx[c].db.pages)
    BY TxTyped DEF Engine, TypeOK, Database, Transactions
  <2> QED  BY <2>2, <2>3 DEF Quiet
<1>2. OwnRoot(p, db')
  BY DEF Quiet
<1>3. ASSUME NEW d \in Clients, tx'[d] # None PROVE OwnRoot(p, tx'[d].db)
  <2>1. CASE d = c
    BY <1>3, <2>1 DEF Quiet, Holds, OwnRoot
  <2>2. CASE d # c
    BY <1>3, <2>2 DEF Quiet, Holds
  <2> QED  BY <2>1, <2>2
<1> QED  BY <1>1, <1>2, <1>3

\* A definition copied from the catalog while nobody executes DDL.
LEMMA CopyTaken ==
    ASSUME Engine, CatalogFollows, catalog = None, NEW p, p.stmt.table \in Tables,
           memory[p.stmt.table] # None, p.table = memory[p.stmt.table]
    PROVE  /\ p.table.root <= db.pages /\ OwnRoot(p, db)
           /\ \A d \in Clients : Holds(d) => OwnRoot(p, tx[d].db)
<1> DEFINE t == p.stmt.table
           i0 == memory[t].id
<1>1. \A d \in Clients : run[d].at # "ddlcommit"
  BY NoneAssumption DEF Engine, Locks
<1>2. Agrees(memory, db) /\ RootsDiffer(db)
  BY <1>1 DEF CatalogFollows
<1>3. /\ i0 \in Ids /\ db.master[i0] # None
      /\ db.master[i0].name = t /\ db.master[i0].root = p.table.root
  BY <1>2 DEF Agrees, Engine, TypeOK, Definition
<1>4. p.table.root <= db.pages
  BY <1>2, <1>3 DEF RootsDiffer
<1>5. OwnRoot(p, db)
  BY <1>2, <1>3 DEF RootsDiffer, OwnRoot
<1>6. ASSUME NEW d \in Clients, Holds(d) PROVE OwnRoot(p, tx[d].db)
  <2>1. tx[d].db.master = db.master
    BY <1>1, <1>6 DEF Engine, Transactions
  <2> QED  BY <1>5, <2>1 DEF OwnRoot
<1> QED  BY <1>4, <1>5, <1>6

\* DDL gives no table the root of another: the fresh root lies beyond the file
\* that every copy was taken from, and ALTER TABLE keeps its own.
LEMMA CopyWorks ==
    ASSUME Engine, CatalogFollows, NEW c \in Clients, Creates(c) \/ Drops(c) \/ Alters(c),
           NEW p \in Program, p.table # None,
           p.table.root <= db.pages, OwnRoot(p, db)
    PROVE  /\ p.table.root <= db'.pages /\ OwnRoot(p, db')
           /\ \A d \in Clients : tx'[d] # None => OwnRoot(p, tx'[d].db)
<1> DEFINE t == run[c].stmt.table
           x == tx'[c].db
<1>1. TypeOK /\ db.master \in [Ids -> Entry \cup {None}] /\ db.pages \in Nat
  BY DEF Engine, TypeOK, Database
<1>2. /\ At(c, "ddl") /\ Begins(c, x, FALSE) /\ Goes(c, "ddlcommit") /\ UNCHANGED db
  BY <1>1, DdlWorks
<1>3. gate = None /\ \A d \in Clients : d # c => tx'[d] = tx[d]
  BY <1>2 DEF Begins, TxOthers
<1>4. \A d \in Clients : d # c => tx'[d] = None
  BY <1>2, <1>3, DdlAlone DEF Holds
<1>5. Agrees(memory, db)
  BY <1>2, DdlAlone
<1>6. t \in Tables
  <2>1. run[c].stmt \in Statement
    BY <1>2, StepNeeds DEF At
  <2> QED  BY <2>1, StatementParts
<1>7. p.table.root \in Int
  <2>1. p.table \in Definition /\ Roots \subseteq Int
    BY ProgramParts, LoadedAssumption, StatementsAssumption DEF Roots
  <2> QED  BY <2>1 DEF Definition
<1> HIDE DEF t, x
<1>8. OwnRoot(p, x)
  <2>1. CASE Creates(c)
    <3> DEFINE e == [name |-> t, root |-> NewRoot, sql |-> <<run[c].stmt.column>>]
    <3>1. NextId \in Ids /\ NewRoot \in Roots
      BY <1>2, <2>1, FreshIds DEF Creates, Ddl
    <3>2. e \in Entry /\ e.root = db.pages + 1
      BY <1>6, <2>1, <3>1 DEF Creates, Entry, NewRoot
    <3>3. x.master = Put(db.master, NextId, e)
      BY <2>1 DEF Creates, x, t
    <3> HIDE DEF e
    <3>4. x.master[NextId] = e /\ \A j \in Ids : j # NextId => x.master[j] = db.master[j]
      BY <1>1, <3>1, <3>2, <3>3, PutAt
    <3>5. e.root # p.table.root
      BY <1>1, <1>7, <3>2
    <3> QED  BY <3>4, <3>5 DEF OwnRoot
  <2>2. CASE Drops(c)
    <3>1. CASE memory[t] # None
      <4>1. x.master = Put(db.master, memory[t].id, None) /\ memory[t].id \in Ids
        BY <1>1, <1>6, <2>2, <3>1 DEF Drops, x, t, Known, TypeOK, Definition
      <4>2. /\ x.master[memory[t].id] = None
            /\ \A j \in Ids : j # memory[t].id => x.master[j] = db.master[j]
        BY <1>1, <4>1, PutAt
      <4> QED  BY <4>2 DEF OwnRoot
    <3>2. CASE memory[t] = None
      BY <2>2, <3>2 DEF Drops, x, t, Known, OwnRoot
    <3> QED  BY <3>1, <3>2
  <2>3. CASE Alters(c)
    <3> DEFINE i0 == memory[t].id
               e == [name |-> t, root |-> memory[t].root, sql |-> run[c].newSql]
    <3>1. x.master = Put(db.master, i0, e) /\ memory[t] # None
      BY <2>3 DEF Alters, x, t, Known
    <3>2. run[c].newSql \in Names
      <4>1. run[c].newSql # <<>>
        BY <1>2, <2>3, StepNeeds DEF At, Alters
      <4> QED  BY <1>1, <4>1, ProgramTyped, ProgramParts
    <3>3. i0 \in Ids /\ e \in Entry
      BY <1>1, <1>6, <3>1, <3>2 DEF TypeOK, Definition, Entry
    <3>4. db.master[i0] # None /\ e.name = db.master[i0].name /\ e.root = db.master[i0].root
      BY <1>5, <1>6, <3>1 DEF Agrees
    <3> HIDE DEF e, i0
    <3>5. x.master[i0] = e /\ \A j \in Ids : j # i0 => x.master[j] = db.master[j]
      BY <1>1, <3>1, <3>3, PutAt
    <3> QED  BY <3>3, <3>4, <3>5 DEF OwnRoot
  <2> QED  BY <2>1, <2>2, <2>3
<1>9. \A d \in Clients : tx'[d] # None => OwnRoot(p, tx'[d].db)
  BY <1>4, <1>8 DEF x
<1> QED  BY <1>2, <1>9

\* A client is at the gate or past it with a copy it had before the step, or with
\* one that it has just taken.
LEMMA CopyOf ==
    ASSUME Engine, CatalogFollows, Copies, NEW c \in Clients, QuietAction(c),
           run'[c].at \in {"gate", "run"}
    PROVE  /\ run'[c].table.root <= db.pages /\ OwnRoot(run'[c], db)
           /\ \A d \in Clients : Holds(d) => OwnRoot(run'[c], tx[d].db)
<1>0. TypeOK
  BY DEF Engine
<1>1. CASE BeginWrite(c)
  <2>1. run[c].at = "gate" /\ run'[c].table = run[c].table /\ run'[c].stmt = run[c].stmt
    BY <1>0, <1>1, BeginWriteStep DEF Becomes, Goes, At
  <2> QED  BY <2>1 DEF Copies, OwnRoot
<1>2. CASE CloneTable(c)
  <2>1. At(c, "clone") /\ catalog = None /\ run[c].stmt \in Statement
    BY <1>2, StepNeeds DEF CloneTable, CatalogFree, At
  <2>2. /\ memory[run[c].stmt.table] # None
        /\ run'[c].table = memory[run[c].stmt.table] /\ run'[c].stmt = run[c].stmt
    BY <1>0, <1>2, <2>1, CloneRuns DEF Becomes, Returns
  <2>3. run[c].stmt.table \in Tables
    BY <2>1, StatementParts
  <2> QED  BY <2>1, <2>2, <2>3, CopyTaken
<1>3. CASE Issue(c) \/ Plan(c) \/ SubquerySnapshot(c)
  BY <1>0, <1>3, IssueRuns, PlanStep, SnapshotRuns DEF Becomes, Goes, Returns
<1>4. CASE Subquery(c)
  BY <1>0, <1>4, StepNeeds, SubqueryRuns DEF Becomes, Returns, Subquery, At
<1>5. CASE AutoCommit(c) \/ BeginTx(c) \/ LockCatalog(c)
  BY <1>0, <1>5, AutoCommitStep, BeginTxStep, LockStep DEF Becomes, Goes, Returns
<1>6. CASE Run(c)
  BY <1>0, <1>6, StepNeeds, RunStep DEF Becomes, Goes, Returns, Run, At
<1>7. CASE RunFail(c)
  BY <1>0, <1>7, StepNeeds, RunFailStep DEF Becomes, Returns, RunFail, At
<1>8. CASE EndTx(c)
  BY <1>0, <1>8, EndTxStep DEF At
<1>9. CASE DdlFail(c) \/ DdlCommit(c)
  BY <1>0, <1>9, DdlFailStep, DdlCommitStep DEF Becomes, Returns
<1> QED
  BY <1>1, <1>2, <1>3, <1>4, <1>5, <1>6, <1>7, <1>8, <1>9 DEF QuietAction

\* A statement's copy of a definition never comes to name another table's root.
LEMMA CopiesStep ==
    ASSUME Engine, CatalogFollows, Copies, NEW c \in Clients, ClientStep(c)
    PROVE  Copies'
<1>1. \A d \in Clients : run'[d] \in Program
  BY TypeStep DEF TypeOK, Program
<1>2. \A d \in Clients : run'[d].at \in {"gate", "run"} => run'[d].table # None
  BY ProgramsStep DEF Programs, Sound
<1>3. ASSUME NEW d \in Clients, run'[d].at \in {"gate", "run"}
      PROVE  /\ run'[d].table.root <= db'.pages /\ OwnRoot(run'[d], db')
             /\ \A o \in Clients : tx'[o] # None => OwnRoot(run'[d], tx'[o].db)
  <2>1. CASE QuietAction(c)
    <3>1. Quiet(c)
      BY <2>1, QuietStep
    <3>2. /\ run'[d].table.root <= db.pages /\ OwnRoot(run'[d], db)
          /\ \A o \in Clients : Holds(o) => OwnRoot(run'[d], tx[o].db)
      <4>1. CASE d = c
        BY <1>3, <2>1, <4>1, CopyOf
      <4>2. CASE d # c
        BY <1>3, <3>1, <4>2 DEF Quiet, Copies
      <4> QED  BY <4>1, <4>2
    <3> QED  BY <1>1, <1>2, <1>3, <3>1, <3>2, CopyKept
  <2>2. CASE CreateTable(c) \/ DropTable(c) \/ AlterTable(c)
    <3>1. Creates(c) \/ Drops(c) \/ Alters(c)
      BY <2>2, CreateStep, DropStep, AlterStep
    <3>2. /\ run'[c].at = "ddlcommit" /\ \A o \in Clients : o # c => run'[o] = run[o]
      BY <3>1 DEF Creates, Drops, Alters, Goes, Becomes
    <3>3. run'[d] = run[d]
      BY <1>3, <3>2
    <3>4. run'[d].table.root <= db.pages /\ OwnRoot(run'[d], db)
      BY <1>3, <3>3 DEF Copies
    <3> QED  BY <1>1, <1>2, <1>3, <3>1, <3>4, CopyWorks
  <2> QED  BY <2>1, <2>2 DEF ClientStep, QuietAction
<1> QED  BY <1>3 DEF Copies, Holds

\* What a step makes of the database and the transactions.
LEMMA StepKinds ==
    ASSUME Engine, NEW c \in Clients, ClientStep(c)
    PROVE  \/ UNCHANGED <<db, tx>>
           \/ UNCHANGED db /\ \E e \in BOOLEAN : Begins(c, db, e)
           \/ /\ UNCHANGED db /\ At(c, "run") /\ Holds(c)
              /\ run[c].table.root \in Roots /\ WritesOnce(c, run[c].table.root)
           \/ Holds(c) /\ Ends(c) /\ Settles(c)
           \/ Creates(c) \/ Drops(c) \/ Alters(c)
<1>0. /\ TypeOK
      /\ run[c].at \in {"commit", "ddlcommit", "run"} => Holds(c)
      /\ run[c].at = "run" => run[c].table # None
      /\ InTx(c) => Holds(c)
  BY StepNeeds DEF Engine, Locks, Holds, InTx
<1>1. CASE Issue(c) \/ Plan(c) \/ SubquerySnapshot(c) \/ Subquery(c) \/ CloneTable(c)
  BY <1>1 DEF Issue, Plan, SubquerySnapshot, Subquery, CloneTable
<1>2. CASE BeginWrite(c)
  BY <1>0, <1>2, BeginWriteStep
<1>3. CASE Run(c)
  BY <1>0, <1>3, RunStep DEF Run, At
<1>4. CASE RunFail(c)
  BY <1>0, <1>4, RunFailStep DEF RunFail, At, Settles
<1>5. CASE AutoCommit(c)
  BY <1>0, <1>5, AutoCommitStep DEF At
<1>6. CASE BeginTx(c)
  BY <1>0, <1>6, BeginTxStep
<1>7. CASE EndTx(c)
  BY <1>0, <1>7, EndTxStep
<1>8. CASE LockCatalog(c) \/ DdlFail(c)
  BY <1>8 DEF LockCatalog, DdlFail
<1>9. CASE CreateTable(c) \/ DropTable(c) \/ AlterTable(c)
  BY <1>9, CreateStep, DropStep, AlterStep
<1>10. CASE DdlCommit(c)
  BY <1>0, <1>10, DdlCommitStep DEF At
<1> QED
  BY <1>1, <1>2, <1>3, <1>4, <1>5, <1>6, <1>7, <1>8, <1>9, <1>10 DEF ClientStep

\* Only pages of the file are written: a copy names no others, and CREATE TABLE
\* makes the file longer.
LEMMA BlankStep ==
    ASSUME Engine, Copies, Blank, NEW c \in Clients, ClientStep(c)
    PROVE  Blank'
<1>0. /\ Unused(db) /\ \A d \in Clients : Holds(d) => Unused(tx[d].db)
      /\ Roots \subseteq Int /\ db.pages \in Int
  BY LoadedAssumption, StatementsAssumption DEF Blank, Roots, Engine, TypeOK, Database
<1>1. CASE UNCHANGED <<db, tx>>
  BY <1>0, <1>1 DEF Blank, Holds
<1>2. CASE UNCHANGED db /\ \E e \in BOOLEAN : Begins(c, db, e)
  BY <1>0, <1>2 DEF Blank, Holds, Begins, TxOthers
<1>3. CASE /\ UNCHANGED db /\ At(c, "run") /\ Holds(c)
           /\ run[c].table.root \in Roots /\ WritesOnce(c, run[c].table.root)
  <2> DEFINE r == run[c].table.root
  <2>1. r <= db.pages /\ r \in Int
    BY <1>0, <1>3 DEF Copies, At
  <2>2. db.pages <= tx[c].db.pages /\ tx[c].db.pages \in Int
    BY <1>3, TxTyped DEF Engine, Transactions
  <2>3. tx[c].db.writes \in [Roots -> Nat]
    BY <1>3, TxTyped DEF Engine
  <2>4. /\ tx'[c].db.pages = tx[c].db.pages
        /\ tx'[c].db.writes = OneMore(tx[c].db.writes, r)
        /\ \A d \in Clients : d # c => tx'[d] = tx[d]
    BY <1>3 DEF WritesOnce, TxOthers
  <2> HIDE DEF r
  <2>5. ASSUME NEW q \in Roots, q > tx'[c].db.pages PROVE tx'[c].db.writes[q] = 0
    <3>1. q # r
      BY <1>0, <2>1, <2>2, <2>4, <2>5
    <3>2. tx'[c].db.writes[q] = tx[c].db.writes[q]
      BY <2>3, <2>4, <3>1 DEF OneMore
    <3> QED  BY <1>0, <1>3, <2>4, <2>5, <3>2 DEF Unused
  <2> QED  BY <1>0, <1>3, <2>4, <2>5 DEF Blank, Unused, Holds
<1>4. CASE Holds(c) /\ Ends(c) /\ Settles(c)
  BY <1>0, <1>4 DEF Blank, Holds, Ends, Settles, TxOthers
<1>5. CASE Creates(c) \/ Drops(c) \/ Alters(c)
  <2>1. /\ Begins(c, tx'[c].db, FALSE) /\ tx'[c].db \in Database
        /\ tx'[c].db.writes = db.writes /\ db.pages <= tx'[c].db.pages /\ UNCHANGED db
    BY <1>5, DdlWorks DEF Engine
  <2>2. tx'[c].db.pages \in Int
    BY <2>1 DEF Database
  <2>3. Unused(tx'[c].db)
    BY <1>0, <2>1, <2>2 DEF Unused
  <2> QED  BY <1>0, <2>1, <2>3 DEF Blank, Holds, Begins, TxOthers
<1> QED  BY <1>1, <1>2, <1>3, <1>4, <1>5, StepKinds
-----------------------------------------------------------------------------
(* The initial state, and the theorems.                                    *)

\* The tables that are loaded, one id and one root each.
LEMMA LoadedTyped ==
    ASSUME NEW i \in DOMAIN Loaded
    PROVE  /\ i \in Ids /\ i + 1 \in Roots /\ i <= Len(Loaded) /\ Loaded[i] \in Tables
           /\ LoadedEntry(i) \in Entry /\ LoadedEntry(i) # None
           /\ LoadedEntry(i).name = Loaded[i] /\ LoadedEntry(i).root = i + 1
           /\ LoadedEntry(i).sql \in Names /\ Len(LoadedEntry(i).sql) = 1
<1>1. DOMAIN Loaded = 1..Len(Loaded) /\ Len(Loaded) \in Nat /\ Loaded[i] \in Tables
  BY LoadedAssumption
<1>2. i \in Ids /\ i + 1 \in Roots /\ i <= Len(Loaded)
  BY <1>1, StatementsAssumption DEF Ids, Roots
<1> DEFINE x == CHOOSE x \in Columns : TRUE
<1>3. x \in Columns
  BY ColumnsAssumption
<1> HIDE DEF x
<1>4. <<x>> \in Names /\ Len(<<x>>) = 1
  <2>1. <<x>> \in [1..1 -> Columns]
    BY <1>3
  <2>2. 1 \in 1..(MaxStatements + 1)
    BY StatementsAssumption
  <2> QED  BY <2>1, <2>2 DEF Names
<1>5. LoadedEntry(i) = [name |-> Loaded[i], root |-> i + 1, sql |-> <<x>>]
  BY DEF LoadedEntry, x
<1>6. LoadedEntry(i) \in Entry
  BY <1>1, <1>2, <1>4, <1>5 DEF Entry
<1> QED  BY <1>1, <1>2, <1>4, <1>5, <1>6, NoneAssumption

\* What Catalog::load makes of them.
LEMMA InitCatalog ==
    ASSUME Init
    PROVE  /\ memory \in [Tables -> Definition \cup {None}]
           /\ \A t \in Tables : memory[t] # None =>
                \E i \in DOMAIN Loaded :
                    /\ Loaded[i] = t /\ memory[t].id = i /\ memory[t].root = i + 1
                    /\ Len(memory[t].columns) = 1 /\ Len(memory[t].sql) = 1
           /\ \A i \in DOMAIN Loaded : memory[Loaded[i]] # None /\ memory[Loaded[i]].id = i
<1> DEFINE def(i) == [id |-> i, root |-> i + 1,
                      columns |-> LoadedEntry(i).sql, sql |-> LoadedEntry(i).sql]
           at(t) == CHOOSE i \in DOMAIN Loaded : Loaded[i] = t
<1>1. memory = [t \in Tables |-> IF \E i \in DOMAIN Loaded : Loaded[i] = t
                                 THEN def(at(t)) ELSE None]
  BY DEF Init
<1>2. ASSUME NEW i \in DOMAIN Loaded
      PROVE  /\ def(i) \in Definition /\ def(i) # None
             /\ def(i).id = i /\ def(i).root = i + 1
             /\ Len(def(i).columns) = 1 /\ Len(def(i).sql) = 1
  <2>1. def(i) \in Definition
    BY LoadedTyped DEF Definition
  <2> QED  BY <2>1, LoadedTyped, NoneAssumption
<1>3. \A t \in Tables : (\E i \in DOMAIN Loaded : Loaded[i] = t)
                           => at(t) \in DOMAIN Loaded /\ Loaded[at(t)] = t
  OBVIOUS
<1>4. \A i \in DOMAIN Loaded : Loaded[i] \in Tables /\ at(Loaded[i]) = i
  BY <1>3, LoadedAssumption, LoadedTyped
<1> HIDE DEF def, at
<1>5. memory \in [Tables -> Definition \cup {None}]
  BY <1>1, <1>2, <1>3
<1>6. ASSUME NEW t \in Tables, memory[t] # None
      PROVE  \E i \in DOMAIN Loaded :
                /\ Loaded[i] = t /\ memory[t].id = i /\ memory[t].root = i + 1
                /\ Len(memory[t].columns) = 1 /\ Len(memory[t].sql) = 1
  BY <1>1, <1>2, <1>3, <1>6
<1>7. ASSUME NEW i \in DOMAIN Loaded
      PROVE  memory[Loaded[i]] # None /\ memory[Loaded[i]].id = i
  BY <1>1, <1>2, <1>4
<1> QED  BY <1>5, <1>6, <1>7

LEMMA InitFile ==
    ASSUME Init
    PROVE  /\ db \in Database /\ db.pages = Len(Loaded) + 1 /\ db.writes = NoWrites
           /\ \A i \in Ids : db.master[i] # None =>
                 /\ i \in DOMAIN Loaded /\ i <= Len(Loaded)
                 /\ db.master[i].name = Loaded[i] /\ db.master[i].root = i + 1
           /\ \A i \in DOMAIN Loaded : /\ db.master[i] # None /\ db.master[i].name = Loaded[i]
                                       /\ db.master[i].root = i + 1
<1> DEFINE m == [i \in Ids |-> IF i \in DOMAIN Loaded THEN LoadedEntry(i) ELSE None]
<1>1. db = [master |-> m, pages |-> Len(Loaded) + 1, writes |-> NoWrites]
  BY DEF Init
<1>2. m \in [Ids -> Entry \cup {None}]
  BY LoadedTyped
<1>3. \A i \in Ids : m[i] # None => i \in DOMAIN Loaded /\ m[i] = LoadedEntry(i)
  OBVIOUS
<1>4. \A i \in DOMAIN Loaded : m[i] = LoadedEntry(i)
  BY LoadedTyped
<1> HIDE DEF m
<1>5. Len(Loaded) + 1 \in Nat /\ NoWrites \in [Roots -> Nat]
  BY LoadedAssumption DEF NoWrites
<1>6. db \in Database
  BY <1>1, <1>2, <1>5 DEF Database
<1> QED  BY <1>1, <1>3, <1>4, <1>6, LoadedTyped

LEMMA InitInductive == Init => Inductive
<1> SUFFICES ASSUME Init PROVE Inductive
  OBVIOUS
<1>1. /\ tx = [c \in Clients |-> None] /\ catalog = None /\ gate = None
      /\ run = [c \in Clients |-> Idle] /\ issued = 0 /\ written = NoWrites
  BY DEF Init
<1>2. \A c \in Clients : /\ run[c].at = "idle" /\ run[c].newSql = <<>> /\ run[c].value = None
                         /\ run[c] = Idle /\ tx[c] = None /\ run[c].stmt = None
  BY <1>1 DEF Idle
<1>3. NoWrites \in [Roots -> Nat]
  BY DEF NoWrites
<1>4. TypeOK
  <2>1. run \in [Clients -> Program]
    BY <1>1, IdleTyped
  <2>2. /\ tx \in [Clients -> Tx \cup {None}] /\ issued \in 0..MaxStatements
        /\ written \in [Roots -> Nat] /\ catalog \in Clients \cup {None}
        /\ gate \in Clients \cup {None}
    BY <1>1, <1>3, StatementsAssumption
  <2> QED  BY <2>1, <2>2, InitCatalog, InitFile DEF TypeOK, Program
<1>5. Locks
  BY <1>1, <1>2, NoneAssumption DEF Locks, Holds, InTx
<1>6. Programs
  BY <1>2 DEF Programs, Sound
<1>7. Len(Loaded) \in Nat
  BY LoadedAssumption
<1>8. Counted
  <2>1. Pending = {}
    BY <1>2 DEF Pending
  <2>2. IsFiniteSet(Pending) /\ Cardinality(Pending) = 0
    BY <2>1, FS_EmptySet
  <2>3. Done = 0
    BY <1>1, <2>2 DEF Done
  <2>4. Counts(db, 0)
    BY <1>7, InitFile DEF Counts
  <2>5. ASSUME NEW t \in Tables PROVE Sizes(t, 0)
    <3> SUFFICES ASSUME Known(t)
                 PROVE  /\ Len(memory[t].columns) <= 0 + 1 /\ Len(memory[t].sql) <= 0 + 1
                        /\ memory[t].id <= Len(Loaded) + 0
      BY DEF Sizes
    <3>1. PICK i \in DOMAIN Loaded : /\ memory[t].id = i
                                     /\ Len(memory[t].columns) = 1 /\ Len(memory[t].sql) = 1
      BY InitCatalog DEF Known
    <3>2. i \in Nat /\ i <= Len(Loaded)
      BY <1>7, LoadedTyped, LoadedAssumption
    <3> QED  BY <1>7, <3>1, <3>2
  <2> QED  BY <1>1, <1>2, <2>1, <2>2, <2>3, <2>4, <2>5 DEF Counted, Holds
<1>9. Transactions /\ Snapshots
  BY <1>1, <1>2, InitFile DEF Transactions, Snapshots, NoLostUpdate, SubqueriesAreCurrent, Holds
<1>10. RootsDiffer(db)
  <2>1. \A i \in Ids : db.master[i] # None => i \in Int /\ i <= Len(Loaded)
                                              /\ db.master[i].root = i + 1
    BY <1>7, InitFile, StatementsAssumption DEF Ids
  <2>2. db.pages = Len(Loaded) + 1
    BY InitFile
  <2> QED  BY <1>7, <2>1, <2>2 DEF RootsDiffer
<1>11. Agrees(memory, db)
  <2>1. ASSUME NEW t \in Tables, memory[t] # None
        PROVE  /\ db.master[memory[t].id] # None /\ db.master[memory[t].id].name = t
               /\ db.master[memory[t].id].root = memory[t].root
    BY <2>1, InitCatalog, InitFile
  <2>2. ASSUME NEW i \in Ids, db.master[i] # None
        PROVE  memory[db.master[i].name] # None /\ memory[db.master[i].name].id = i
    BY <2>2, InitCatalog, InitFile
  <2> QED  BY <2>1, <2>2 DEF Agrees
<1>12. CatalogFollows /\ Copies /\ Blank
  <2>1. Unused(db)
    BY InitFile DEF Unused, NoWrites
  <2> QED  BY <1>2, <1>10, <1>11, <2>1 DEF CatalogFollows, Copies, Blank, Holds
<1> QED  BY <1>4, <1>5, <1>6, <1>8, <1>9, <1>12 DEF Inductive, Engine

LEMMA StepInductive == Inductive /\ [Next]_vars => Inductive'
<1> SUFFICES ASSUME Inductive, [Next]_vars PROVE Inductive'
  OBVIOUS
<1>1. CASE Next
  <2>1. PICK c \in Clients : ClientStep(c)
    BY <1>1 DEF Next, ClientStep
  <2>2. Engine
    BY DEF Inductive
  <2>3. Engine'
    BY <2>1, <2>2, TypeStep, LocksStep, ProgramsStep, CountedStep, TransactionsStep,
       SnapshotsStep DEF Engine
  <2>4. ~DdlCommitsFail => CatalogFollows' /\ Copies' /\ Blank'
    BY <2>1, <2>2, CatalogFollowsStep, CopiesStep, BlankStep DEF Inductive
  <2> QED  BY <2>3, <2>4 DEF Inductive
<1>2. CASE UNCHANGED vars
  BY <1>2 DEF vars, Inductive, Engine, TypeOK, Locks, Programs, Counted, Transactions, Snapshots,
     CatalogFollows, Copies, Blank, NoLostUpdate, SubqueriesAreCurrent, Holds, InTx, Kind, Known, Done,
     Pending, Sizes
<1> QED  BY <1>1, <1>2

\* Inductive holds in every reachable state: it is what lies behind the theorems
\* that follow about SqlEngine::run_one, execute_on and the transactions of the
\* interfaces above.
THEOREM EngineInvariant == Spec => []Inductive
<1> QED  BY InitInductive, StepInductive, PTL DEF Spec

\* The variables stay in their sets: in particular there is an id and a root page
\* for every table that CREATE TABLE adds (BTree::create, insert_entry), and a
\* transaction for every statement that writes (run_one, execute_on).
THEOREM EngineIsTyped == Spec => []TypeOK
<1>1. Inductive => TypeOK
  BY DEF Inductive, Engine
<1> QED  BY <1>1, EngineInvariant, PTL

\* No update is lost, whatever the statements and transactions of however many
\* clients: run_one calls begin_write before it reads what it changes, and what
\* execute_on does in a transaction is behind the gate of that transaction.
THEOREM UpdatesAreKept == Spec => []NoLostUpdate
<1>1. Inductive => NoLostUpdate
  BY DEF Inductive, Engine, Transactions
<1> QED  BY <1>1, EngineInvariant, PTL

\* The value of a subquery in an UPDATE or DELETE was committed no earlier than the
\* statement began (rewrite_dml_subqueries reads a snapshot taken on the way).
THEOREM SubqueriesSeeCommitted == Spec => []SubqueriesAreCurrent
<1>1. Inductive => SubqueriesAreCurrent
  BY DEF Inductive, Engine, Snapshots
<1> QED  BY <1>1, EngineInvariant, PTL

\* If every statement waits, an idle transaction holds the gate or the catalog
\* mutex and the gate are waited for in a circle (the DDL arms of run_one lock the
\* catalog and then begin_write; execute_on locks it to plan while its transaction
\* has the gate).
THEOREM DeadlocksAreKnown == Spec => []NoOtherDeadlock
<1>1. ASSUME Inductive PROVE NoOtherDeadlock
  <2>1. TypeOK /\ Locks
    BY <1>1 DEF Inductive, Engine
  <2> SUFFICES ASSUME NEW b \in Clients, ~At(b, "idle"),
                      \A c \in Clients : ~At(c, "idle") => WaitsForCatalog(c) \/ WaitsForGate(c)
               PROVE  Circle \/ \E c \in Clients : InTx(c) /\ At(c, "idle")
    BY DEF NoOtherDeadlock
  \* Whoever waits for the gate waits for a transaction.
  <2>2. ASSUME NEW c \in Clients, WaitsForGate(c)
        PROVE  Circle \/ \E h \in Clients : InTx(h) /\ At(h, "idle")
    <3>1. gate \in Clients /\ Holds(gate)
      BY <2>1, <2>2 DEF WaitsForGate, TypeOK, Locks
    <3>2. CASE At(gate, "idle")
      BY <2>1, <3>1, <3>2 DEF Locks, At
    <3>3. CASE WaitsForGate(gate)
      BY <3>1, <3>3 DEF Circle
    <3>4. CASE WaitsForCatalog(gate)
      <4>1. catalog \in Clients /\ run[catalog].at \in {"ddl", "ddlcommit"}
        BY <2>1, <3>4 DEF WaitsForCatalog, TypeOK, Locks
      <4>2. WaitsForGate(catalog)
        BY <4>1 DEF At, WaitsForCatalog
      <4> QED  BY <3>1, <3>4, <4>1, <4>2 DEF Circle
    <3> QED  BY <3>1, <3>2, <3>3, <3>4
  <2>3. CASE WaitsForGate(b)
    BY <2>2, <2>3
  <2>4. CASE WaitsForCatalog(b)
    <3>1. catalog \in Clients /\ run[catalog].at \in {"ddl", "ddlcommit"}
      BY <2>1, <2>4 DEF WaitsForCatalog, TypeOK, Locks
    <3>2. WaitsForGate(catalog)
      BY <3>1 DEF At, WaitsForCatalog
    <3> QED  BY <2>2, <3>1, <3>2
  <2> QED  BY <2>3, <2>4
<1> QED  BY <1>1, EngineInvariant, PTL

\* While nobody has the catalog mutex, the catalog in memory names the tables of
\* sqlite_master, provided that commits of DDL succeed (add_table, drop_table and
\* alter_add_column change it before the commit, and nothing changes it back).
THEOREM CatalogFollowsFile ==
    ASSUME ~DdlCommitsFail
    PROVE  Spec => []CatalogAgrees
<1>1. ASSUME Inductive PROVE CatalogAgrees
  <2>1. Locks /\ CatalogFollows
    BY <1>1 DEF Inductive, Engine
  <2>2. CatalogFree => Agrees(memory, db)
    BY <2>1, NoneAssumption DEF CatalogFree, CatalogFollows, Locks
  <2> QED  BY <2>2 DEF CatalogAgrees, Agrees, Known
<1> QED  BY <1>1, EngineInvariant, PTL

\* A statement that copied a definition before it waited for the gate writes into
\* the pages of the table it names or of none (clone_table, then begin_write): no
\* root is used again, provided that commits of DDL succeed.
THEOREM WritesStayInTable ==
    ASSUME ~DdlCommitsFail
    PROVE  Spec => []WritesHitOwnTable
<1>1. ASSUME Inductive PROVE WritesHitOwnTable
  <2>1. ASSUME NEW c \in Clients, At(c, "run") PROVE OwnRoot(run[c], tx[c].db)
    BY <1>1, <2>1 DEF Inductive, Engine, Locks, Copies, At
  <2> QED  BY <2>1 DEF WritesHitOwnTable, OwnRoot
<1> QED  BY <1>1, EngineInvariant, PTL
-----------------------------------------------------------------------------
(* The serial tables.                                                      *)

\* The abstract state, and what steps may do to it.
Named == ByName(db)
Work == [c \in Clients |-> IF tx[c] = None THEN None ELSE ByName(tx[c].db)]
Asks == [c \in Clients |-> run[c].stmt]

\* Databases with the same names for the same roots, and the same writes.
LEMMA SameNames ==
    ASSUME NEW x, NEW y, x.writes = y.writes,
           \A i \in Ids : /\ x.master[i] # None <=> y.master[i] # None
                          /\ y.master[i] # None => /\ x.master[i].name = y.master[i].name
                                                   /\ x.master[i].root = y.master[i].root
    PROVE  ByName(x) = ByName(y)
<1>1. ASSUME NEW t \in Tables
      PROVE  /\ RowsOf(x, t) = RowsOf(y, t)
             /\ RowsOf(y, t) # {} => RootOf(x, t) = RootOf(y, t)
  <2>1. RowsOf(x, t) = RowsOf(y, t)
    BY DEF RowsOf
  <2>2. RowsOf(y, t) # {} => (CHOOSE i \in RowsOf(y, t) : TRUE) \in RowsOf(y, t)
    OBVIOUS
  <2> QED  BY <2>1, <2>2 DEF RootOf, RowsOf
<1> QED  BY <1>1 DEF ByName

\* The row that a name stands for.
LEMMA RootIs ==
    ASSUME NEW d, NEW t \in Tables, RowsOf(d, t) # {}
    PROVE  \E i \in Ids : d.master[i] # None /\ d.master[i].name = t /\ d.master[i].root = RootOf(d, t)
<1>1. (CHOOSE i \in RowsOf(d, t) : TRUE) \in RowsOf(d, t)
  OBVIOUS
<1> QED  BY <1>1 DEF RootOf, RowsOf

LEMMA NamesTyped ==
    ASSUME NEW d \in Database
    PROVE  ByName(d) \in [Tables -> Nat \cup {None}] /\ ByName(d) # None
<1>1. ASSUME NEW t \in Tables, RowsOf(d, t) # {} PROVE d.writes[RootOf(d, t)] \in Nat
  <2>1. PICK i \in Ids : d.master[i] # None /\ d.master[i].root = RootOf(d, t)
    BY <1>1, RootIs
  <2>2. d.master[i] \in Entry
    BY <2>1 DEF Database
  <2> QED  BY <2>1, <2>2 DEF Database, Entry
<1>2. ByName(d) \in [Tables -> Nat \cup {None}]
  BY <1>1 DEF ByName
<1> QED  BY <1>2, NamesAssumption

\* A write through a copy reaches the table of its statement or none.
LEMMA WriteByName ==
    ASSUME NEW x \in Database, NEW y, NEW r \in Roots, NEW t \in Tables, RootsDiffer(x),
           \A i \in Ids : x.master[i] # None /\ x.master[i].root = r => x.master[i].name = t,
           y.master = x.master, y.writes = OneMore(x.writes, r)
    PROVE  \/ ByName(y) = ByName(x)
           \/ /\ ByName(x)[t] # None
              /\ ByName(y) = [ByName(x) EXCEPT ![t] = @ + 1]
<1>0. x.writes \in [Roots -> Nat]
  BY DEF Database
<1>1. \A u \in Tables : RowsOf(y, u) = RowsOf(x, u) /\ RootOf(y, u) = RootOf(x, u)
  BY DEF RowsOf, RootOf
<1>2. ASSUME NEW u \in Tables, RowsOf(x, u) # {} PROVE RootOf(x, u) \in Roots
  <2>1. PICK i \in Ids : x.master[i] # None /\ x.master[i].root = RootOf(x, u)
    BY <1>2, RootIs
  <2> QED  BY <2>1 DEF Database, Entry
<1>3. ASSUME NEW u \in Tables, RowsOf(x, u) # {}, RootOf(x, u) = r PROVE u = t
  BY <1>3, RootIs
<1>4. ASSUME NEW u \in Tables
      PROVE  ByName(y)[u] = IF RowsOf(x, u) # {} /\ RootOf(x, u) = r
                            THEN ByName(x)[u] + 1 ELSE ByName(x)[u]
  <2>1. CASE RowsOf(x, u) = {}
    BY <1>1, <2>1 DEF ByName
  <2>2. CASE RowsOf(x, u) # {}
    BY <1>0, <1>1, <1>2, <2>2 DEF ByName, OneMore
  <2> QED  BY <2>1, <2>2
<1>5. CASE RowsOf(x, t) # {} /\ RootOf(x, t) = r
  <2>1. ByName(x)[t] # None
    <3>1. ByName(x)[t] \in Nat
      BY <1>0, <1>5 DEF ByName
    <3> QED  BY <3>1, NamesAssumption
  <2>2. \A u \in Tables : ByName(y)[u] = IF u = t THEN ByName(x)[u] + 1 ELSE ByName(x)[u]
    BY <1>3, <1>4, <1>5
  <2>3. /\ ByName(y) = [u \in Tables |-> ByName(y)[u]]
        /\ ByName(x) = [u \in Tables |-> ByName(x)[u]]
    BY DEF ByName
  <2> QED  BY <2>1, <2>2, <2>3
<1>6. CASE ~(RowsOf(x, t) # {} /\ RootOf(x, t) = r)
  <2>1. \A u \in Tables : ByName(y)[u] = ByName(x)[u]
    BY <1>3, <1>4, <1>6
  <2>2. /\ ByName(y) = [u \in Tables |-> ByName(y)[u]]
        /\ ByName(x) = [u \in Tables |-> ByName(x)[u]]
    BY DEF ByName
  <2> QED  BY <2>1, <2>2
<1> QED  BY <1>5, <1>6

\* A new table is empty.
LEMMA CreateByName ==
    ASSUME NEW x \in Database, NEW y, NEW t \in Tables, NEW i0 \in Ids, NEW e \in Entry,
           y.master = Put(x.master, i0, e), y.writes = x.writes,
           x.master[i0] = None, RowsOf(x, t) = {}, e.name = t, x.writes[e.root] = 0
    PROVE  ByName(x)[t] = None /\ ByName(y) = [ByName(x) EXCEPT ![t] = 0]
<1>1. x.master \in [Ids -> Entry \cup {None}]
  BY DEF Database
<1>2. /\ y.master[i0] = e /\ e # None
      /\ \A i \in Ids : i # i0 => y.master[i] = x.master[i]
  BY <1>1, PutAt, NoneAssumption
<1>3. RowsOf(y, t) = {i0}
  BY <1>2 DEF RowsOf
<1>4. ByName(y)[t] = 0
  <2>1. RootOf(y, t) = e.root
    BY <1>2, <1>3 DEF RootOf
  <2> QED  BY <1>3, <2>1 DEF ByName
<1>5. ASSUME NEW u \in Tables, u # t PROVE ByName(y)[u] = ByName(x)[u]
  <2>1. RowsOf(y, u) = RowsOf(x, u)
    BY <1>2, <1>5 DEF RowsOf
  <2>2. RowsOf(x, u) # {} => RootOf(y, u) = RootOf(x, u)
    <3>1. i0 \notin RowsOf(x, u)
      BY DEF RowsOf
    <3>2. RowsOf(x, u) # {} => (CHOOSE i \in RowsOf(x, u) : TRUE) \in RowsOf(x, u)
      OBVIOUS
    <3> QED  BY <1>2, <2>1, <3>1, <3>2 DEF RootOf, RowsOf
  <2> QED  BY <2>1, <2>2 DEF ByName
<1>6. /\ ByName(y) = [u \in Tables |-> ByName(y)[u]]
      /\ ByName(x) = [u \in Tables |-> ByName(x)[u]]
  BY DEF ByName
<1>7. ByName(x)[t] = None
  BY DEF ByName
<1> QED  BY <1>4, <1>5, <1>6, <1>7

\* A table that is dropped has no row any more, and others keep theirs.
LEMMA DropByName ==
    ASSUME NEW x, NEW y, NEW t \in Tables, y.writes = x.writes,
           RowsOf(y, t) = {},
           \A i \in Ids : x.master[i] # None /\ x.master[i].name # t => y.master[i] = x.master[i],
           \A i \in Ids : y.master[i] # None => y.master[i] = x.master[i]
    PROVE  ByName(y) = [ByName(x) EXCEPT ![t] = None]
<1>1. ASSUME NEW u \in Tables, u # t PROVE ByName(y)[u] = ByName(x)[u]
  <2>1. RowsOf(y, u) = RowsOf(x, u)
    BY <1>1 DEF RowsOf
  <2>2. RowsOf(x, u) # {} => RootOf(y, u) = RootOf(x, u)
    <3>1. RowsOf(x, u) # {} => (CHOOSE i \in RowsOf(x, u) : TRUE) \in RowsOf(x, u)
      OBVIOUS
    <3> QED  BY <1>1, <2>1, <3>1 DEF RootOf, RowsOf
  <2> QED  BY <2>1, <2>2 DEF ByName
<1>2. ByName(y)[t] = None
  BY DEF ByName
<1>3. /\ ByName(y) = [u \in Tables |-> ByName(y)[u]]
      /\ ByName(x) = [u \in Tables |-> ByName(x)[u]]
  BY DEF ByName
<1> QED  BY <1>1, <1>2, <1>3

\* What a step makes of the statement that its client runs.
LEMMA StepAsks ==
    ASSUME Engine, NEW c \in Clients, ClientStep(c)
    PROVE  \/ Serial!Ask(c)
           \/ /\ Asks' = Asks \/ Serial!Answer(c)
              /\ ~Issue(c)
<1>0. TypeOK /\ Programs
  BY DEF Engine
<1>1. CASE Issue(c)
  <2>1. PICK s \in Statement : /\ run'[c].stmt = s
                               /\ \A d \in Clients : d # c => run'[d] = run[d]
    BY <1>0, <1>1, IssueRuns DEF Becomes
  <2>2. run[c].stmt = None /\ UNCHANGED <<db, tx>>
    BY <1>0, <1>1 DEF Programs, Sound, Issue, At
  <2>3. Asks' = [Asks EXCEPT ![c] = s] /\ Asks[c] = None
    BY <2>1, <2>2 DEF Asks
  <2>4. Named' = Named /\ Work' = Work
    BY <2>2 DEF Named, Work
  <2> QED  BY <2>3, <2>4 DEF Serial!Ask, Asks, Named, Work
<1>2. ASSUME \A d \in Clients : d # c => run'[d] = run[d],
             run'[c].stmt = run[c].stmt \/ run'[c].stmt = None
      PROVE  Asks' = Asks \/ Serial!Answer(c)
  <2>1. CASE run'[c].stmt = run[c].stmt
    <3>1. \A d \in Clients : run'[d].stmt = run[d].stmt
      BY <1>2, <2>1
    <3> QED  BY <3>1 DEF Asks
  <2>2. CASE run'[c].stmt = None
    <3>1. Asks' = [Asks EXCEPT ![c] = None]
      BY <1>2, <2>2 DEF Asks
    <3> QED  BY <3>1 DEF Serial!Answer, Asks
  <2> QED  BY <1>2, <2>1, <2>2
<1>3. CASE ClientStep(c) /\ ~Issue(c)
  <2>1. CASE Plan(c) \/ SubquerySnapshot(c)
    BY <1>0, <1>2, <1>3, <2>1, PlanStep, SnapshotRuns DEF Becomes, Goes, Returns
  <2>2. CASE Subquery(c)
    BY <1>0, <1>2, <1>3, <2>2, StepNeeds, SubqueryRuns DEF Becomes, Returns, Subquery, At
  <2>3. CASE CloneTable(c)
    BY <1>0, <1>2, <1>3, <2>3, StepNeeds, CloneRuns DEF Becomes, Returns, CloneTable, At
  <2>4. CASE BeginWrite(c) \/ AutoCommit(c) \/ BeginTx(c) \/ LockCatalog(c)
    BY <1>0, <1>2, <1>3, <2>4, BeginWriteStep, AutoCommitStep, BeginTxStep, LockStep
       DEF Becomes, Goes, Returns
  <2>5. CASE Run(c)
    BY <1>0, <1>2, <1>3, <2>5, StepNeeds, RunStep DEF Becomes, Goes, Returns, Run, At
  <2>6. CASE RunFail(c)
    BY <1>0, <1>2, <1>3, <2>6, StepNeeds, RunFailStep DEF Becomes, Returns, RunFail, At
  <2>7. CASE EndTx(c)
    BY <1>0, <1>2, <1>3, <2>7, EndTxStep
  <2>8. CASE CreateTable(c) \/ DropTable(c) \/ AlterTable(c)
    BY <1>0, <1>2, <1>3, <2>8, CreateStep, DropStep, AlterStep, DdlWorks DEF Becomes, Goes
  <2>9. CASE DdlFail(c) \/ DdlCommit(c)
    BY <1>0, <1>2, <1>3, <2>9, DdlFailStep, DdlCommitStep DEF Becomes, Returns
  <2> QED
    BY <1>3, <2>1, <2>2, <2>3, <2>4, <2>5, <2>6, <2>7, <2>8, <2>9 DEF ClientStep
<1> QED  BY <1>1, <1>3

\* The transactions of the others stay as they are.
LEMMA WorkBecomes ==
    ASSUME TypeOK, NEW c \in Clients, TxOthers(c)
    PROVE  /\ tx'[c] = None => Work' = [Work EXCEPT ![c] = None]
           /\ tx'[c] # None => Work' = [Work EXCEPT ![c] = ByName(tx'[c].db)]
<1>1. \A d \in Clients : d # c => tx'[d] = tx[d]
  BY DEF TxOthers
<1>2. \A d \in Clients : d # c => Work'[d] = Work[d]
  BY <1>1 DEF Work
<1>3. /\ Work' = [d \in Clients |-> Work'[d]] /\ Work = [d \in Clients |-> Work[d]]
      /\ Work'[c] = IF tx'[c] = None THEN None ELSE ByName(tx'[c].db)
  BY DEF Work
<1> QED  BY <1>2, <1>3

Starts(c, x) ==
    /\ \A d \in Clients : Work[d] = None
    /\ Work' = [Work EXCEPT ![c] = x]
    /\ Named' = Named

LEMMA BeginByName ==
    ASSUME Engine, NEW c \in Clients, TxOthers(c), gate = None, tx'[c] # None, UNCHANGED db
    PROVE  Starts(c, ByName(tx'[c].db))
<1>1. \A u \in Clients : Work[u] = None
  BY NoneAssumption DEF Engine, Locks, Holds, Work
<1>2. Work' = [Work EXCEPT ![c] = ByName(tx'[c].db)] /\ Named' = Named
  BY WorkBecomes DEF Named, Engine
<1> QED  BY <1>1, <1>2 DEF Starts

\* What a step makes of the tables and of the copies.
LEMMA StepWorks ==
    ASSUME Engine, CatalogFollows, Copies, Blank, NEW c \in Clients, ClientStep(c)
    PROVE  \/ Named' = Named /\ Work' = Work
           \/ Serial!Begin(c, Named)
           \/ Serial!Create(c) \/ Serial!Drop(c) \/ Serial!Write(c)
           \/ Serial!Commit(c) \/ Serial!Rollback(c)
<1> DEFINE s == run[c].stmt
           t == s.table
<1>0. TypeOK /\ Programs /\ db \in Database
  BY DEF Engine, TypeOK
<1>1. CASE UNCHANGED <<db, tx>>
  BY <1>1 DEF Named, Work
<1>2. CASE UNCHANGED db /\ \E e \in BOOLEAN : Begins(c, db, e)
  <2>1. TxOthers(c) /\ gate = None /\ tx'[c] # None /\ tx'[c].db = db /\ UNCHANGED db
    BY <1>2 DEF Begins
  <2>2. Starts(c, Named)
    BY <2>1, BeginByName DEF Named
  <2>3. Serial!Begin(c, Named)
    BY <2>2 DEF Serial!Begin, Starts, Work, Named
  <2> QED  BY <2>3
<1>3. CASE /\ UNCHANGED db /\ At(c, "run") /\ Holds(c)
           /\ run[c].table.root \in Roots /\ WritesOnce(c, run[c].table.root)
  <2> DEFINE r == run[c].table.root
             x == tx[c].db
             y == tx'[c].db
  <2>1. s \in Statement /\ s.kind \in {"write", "subquery"} /\ t \in Tables
    BY <1>0, <1>3, StatementParts DEF Programs, Sound, At
  <2>2. RootsDiffer(x) /\ x \in Database
    BY <1>0, <1>3, TxTyped DEF CatalogFollows
  <2>3. \A i \in Ids : x.master[i] # None /\ x.master[i].root = r => x.master[i].name = t
    BY <1>3 DEF Copies, OwnRoot, At
  <2>4. r \in Roots /\ y.master = x.master /\ y.writes = OneMore(x.writes, r) /\ tx'[c] # None
    BY <1>3 DEF WritesOnce
  <2>5. /\ Work' = [Work EXCEPT ![c] = ByName(y)] /\ Named' = Named
        /\ Work[c] = ByName(x) /\ Asks[c] = s
    BY <1>0, <1>3, <2>4, WorkBecomes DEF WritesOnce, Named, Work, Holds, Asks
  <2>6. ByName(x) # None
    BY <2>2, NamesTyped
  <2> HIDE DEF r, x, y, t, s
  <2>7. \/ ByName(y) = ByName(x)
        \/ ByName(x)[t] # None /\ ByName(y) = [ByName(x) EXCEPT ![t] = @ + 1]
    BY <2>1, <2>2, <2>3, <2>4, WriteByName
  <2>8. CASE ByName(y) = ByName(x)
    <3>1. Work = [d \in Clients |-> Work[d]]
      BY DEF Work
    <3> QED  BY <2>5, <2>8, <3>1
  <2>9. CASE ByName(x)[t] # None /\ ByName(y) = [ByName(x) EXCEPT ![t] = @ + 1]
    <3>1. Work' = [Work EXCEPT ![c][t] = @ + 1]
      BY <2>5, <2>9
    <3>2. Work[c] # None /\ Work[c][t] # None
      BY <2>5, <2>6, <2>9
    <3>3. Asks[c] = s /\ s.table = t /\ Named' = Named
      BY <2>5 DEF t
    <3>4. Serial!Runs(c, {"write", "subquery"})
      BY <2>1, <3>3 DEF Serial!Runs, Asks
    <3>5. Serial!Write(c)
      BY <3>1, <3>2, <3>3, <3>4 DEF Serial!Write, Asks, Work, Named
    <3> QED  BY <3>5
  <2> QED  BY <2>7, <2>8, <2>9
<1>4. CASE Holds(c) /\ Ends(c) /\ Settles(c)
  <2>1. Work' = [Work EXCEPT ![c] = None] /\ Work[c] = ByName(tx[c].db)
    BY <1>0, <1>4, WorkBecomes DEF Ends, Work, Holds
  <2>2. Work[c] # None
    BY <1>0, <1>4, <2>1, TxTyped, NamesTyped
  <2>3. CASE db' = tx[c].db
    <3>1. Named' = Work[c]
      BY <2>1, <2>3 DEF Named
    <3>2. Serial!Commit(c)
      BY <2>1, <2>2, <3>1 DEF Serial!Commit, Work, Named
    <3> QED  BY <3>2
  <2>4. CASE db' = db
    <3>1. Serial!Rollback(c)
      BY <2>1, <2>2, <2>4 DEF Serial!Rollback, Work, Named
    <3> QED  BY <3>1
  <2> QED  BY <1>4, <2>3, <2>4 DEF Settles
<1>5. CASE Creates(c) \/ Drops(c) \/ Alters(c)
  <2> DEFINE y == tx'[c].db
  <2>1. /\ At(c, "ddl") /\ Begins(c, y, FALSE) /\ y.writes = db.writes /\ UNCHANGED db
    BY <1>0, <1>5, DdlWorks
  <2>2. Starts(c, ByName(y))
    <3>1. TxOthers(c) /\ gate = None /\ tx'[c] # None
      BY <2>1 DEF Begins
    <3> QED  BY <2>1, <3>1, BeginByName
  <2>3. s \in Statement /\ t \in Tables
    BY <1>0, <2>1, StatementParts DEF Programs, Sound, At
  <2>4. Agrees(memory, db) /\ memory \in [Tables -> Definition \cup {None}]
        /\ db.master \in [Ids -> Entry \cup {None}]
    BY <1>0, <2>1, DdlAlone DEF TypeOK, Database
  <2>5. Asks[c] = s
    BY DEF Asks
  <2>6. CASE Creates(c)
    <3> DEFINE e == [name |-> t, root |-> NewRoot, sql |-> <<run[c].stmt.column>>]
    <3>1. /\ s.kind = "create" /\ Kind(c) \in Ddl /\ y.master = Put(db.master, NextId, e)
          /\ <<run[c].stmt.column>> \in Names
      BY <2>6 DEF Creates, Kind, Ddl
    <3>2. NextId \in Ids /\ NewRoot \in Roots
      BY <2>1, <3>1, FreshIds
    <3>3. e \in Entry /\ e.name = t /\ e.root = NewRoot
      BY <2>3, <3>1, <3>2 DEF Entry
    <3>4. memory[t] = None
      BY <2>1, <3>1 DEF CatalogFollows, Known, At, Kind
    <3>5. RowsOf(db, t) = {}
      BY <2>4, <3>4 DEF Agrees, RowsOf
    <3>6. db.master[NextId] = None
      <4>1. NextId \in Nat /\ \A i \in Ids : db.master[i] # None => i < NextId
        BY <1>0, NextIdFresh
      <4> QED  BY <3>2, <4>1
    <3>7. db.writes[NewRoot] = 0
      <4>1. NewRoot > db.pages
        BY <1>0 DEF NewRoot, Database
      <4> QED  BY <3>2, <4>1 DEF Blank, Unused
    <3> HIDE DEF e, y, t, s
    <3>8. ByName(db)[t] = None /\ ByName(y) = [ByName(db) EXCEPT ![t] = 0]
      BY <1>0, <2>1, <2>3, <3>1, <3>2, <3>3, <3>5, <3>6, <3>7, CreateByName
    <3>9. Serial!Create(c)
      <4>1. /\ Starts(c, [Named EXCEPT ![Asks[c].table] = 0])
            /\ Asks[c] \in Statement /\ Asks[c].kind \in {"create"}
            /\ Named[Asks[c].table] = None
        BY <2>2, <2>3, <2>5, <3>1, <3>8 DEF Named, t
      <4> QED
        BY <4>1 DEF Serial!Create, Serial!Begin, Serial!Runs, Starts, Work, Named, Asks
    <3> QED  BY <3>9
  <2>7. CASE Drops(c)
    <3>1. /\ s.kind = "drop"
          /\ IF Known(t) THEN y.master = Put(db.master, memory[t].id, None)
                         ELSE y.master = db.master
      BY <2>7 DEF Drops, Kind
    <3>2. /\ RowsOf(y, t) = {}
          /\ \A i \in Ids : db.master[i] # None /\ db.master[i].name # t => y.master[i] = db.master[i]
          /\ \A i \in Ids : y.master[i] # None => y.master[i] = db.master[i]
      <4>1. CASE Known(t)
        <5>1. memory[t].id \in Ids /\ db.master[memory[t].id].name = t
          BY <2>3, <2>4, <4>1 DEF Known, Definition, Agrees
        <5>2. y.master[memory[t].id] = None
              /\ \A i \in Ids : i # memory[t].id => y.master[i] = db.master[i]
          BY <2>4, <3>1, <4>1, <5>1, PutAt
        <5>3. \A i \in Ids : db.master[i] # None /\ db.master[i].name = t => i = memory[t].id
          BY <2>4 DEF Agrees
        <5> QED  BY <5>1, <5>2, <5>3 DEF RowsOf
      <4>2. CASE ~Known(t)
        BY <2>4, <3>1, <4>2 DEF Known, Agrees, RowsOf
      <4> QED  BY <4>1, <4>2
    <3> HIDE DEF y, t, s
    <3>3. ByName(y) = [ByName(db) EXCEPT ![t] = None]
      BY <2>1, <2>3, <3>2, DropByName
    <3>4. Serial!Drop(c)
      <4>1. /\ Starts(c, [Named EXCEPT ![Asks[c].table] = None])
            /\ Asks[c] \in Statement /\ Asks[c].kind \in {"drop"}
        BY <2>2, <2>3, <2>5, <3>1, <3>3 DEF Named, t
      <4> QED
        BY <4>1 DEF Serial!Drop, Serial!Begin, Serial!Runs, Starts, Work, Named, Asks
    <3> QED  BY <3>4
  <2>8. CASE Alters(c)
    <3> DEFINE e == [name |-> t, root |-> memory[t].root, sql |-> run[c].newSql]
    <3>1. Known(t) /\ y.master = Put(db.master, memory[t].id, e)
      BY <2>8 DEF Alters
    <3>2. /\ memory[t].id \in Ids /\ db.master[memory[t].id] # None
          /\ db.master[memory[t].id].name = t /\ db.master[memory[t].id].root = memory[t].root
      BY <2>3, <2>4, <3>1 DEF Known, Definition, Agrees
    <3>3. e \in Entry
      <4>1. run[c].newSql \in Names
        <5>1. run[c].newSql # <<>>
          BY <2>1, <2>8, StepNeeds DEF At, Alters
        <5> QED  BY <1>0, <5>1, ProgramTyped, ProgramParts
      <4>2. memory[t].root \in Roots
        BY <2>3, <2>4, <3>1 DEF Known, Definition
      <4> QED  BY <2>3, <4>1, <4>2 DEF Entry
    <3>4. e.name = t /\ e.root = memory[t].root /\ e # None
      BY <3>3, NoneAssumption
    <3> HIDE DEF e, y, t, s
    <3>5. y.master[memory[t].id] = e
          /\ \A i \in Ids : i # memory[t].id => y.master[i] = db.master[i]
      BY <2>4, <3>1, <3>2, <3>3, PutAt
    <3>6. ByName(y) = ByName(db)
      BY <2>1, <3>2, <3>4, <3>5, SameNames
    <3>7. Starts(c, Named)
      BY <2>2, <3>6 DEF Named
    <3>8. Serial!Begin(c, Named)
      BY <3>7 DEF Serial!Begin, Starts, Work, Named
    <3> QED  BY <3>8
  <2> QED  BY <1>5, <2>6, <2>7, <2>8
<1> QED  BY <1>1, <1>2, <1>3, <1>4, <1>5, StepKinds

LEMMA InitSerial == Init => Serial!Init
<1> SUFFICES ASSUME Init PROVE Serial!Init
  OBVIOUS
<1>1. Work = [c \in Clients |-> None] /\ Asks = [c \in Clients |-> None]
  BY DEF Init, Work, Asks, Idle
<1>2. db.writes = [r \in Roots |-> 0] /\ db \in Database
  BY InitInductive DEF Init, NoWrites, Inductive, Engine, TypeOK
<1>3. ASSUME NEW t \in Tables PROVE Named[t] \in {0, None}
  <2>1. CASE RowsOf(db, t) = {}
    BY <2>1 DEF Named, ByName
  <2>2. CASE RowsOf(db, t) # {}
    <3>1. PICK i \in Ids : db.master[i] # None /\ db.master[i].root = RootOf(db, t)
      BY <2>2, RootIs
    <3>2. RootOf(db, t) \in Roots
      BY <1>2, <3>1 DEF Database, Entry
    <3> QED  BY <1>2, <2>2, <3>2 DEF Named, ByName
  <2> QED  BY <2>1, <2>2
<1>4. Named \in [Tables -> {0, None}]
  BY <1>3 DEF Named, ByName
<1> QED  BY <1>1, <1>4 DEF Serial!Init, Work, Asks, Named

LEMMA StepSerial ==
    ~DdlCommitsFail /\ Inductive /\ [Next]_vars => [Serial!Next]_(Serial!vars)
<1> SUFFICES ASSUME ~DdlCommitsFail, Inductive, [Next]_vars
             PROVE  Serial!Next \/ UNCHANGED Serial!vars
  OBVIOUS
<1>1. CASE UNCHANGED vars
  BY <1>1 DEF vars, Serial!vars, ByName, RowsOf, RootOf
<1>2. CASE Next
  <2>1. PICK c \in Clients : ClientStep(c)
    BY <1>2 DEF Next, ClientStep
  <2>2. Engine /\ CatalogFollows /\ Copies /\ Blank
    BY DEF Inductive
  <2>3. CASE Serial!Ask(c)
    BY <2>3 DEF Serial!Next
  <2>4. CASE Asks' = Asks \/ Serial!Answer(c)
    <3>1. CASE Named' = Named /\ Work' = Work
      <4>1. CASE Asks' = Asks
        BY <3>1, <4>1 DEF Serial!vars, Named, Work, Asks
      <4>2. CASE Serial!Answer(c)
        BY <3>1, <4>2 DEF Serial!Next, Named, Work
      <4> QED  BY <2>4, <4>1, <4>2
    <3>2. CASE \/ Serial!Begin(c, Named)
               \/ Serial!Create(c) \/ Serial!Drop(c) \/ Serial!Write(c)
               \/ Serial!Commit(c) \/ Serial!Rollback(c)
      BY <2>4, <3>2 DEF Serial!Next, Named, Asks
    <3> QED  BY <2>1, <2>2, <3>1, <3>2, StepWorks
  <2> QED  BY <2>1, <2>2, <2>3, <2>4, StepAsks
<1> QED  BY <1>1, <1>2

\* Statements and transactions take effect one after another on tables by name:
\* each step of run_one, execute_on and the transactions of the interfaces is one
\* step of SerialTables, or changes nothing in it, whatever the copies of table
\* definitions (clone_table) and root pages; provided that commits of DDL succeed.
THEOREM EngineImplementsSerial ==
    ASSUME ~DdlCommitsFail
    PROVE  Spec => ImplementsSerial
<1> QED
  BY InitSerial, StepSerial, EngineInvariant, PTL DEF Spec, ImplementsSerial, Serial!Spec
===============================================================================
