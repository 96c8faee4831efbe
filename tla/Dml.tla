--------------------------------- MODULE Dml ---------------------------------
(***************************************************************************)
(* INSERT, UPDATE and DELETE row by row (planner/mod.rs, executor/dml.rs). *)
(* A statement changes the tree of its table as it goes; when it fails,    *)
(* what it has done so far stays for its transaction to roll back.         *)
(*                                                                         *)
(* A tree is a function from rowids to stored records; a record written    *)
(* before an ALTER TABLE ADD COLUMN is shorter than its table.             *)
(***************************************************************************)
EXTENDS Executor

CONSTANT Schema      \* table name -> sequence of [name, type, unique, not_null, default]

\* Parsed statements.
InsertInto(table, cols, rows, or_replace) ==
    [k |-> "insert", table |-> table, cols |-> cols, rows |-> rows, or_replace |-> or_replace]
UpdateSet(table, sets, where) == [k |-> "update", table |-> table, sets |-> sets, where |-> where]
DeleteFrom(table, where) == [k |-> "delete", table |-> table, where |-> where]

Width(table) == Len(Schema[table])
AliasOf(table) == Catalog[table].alias         \* <<index>> from zero, or <<>>
IsAlias(table, i) == AliasOf(table) = <<i - 1>>

column_index(table, name) ==
    FirstOf({i \in 1..Width(table) : Schema[table][i].name = name})

-----------------------------------------------------------------------------
(* Planning. *)

table_scope(table) == scan_for(table).columns

plan_insert(s) ==
    LET target == IF s.cols = <<>> THEN [i \in 1..Width(s.table) |-> i]
                  ELSE [i \in 1..Len(s.cols) |-> column_index(s.table, s.cols[i])]
        Add(acc, r) == [rows |-> Append(acc.rows, r.xs), ctx |-> r.ctx]
        Step(acc, row) == Add(acc, ResolveAll(row, <<>>, acc.ctx))
        Plan(cols, all) ==
            [k |-> "insert", table |-> s.table, target_cols |-> cols, rows |-> all.rows,
             or_replace |-> s.or_replace,
             ok |-> all.ctx.ok /\ \A i \in 1..Len(cols) : cols[i] # 0]
    IN  Plan(target, FoldLeft(Step, [rows |-> <<>>, ctx |-> NoCtx], s.rows))

plan_update(s) ==
    LET scope == table_scope(s.table)
        Plan(cols, values, where) ==
            [k |-> "update", table |-> s.table, predicate |-> where.xs,
             assignments |-> [i \in 1..Len(cols) |-> <<cols[i], values.xs[i]>>],
             ok |-> where.ctx.ok /\ \A i \in 1..Len(cols) : cols[i] # 0]
        AfterSets(values) == Plan([i \in 1..Len(s.sets) |-> column_index(s.table, s.sets[i].col)],
                                values, ResolveOpt(s.where, scope, values.ctx))
    IN  AfterSets(ResolveAll([i \in 1..Len(s.sets) |-> s.sets[i].e], scope, NoCtx))

plan_delete(s) ==
    LET Plan(where) == [k |-> "delete", table |-> s.table, predicate |-> where.xs, ok |-> where.ctx.ok]
    IN  Plan(ResolveOpt(s.where, table_scope(s.table), NoCtx))

-----------------------------------------------------------------------------
(* The state of a running statement. *)

Running(tree) == [tree |-> tree, count |-> 0, last_rowid |-> 0, outcome |-> "ok"]
Fails(st, outcome) == [st EXCEPT !.outcome = outcome]
\* How a value that is none ends the statement.
EndOf(v) == IF v = Panicked THEN "panic" ELSE "error"

WithRow(tree, rowid, record) ==
    [k \in DOMAIN tree \cup {rowid} |-> IF k = rowid THEN record ELSE tree[k]]
Without(tree, rowid) == [k \in DOMAIN tree \ {rowid} |-> tree[k]]

CountPlusOne(tree) == Cardinality(DOMAIN tree) + 1
\* tree.last_key() + 1 of an i64 that wraps, as in a release build.
NextRowid(tree) ==
    LET After(last) == IF last = MaxInt THEN MinInt ELSE last + 1
    IN  After(IF DOMAIN tree = {} THEN 0
              ELSE CHOOSE k \in DOMAIN tree : \A j \in DOMAIN tree : j <= k)

\* Booleans and documents are stored as integers and texts.
StoredAs(v) == CASE v.t = "Boolean" -> Integer(IF v.z THEN 1 ELSE 0)
                 [] v.t = "Json" -> Text(v.s)
                 [] OTHER -> v

with_alias_nulled(table, values) ==
    [i \in 1..Len(values) |-> IF IsAlias(table, i) THEN Null ELSE StoredAs(values[i])]

NullViolation(table, values) ==
    \E i \in 1..Width(table) : Schema[table][i].not_null /\ is_null(values[i])

\* The first row that has the value of a UNIQUE column; <<>> is none.
find_unique_conflict(table, tree, values, exclude) ==
    LET First(rows) == IF rows = {} THEN <<>> ELSE <<CHOOSE k \in rows : \A j \in rows : k <= j>>
        Clashes(record, cols) ==
            \E i \in cols : i <= Len(record) /\ SameValue(record[i], values[i])
        With(cols) == First({k \in DOMAIN tree \ exclude : Clashes(tree[k], cols)})
    IN  With({i \in 1..Width(table) :
                 Schema[table][i].unique /\ ~IsAlias(table, i) /\ ~is_null(values[i])})

-----------------------------------------------------------------------------
(* INSERT. *)

\* values.coerce_to; Nothing is its error.
Coerced(table, i, v) == IF IsValue(v) THEN coerce_to(v, Schema[table][i].type) ELSE v

\* values is a full row without errors; the row that is in its way, or <<>>, is
\* deleted or refused before the rowid is looked at.
PutRow(st, table, values, rowid, conflict, or_replace) ==
    LET freed == IF conflict = <<>> THEN st.tree ELSE Without(st.tree, conflict[1])
    IN  IF NullViolation(table, values) \/ (conflict # <<>> /\ ~or_replace) THEN Fails(st, "error")
        ELSE IF rowid \in DOMAIN freed /\ ~or_replace /\ AliasOf(table) # <<>>
        THEN Fails([st EXCEPT !.tree = freed], "error")
        ELSE [tree |-> WithRow(freed, rowid, with_alias_nulled(table, values)),
              count |-> st.count + 1, last_rowid |-> rowid, outcome |-> "ok"]

StoreRow(st, table, values, or_replace) ==
    LET At(rowid, full) == PutRow(st, table, full, rowid,
                                  find_unique_conflict(table, st.tree, full, {}), or_replace)
        With(rowid) == At(rowid, [i \in 1..Len(values) |->
                                     IF IsAlias(table, i) THEN Integer(rowid) ELSE values[i]])
        Given(key) == IF key = Nothing THEN Fails(st, "error") ELSE With(key.v)
        alias == SelectSeq(AliasOf(table), LAMBDA i : ~is_null(values[i + 1]))
    IN  IF alias = <<>> THEN With(NextRowid(st.tree)) ELSE Given(as_i64(values[alias[1] + 1]))

InsertRow(st, plan, exprs, params) ==
    LET table == plan.table
        slots == plan.target_cols
        LastOf(k) == CHOOSE n \in k : \A m \in k : m <= n
        Value(i, coerced) ==
            IF \E n \in 1..Len(slots) : slots[n] = i
            THEN coerced[LastOf({n \in 1..Len(slots) : slots[n] = i})] ELSE Schema[table][i].default
        Full(coerced) == [i \in 1..Width(table) |-> Value(i, coerced)]
        Stored(vs, coerced, bad) ==
            IF bad # 0 THEN Fails(st, EndOf(vs[bad]))
            ELSE StoreRow(st, table, Full(coerced), plan.or_replace)
        Checked(vs, coerced) ==
            Stored(vs, coerced, FirstOf({n \in 1..Len(vs) : ~IsValue(vs[n]) \/ coerced[n] = Nothing}))
        Evaluated(vs) == Checked(vs, [n \in 1..Len(vs) |-> Coerced(table, slots[n], vs[n])])
    IN  IF st.outcome # "ok" THEN st
        ELSE IF Len(exprs) # Len(slots) THEN Fails(st, "error")
        ELSE Evaluated(EvalAll(exprs, Row(0, <<>>), params))

insert(tree, plan, params) ==
    FoldLeft(LAMBDA st, exprs : InsertRow(st, plan, exprs, params), Running(tree), plan.rows)

-----------------------------------------------------------------------------
(* UPDATE and DELETE. *)

\* The rows whose predicate is true, with their rowids in the alias column but
\* as short as they are stored.
scan_matching(table, tree, predicate, params) ==
    LET Matching(stored) == IF predicate = <<>> THEN stored
                            ELSE FilterExec(stored, predicate[1], params)
    IN  Matching(Stream(ScanFrom([defaults |-> <<>>, rowid_alias |-> AliasOf(table)], tree, MinInt)))

\* The assignments, left to right, each on the row the ones before have left.
\* A column that a short record does not have is out of bounds.
Assigned(row, plan, params) ==
    LET Keyed(st, i, c, key) ==
            IF key = Nothing THEN Fails(st, "error")
            ELSE IF i > Len(st.values) THEN Fails(st, "panic")
            ELSE [st EXCEPT !.values[i] = c, !.rowid = key.v]
        Set(st, i, v, c) ==
            IF ~IsValue(v) THEN Fails(st, EndOf(v))
            ELSE IF c = Nothing THEN Fails(st, "error")
            ELSE Keyed(st, i, c, IF IsAlias(plan.table, i) THEN as_i64(c)
                                 ELSE [t |-> "Some", v |-> st.rowid])
        Value(st, i, v) == Set(st, i, v, Coerced(plan.table, i, v))
        Step(st, a) == IF st.outcome # "ok" THEN st
                       ELSE Value(st, a[1], eval(a[2], st.values, row.row_id, params))
    IN  FoldLeft(Step, [values |-> row.values, rowid |-> row.row_id, outcome |-> "ok"],
                 plan.assignments)

\* new is the row with its assignments.
Rewritten(st, row, table, new) ==
    LET moved == new.rowid # row.row_id
        Missing == \E i \in 1..Width(table) : Schema[table][i].not_null /\ i > Len(new.values)
        Checked(full) ==
            IF \/ NullViolation(table, full)
               \/ find_unique_conflict(table, st.tree, full, {row.row_id}) # <<>>
               \/ moved /\ new.rowid \in DOMAIN st.tree
            THEN Fails(st, "error")
            ELSE [st EXCEPT !.tree = WithRow(IF moved THEN Without(@, row.row_id) ELSE @, new.rowid,
                                             with_alias_nulled(table, new.values)),
                            !.count = @ + 1]
    IN  IF new.outcome # "ok" THEN Fails(st, new.outcome)
        ELSE IF Missing THEN Fails(st, "panic")
        ELSE Checked([i \in 1..Width(table) |->
                         IF i <= Len(new.values) THEN new.values[i] ELSE Null])

UpdateRow(st, row, plan, params) ==
    IF st.outcome # "ok" THEN st
    ELSE Rewritten(st, row, plan.table, Assigned(row, plan, params))

\* The matching rows are read before the first of them is changed.
OverRows(tree, matching, Step(_, _)) ==
    IF matching.bad THEN Fails(Running(tree), "error")
    ELSE FoldLeft(Step, Running(tree), matching.rows)

update(tree, plan, matching, params) ==
    OverRows(tree, matching, LAMBDA st, row : UpdateRow(st, row, plan, params))

delete(tree, matching) ==
    OverRows(tree, matching,
             LAMBDA st, row : [st EXCEPT !.tree = Without(@, row.row_id), !.count = @ + 1])

-----------------------------------------------------------------------------
(* A statement in a transaction of its own (SqlEngine::run_one): planned,   *)
(* its subqueries replaced on a snapshot, run, and kept only if it did not  *)
(* fail.                                                                    *)

\* The expressions of a plan changed by X.
MapDml(plan, X(_)) ==
    LET All(xs) == [i \in 1..Len(xs) |-> X(xs[i])]
    IN  CASE plan.k = "insert" -> [plan EXCEPT !.rows = [i \in 1..Len(@) |-> All(@[i])]]
          [] plan.k = "update" ->
                [plan EXCEPT !.predicate = All(@),
                             !.assignments = [i \in 1..Len(@) |-> <<@[i][1], X(@[i][2])>>]]
          [] plan.k = "delete" -> [plan EXCEPT !.predicate = All(@)]

rewrite_dml_subqueries(plan, db, params) ==
    MapDml(plan, LAMBDA x : rewrite_expr_subqueries(x, db, params))

DmlExprs(plan) ==
    CASE plan.k = "insert" -> FlattenSeq(plan.rows)
      [] plan.k = "update" ->
            plan.predicate \o [i \in 1..Len(plan.assignments) |-> plan.assignments[i][2]]
      [] plan.k = "delete" -> plan.predicate

Matched(plan, tree, matching, params) ==
    IF plan.k = "update" THEN update(tree, plan, matching, params) ELSE delete(tree, matching)
Perform(plan, tree, params) ==
    IF Some(DmlExprs(plan), LAMBDA x : XFails(x)) THEN Fails(Running(tree), "error")
    ELSE IF plan.k = "insert" THEN insert(tree, plan, params)
    ELSE Matched(plan, tree, scan_matching(plan.table, tree, plan.predicate, params), params)

plan_dml(s) == CASE s.k = "insert" -> plan_insert(s)
                 [] s.k = "update" -> plan_update(s)
                 [] s.k = "delete" -> plan_delete(s)
Kept(done, tree) == IF done.outcome = "ok" THEN done ELSE [done EXCEPT !.tree = tree]
RunPlanned(plan, tree, db, params) ==
    IF ~plan.ok THEN Fails(Running(tree), "error")
    ELSE Kept(Perform(rewrite_dml_subqueries(plan, db, params), tree, params), tree)
Execute(s, db, params) == RunPlanned(plan_dml(s), db[s.table], db, params)
=============================================================================
