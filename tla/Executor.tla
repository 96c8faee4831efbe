------------------------------- MODULE Executor -------------------------------
(***************************************************************************)
(* Running a plan (executor/*.rs) and replacing subqueries by their values *)
(* before it is built (lib.rs).                                            *)
(*                                                                         *)
(* An executor is pulled row by row, so what it yields is a stream: the    *)
(* rows it returns before it ends, and bad, which says that it ends with   *)
(* an error instead.  A consumer that stops early never sees the error; one *)
(* that drains its input before it yields a row fails at once.             *)
(***************************************************************************)
EXTENDS Planner

Stream(rows) == [rows |-> rows, bad |-> FALSE]
Broken == [rows |-> <<>>, bad |-> TRUE]
Row(row_id, values) == [row_id |-> row_id, values |-> values]

\* What a consumer returns that turns every row into a stream of its own.
Pull(input, Of(_)) ==
    LET Join(acc, more) == [rows |-> acc.rows \o more.rows, bad |-> more.bad]
        Step(acc, row) == IF acc.bad THEN acc ELSE Join(acc, Of(row))
    IN  [FoldLeft(Step, Stream(<<>>), input.rows) EXCEPT !.bad = @ \/ input.bad]

\* One value per expression; the first that is none breaks the stream.
EvalAll(xs, row, params) == [i \in 1..Len(xs) |-> eval(xs[i], row.values, row.row_id, params)]
AllValues(vs) == \A i \in 1..Len(vs) : IsValue(vs[i])

-----------------------------------------------------------------------------
(* Orders of rows. *)

\* The first pair that differs orders two rows.
cmp_keys(a, b) ==
    LET At(i) == IF i = 0 THEN Ordering(Len(a), Len(b)) ELSE order_key(a[i], b[i])
    IN  At(FirstOf({i \in 1..Len(a) : i <= Len(b) /\ order_key(a[i], b[i]) # "Equal"}))

\* SameValue takes NULL for NULL, as both of these do.
NullsDiffer(a, b) == Len(a) = Len(b) /\ \A i \in 1..Len(a) : ~is_null(a[i]) /\ SameValue(a[i], b[i])
keys_eq(a, b) == Len(a) = Len(b) /\ \A i \in 1..Len(a) : SameValue(a[i], b[i])
rows_eq(a, b) == keys_eq(a, b)

\* slice::sort_by is stable; Less decides.
SortStable(rows, Less(_, _)) ==
    LET Insert(done, row) ==
            InsertAt(done, FirstOf({k \in 1..Len(done) : Less(row, done[k])} \cup {Len(done) + 1}), row)
    IN  FoldLeft(Insert, <<>>, rows)

dedup(rows) ==
    LET Step(out, row) == IF \E k \in 1..Len(out) : rows_eq(out[k].values, row.values) THEN out
                          ELSE Append(out, row)
    IN  FoldLeft(Step, <<>>, rows)

sort_rows(rows) == SortStable(rows, LAMBDA a, b : cmp_keys(a.values, b.values) = "Less")

-----------------------------------------------------------------------------
(* The operators. *)

\* tree is a function from rowids to stored records.  Every call seeks the
\* key after the one before; the largest key ends the scan.
RECURSIVE ScanFrom(_, _, _)
ScanFrom(scan, tree, next_key) ==
    LET Padded(stored) == stored \o SubSeq(scan.defaults, Len(stored) + 1, Len(scan.defaults))
        Aliased(key, values) ==
            [i \in 1..Len(values) |-> IF <<i - 1>> = scan.rowid_alias THEN Integer(key) ELSE values[i]]
        From(key) == <<Row(key, Aliased(key, Padded(tree[key])))>>
                        \o (IF key = MaxInt THEN <<>> ELSE ScanFrom(scan, tree, key + 1))
        At(keys) == IF keys = {} THEN <<>> ELSE From(CHOOSE k \in keys : \A j \in keys : k <= j)
    IN  At({k \in DOMAIN tree : k >= next_key})

FilterExec(input, predicate, params) ==
    LET Passes(row, v) == IF ~IsValue(v) THEN Broken
                          ELSE Stream(IF is_truthy(v) THEN <<row>> ELSE <<>>)
    IN  Pull(input, LAMBDA row : Passes(row, eval(predicate, row.values, row.row_id, params)))

ProjectExec(input, exprs, params) ==
    LET Out(row, vs) == IF AllValues(vs) THEN Stream(<<Row(row.row_id, vs)>>) ELSE Broken
    IN  Pull(input, LAMBDA row : Out(row, EvalAll(exprs, row, params)))

\* The right side is drained first; a combined row has the left one's rowid.
NestedLoopJoin(left, right, n, params) ==
    LET Combined(l, values) == Row(l.row_id, l.values \o values)
        Joining(pairs) == IF n.predicate = <<>> THEN pairs
                          ELSE FilterExec(pairs, n.predicate[1], params)
        OrNulls(l, matched) ==
            IF n.left_outer /\ matched = Stream(<<>>)
            THEN Stream(<<Combined(l, [k \in 1..Len(columns(n.right)) |-> Null])>>) ELSE matched
        Of(l) == OrNulls(l, Joining(Stream([k \in 1..Len(right.rows) |->
                                               Combined(l, right.rows[k].values)])))
    IN  IF right.bad THEN Broken ELSE Pull(left, Of)

\* Rows are sorted by keys that are evaluated once each.
SortExec(input, keys, params) ==
    LET Xs == [i \in 1..Len(keys) |-> keys[i].x]
        At(a, b, i) == i # 0 /\ order_key(a[i], b[i]) = (IF keys[i].asc THEN "Less" ELSE "Greater")
        Less(a, b) == At(a, b, FirstOf({i \in 1..Len(keys) : order_key(a[i], b[i]) # "Equal"}))
        RowsOf(keyed) == Stream([k \in 1..Len(keyed) |-> keyed[k].row])
        Sorted(keyed) ==
            IF \E k \in 1..Len(keyed) : ~AllValues(keyed[k].key) THEN Broken
            ELSE RowsOf(SortStable(keyed, LAMBDA a, b : Less(a.key, b.key)))
    IN  IF input.bad THEN Broken
        ELSE Sorted([k \in 1..Len(input.rows) |->
                        [row |-> input.rows[k], key |-> EvalAll(Xs, input.rows[k], params)]])

\* Only the rows that are skipped or returned are pulled.
LimitExec(input, limit, offset) ==
    LET rows == input.rows
    IN  IF limit # <<>> /\ Len(rows) >= offset + limit[1]
        THEN Stream(SubSeq(rows, offset + 1, offset + limit[1]))
        ELSE [rows |-> SubSeq(rows, offset + 1, Len(rows)), bad |-> input.bad]

DistinctExec(input) == [input EXCEPT !.rows = dedup(@)]

SetOpExec(l, r, n) ==
    LET InRight(row) == \E k \in 1..Len(r.rows) : rows_eq(r.rows[k].values, row.values)
        both == l.rows \o r.rows
    IN  IF l.bad \/ r.bad THEN Broken
        ELSE Stream(CASE n.kind = "Union" -> IF n.all THEN both ELSE sort_rows(dedup(both))
                      [] n.kind = "Intersect" -> sort_rows(dedup(SelectSeq(l.rows, InRight)))
                      [] n.kind = "Except" ->
                            sort_rows(dedup(SelectSeq(l.rows, LAMBDA row : ~InRight(row)))))

-----------------------------------------------------------------------------
(* Aggregation. *)

NewAcc == [count |-> 0, sum |-> 0, sum_seen |-> FALSE, extreme |-> <<>>, distinct |-> <<>>,
           gc |-> "", gc_seen |-> FALSE]

\* Acc::update; sums are f64 in halves, n is what as_f64 makes of v.
Accumulated(a, func, v, n, sep) ==
    CASE func = "COUNT" -> [a EXCEPT !.count = @ + 1]
      [] func \in {"SUM", "AVG"} ->
            IF n = Nothing THEN a
            ELSE [a EXCEPT !.sum = RoundF64(@ + n.v), !.sum_seen = TRUE, !.count = @ + 1]
      [] func \in {"MIN", "MAX"} ->
            [a EXCEPT !.extreme =
                IF @ = <<>> \/ compare(v, @[1]) = (IF func = "MIN" THEN "Less" ELSE "Greater")
                THEN <<v>> ELSE @]
      [] func = "GROUP_CONCAT" ->
            [a EXCEPT !.gc = (IF a.gc_seen THEN @ \o sep ELSE @) \o to_display_string(v),
                      !.gc_seen = TRUE]
acc_update(acc, agg, v, sep) ==
    LET Seen == \E k \in 1..Len(acc.distinct) : SameValue(acc.distinct[k], v)
    IN  CASE agg.func = "CountStar" -> [acc EXCEPT !.count = @ + 1]
          [] agg.func # "CountStar" /\ (is_null(v) \/ (agg.distinct /\ Seen)) -> acc
          [] OTHER -> Accumulated(IF agg.distinct THEN [acc EXCEPT !.distinct = Append(@, v)] ELSE acc,
                                  agg.func, v, as_f64(v), sep)

finalize(acc, agg) ==
    CASE agg.func \in {"COUNT", "CountStar"} -> Integer(acc.count)
      [] agg.func = "SUM" ->
            IF ~acc.sum_seen THEN Null
            ELSE IF IsWhole(acc.sum) THEN Integer(I64OfF64(acc.sum)) ELSE Real(acc.sum)
      [] agg.func = "AVG" ->
            IF acc.count = 0 THEN Null ELSE Real(EvalF64("Div", acc.sum, 2 * acc.count))
      [] agg.func \in {"MIN", "MAX"} -> IF acc.extreme = <<>> THEN Null ELSE acc.extreme[1]
      [] agg.func = "GROUP_CONCAT" -> IF acc.gc_seen THEN Text(acc.gc) ELSE Null

\* A group is [key, accs, rep]; rep is <<>> where has_rep is false.  An input
\* row is taken as [row, key, args, seps] with the values of its expressions.
AggInput(n, row, params) ==
    LET One(xs, other) == IF xs = <<>> THEN other
                          ELSE eval(xs[1], row.values, row.row_id, params)
    IN  [row |-> row,
         key |-> EvalAll(n.group_by, row, params),
         args |-> [i \in 1..Len(n.aggs) |-> One(n.aggs[i].arg, Null)],
         seps |-> [i \in 1..Len(n.aggs) |-> One(n.aggs[i].sep, Text(","))]]

\* Group::new takes the row of a SELECT without FROM for no row.
NewGroup(n, key, rep) ==
    [key |-> key, accs |-> [i \in 1..Len(n.aggs) |-> NewAcc],
     rep |-> IF rep = <<Row(0, <<>>)>> THEN <<>> ELSE rep]

Grouped(n, inputs) ==
    LET Updated(g, in) ==
            [g EXCEPT !.accs = [i \in 1..Len(n.aggs) |->
                acc_update(@[i], n.aggs[i], in.args[i], to_display_string(in.seps[i]))]]
        Into(groups, in, k) ==
            IF k = 0 THEN Append(groups, Updated(NewGroup(n, in.key, <<in.row>>), in))
            ELSE [groups EXCEPT ![k] = Updated(@, in)]
        Step(groups, in) ==
            Into(groups, in, FirstOf({k \in 1..Len(groups) : keys_eq(groups[k].key, in.key)}))
    IN  FoldLeft(Step, <<>>, inputs)

\* The output row of a group; final are the aggregates it has come to.
GroupOutput(n, g, final, params) ==
    LET Width == n.base_len
        Augmented(rep) == rep \o [i \in 1..(Width - Len(rep)) |-> Null] \o final
        Row0 == IF g.rep = <<>> THEN Row(0, <<>>) ELSE g.rep[1]
        Value(o) == IF "agg" \in DOMAIN o THEN final[o.agg + 1]
                    ELSE IF g.rep = <<>> THEN Null
                    ELSE eval(o.x, Row0.values, Row0.row_id, params)
        Out(values) == IF AllValues(values) THEN Stream(<<Row(0, values)>>) ELSE Broken
        Having(v) == IF ~IsValue(v) THEN Broken
                     ELSE IF ~is_truthy(v) THEN Stream(<<>>)
                     ELSE Out([i \in 1..Len(n.output) |-> Value(n.output[i])])
    IN  Having(IF n.having = <<>> THEN Boolean(TRUE)
               ELSE eval(n.having[1], Augmented(Row0.values), Row0.row_id, params))

\* Ordered groups, without one for no input unless there are no keys.
OrderedGroups(n, found) ==
    IF n.group_by = <<>> /\ found = <<>> THEN <<NewGroup(n, <<>>, <<>>)>>
    ELSE SortStable(found, LAMBDA a, b : cmp_keys(a.key, b.key) = "Less")

\* The whole output is computed before its first row is returned.
GroupsOut(n, groups, params) ==
    Pull(Stream(groups), LAMBDA g : GroupOutput(
            n, g, [i \in 1..Len(n.aggs) |-> finalize(g.accs[i], n.aggs[i])], params))
Whole(out) == IF out.bad THEN Broken ELSE out
AggOver(n, inputs, params) ==
    IF \E k \in 1..Len(inputs) : ~(/\ AllValues(inputs[k].key)
                                   /\ AllValues(inputs[k].args) /\ AllValues(inputs[k].seps))
    THEN Broken
    ELSE Whole(GroupsOut(n, OrderedGroups(n, Grouped(n, inputs)), params))
AggExec(input, n, params) ==
    IF input.bad THEN Broken
    ELSE AggOver(n, [k \in 1..Len(input.rows) |-> AggInput(n, input.rows[k], params)], params)

-----------------------------------------------------------------------------
(* executor::build, with db: table name -> tree. *)

RECURSIVE build(_, _, _)
build(n, db, params) ==
    LET Run(m) == build(m, db, params)
    IN  CASE n.p = "Dual" -> Stream(<<Row(0, <<>>)>>)
          [] n.p = "Scan" -> Stream(ScanFrom(n, db[n.table], MinInt))
          [] n.p = "Filter" -> FilterExec(Run(n.input), n.predicate, params)
          [] n.p = "Project" -> ProjectExec(Run(n.input), n.exprs, params)
          [] n.p = "NestedLoopJoin" -> NestedLoopJoin(Run(n.left), Run(n.right), n, params)
          [] n.p = "Aggregate" -> AggExec(Run(n.input), n, params)
          [] n.p = "Sort" -> SortExec(Run(n.input), n.keys, params)
          [] n.p = "Limit" -> LimitExec(Run(n.input), n.limit, n.offset)
          [] n.p = "Distinct" -> DistinctExec(Run(n.input))
          [] n.p = "SetOp" -> SetOpExec(Run(n.left), Run(n.right), n)

-----------------------------------------------------------------------------
(* Subqueries become constants; Literal(Failed) stands for the error of one, *)
(* which fails the statement before any of it is run.                       *)

RECURSIVE rewrite_expr_subqueries(_, _, _)
RECURSIVE rewrite_plan_subqueries(_, _, _)
RECURSIVE subquery_rows(_, _, _)

FirstValue(row) == IF row.values = <<>> THEN Null ELSE row.values[1]

\* A subquery that has answered rows; a is the expression before IN.
Replacement(x, rows, a) ==
    IF rows.bad THEN Literal(Failed)
    ELSE CASE x.e = "ScalarSubquery" ->
                 Literal(IF rows.rows = <<>> THEN Null ELSE FirstValue(rows.rows[1]))
           [] x.e = "Exists" -> Literal(Boolean((rows.rows # <<>>) # x.negated))
           [] x.e = "InSubquery" ->
                 InList(a, [i \in 1..Len(rows.rows) |-> Literal(FirstValue(rows.rows[i]))], x.negated)

rewrite_expr_subqueries(x, db, params) ==
    LET Re(y) == rewrite_expr_subqueries(y, db, params)
        Each(ys) == [i \in 1..Len(ys) |-> Re(ys[i])]
    IN
    CASE x.e \in {"Literal", "Column", "RowId", "Param"} -> x
      [] x.e \in {"Binary", "Like"} -> [x EXCEPT !.a = Re(@), !.b = Re(@)]
      [] x.e \in {"Unary", "IsNull", "Cast"} -> [x EXCEPT !.a = Re(@)]
      [] x.e = "InList" -> [x EXCEPT !.a = Re(@), !.list = Each(@)]
      [] x.e = "Function" -> [x EXCEPT !.args = Each(@)]
      [] x.e = "Case" ->
            [x EXCEPT !.operand = Each(@), !.orElse = Each(@),
                      !.whens = [i \in 1..Len(@) |-> Each(@[i])]]
      [] x.e \in {"ScalarSubquery", "Exists", "InSubquery"} ->
            Replacement(x, subquery_rows(x.q, db, params),
                        IF x.e = "InSubquery" THEN Re(x.a) ELSE Literal(Null))

rewrite_plan_subqueries(n, db, params) ==
    MapNode(n, LAMBDA m : rewrite_plan_subqueries(m, db, params),
               LAMBDA x : rewrite_expr_subqueries(x, db, params))

Some(xs, P(_)) == \E i \in 1..Len(xs) : P(xs[i])

\* Is there an error among the constants of an expression, of a plan?
RECURSIVE XFails(_)
XFails(x) ==
    LET AnyFails(xs) == Some(xs, LAMBDA y : XFails(y))
    IN  CASE x.e = "Literal" -> x.v = Failed
          [] x.e \in {"Binary", "Like"} -> XFails(x.a) \/ XFails(x.b)
          [] x.e \in {"Unary", "IsNull", "Cast"} -> XFails(x.a)
          [] x.e = "InList" -> XFails(x.a) \/ AnyFails(x.list)
          [] x.e = "Function" -> AnyFails(x.args)
          [] x.e = "Case" -> AnyFails(x.operand \o x.orElse \o FlattenSeq(x.whens))
          [] OTHER -> FALSE

NodeInputs(n) == CASE n.p \in {"Dual", "Scan"} -> <<>>
                   [] n.p \in {"NestedLoopJoin", "SetOp"} -> <<n.left, n.right>>
                   [] OTHER -> <<n.input>>
NodeExprs(n) ==
    CASE n.p = "Filter" -> <<n.predicate>>
      [] n.p = "Project" -> n.exprs
      [] n.p = "NestedLoopJoin" -> n.predicate
      [] n.p = "Aggregate" ->
            n.group_by \o n.having \o FlattenSeq([i \in 1..Len(n.aggs) |-> n.aggs[i].arg \o n.aggs[i].sep])
              \o FlattenSeq([i \in 1..Len(n.output) |->
                                IF "x" \in DOMAIN n.output[i] THEN <<n.output[i].x>> ELSE <<>>])
      [] n.p = "Sort" -> [i \in 1..Len(n.keys) |-> n.keys[i].x]
      [] OTHER -> <<>>

RECURSIVE SubqueryFails(_)
SubqueryFails(n) == \/ Some(NodeExprs(n), LAMBDA x : XFails(x))
                    \/ Some(NodeInputs(n), LAMBDA m : SubqueryFails(m))

RunRewritten(node, db, params) ==
    IF SubqueryFails(node) THEN Broken ELSE build(node, db, params)
RunPlan(plan, db, params) == RunRewritten(rewrite_plan_subqueries(plan, db, params), db, params)

PlannedRows(plan, db, params) == IF ~plan.ok THEN Broken ELSE RunPlan(plan.node, db, params)
subquery_rows(q, db, params) == PlannedRows(plan_subquery(q), db, params)

\* SqlEngine::build_query: <<>> is a statement that is refused.
AnswerOf(plan, db, params) ==
    IF ~plan.ctx.ok THEN <<>> ELSE <<RunPlan(fold_plan(plan.node), db, params)>>
build_query(q, db, params) == AnswerOf(plan_query(q), db, params)
=============================================================================
