------------------------------- MODULE Planner -------------------------------
(***************************************************************************)
(* From a parsed query to a plan (planner/mod.rs, planner/resolver.rs,     *)
(* planner/optimizer.rs): names become column numbers, placeholders become *)
(* parameter numbers, and the clauses become a tree of plan nodes.         *)
(*                                                                         *)
(* A parsed expression is a record with its kind in s and its operands in  *)
(* kids, in the order the resolver visits them.  Names are case-folded.    *)
(* A `Result` is threaded through the planner as ctx: next_param is the    *)
(* counter of the code, ok becomes FALSE with the first error; what is     *)
(* planned after an error is of no account.                                *)
(***************************************************************************)
EXTENDS Expressions

CONSTANT Catalog     \* table name -> [columns, alias, defaults]: see scan_for

Id(name) == [s |-> "Identifier", name |-> name, kids |-> <<>>]
Compound(table, name) == [s |-> "Compound", table |-> table, name |-> name, kids |-> <<>>]
Val(v) == [s |-> "Value", v |-> v, kids |-> <<>>]
\* n is 0 for `?`; nth says the how many-th placeholder of the text it is.
Placeholder(n, nth) == [s |-> "Placeholder", n |-> n, nth |-> nth, kids |-> <<>>]
UnaryOp(op, e) == [s |-> "UnaryOp", op |-> op, kids |-> <<e>>]
BinaryOp(op, l, r) == [s |-> "BinaryOp", op |-> op, kids |-> <<l, r>>]
NullTest(e, negated) == [s |-> "IsNull", negated |-> negated, kids |-> <<e>>]
InValues(e, list, negated) == [s |-> "InList", negated |-> negated, kids |-> <<e>> \o list]
Between(e, lo, hi, negated) == [s |-> "Between", negated |-> negated, kids |-> <<e, lo, hi>>]
Call(name, args) ==
    [s |-> "Function", name |-> name, star |-> FALSE, distinct |-> FALSE, kids |-> args]
CallDistinct(name, args) == [Call(name, args) EXCEPT !.distinct = TRUE]
CountStar == [Call("COUNT", <<>>) EXCEPT !.star = TRUE]
If(cond, then, else) == [s |-> "Case", kids |-> <<cond, then, else>>]
Scalar(q) == [s |-> "Subquery", q |-> q, kids |-> <<>>]
ExistsIn(q, negated) == [s |-> "Exists", q |-> q, negated |-> negated, kids |-> <<>>]
InQuery(e, q, negated) == [s |-> "InSubquery", q |-> q, negated |-> negated, kids |-> <<e>>]

NoCtx == [next_param |-> 0, ok |-> TRUE]
Refuse(ctx) == [ctx EXCEPT !.ok = FALSE]
RefuseUnless(ctx, cond) == IF cond THEN ctx ELSE Refuse(ctx)

-----------------------------------------------------------------------------
(* Scopes: sequences of [table, name] with table <<>> or <<name>>. *)

\* Column numbers count from zero; -1 is an ambiguous or unknown name.
resolve(scope, table, name) ==
    LET Only(found) == IF \E i \in found : found = {i} THEN (CHOOSE i \in found : TRUE) - 1 ELSE -1
    IN  Only({i \in 1..Len(scope) :
                 scope[i].name = name /\ table \in {<<>>, scope[i].table}})

\* <<index, next>>
param_index(n, next_param) ==
    IF n >= 1 THEN <<n - 1, IF n > next_param THEN n ELSE next_param>>
    ELSE <<next_param, next_param + 1>>

RECURSIVE resolve_expr(_, _, _)
ResolveAll(es, scope, ctx) ==
    LET Add(acc, r) == [xs |-> Append(acc.xs, r.x), ctx |-> r.ctx]
        Step(acc, e) == Add(acc, resolve_expr(e, scope, acc.ctx))
    IN  FoldLeft(Step, [xs |-> <<>>, ctx |-> ctx], es)
ResolveOpt(es, scope, ctx) == ResolveAll(es, scope, ctx)   \* at most one

\* e with its operands k resolved; <<>> is an error.
Resolved(e, scope, k) ==
    LET ColumnOr(i, other) == IF i >= 0 THEN <<Column(i)>> ELSE other
        Within(x, lo, hi) == Binary("And", Binary("GtEq", x, lo), Binary("LtEq", x, hi))
    IN
    CASE e.s = "Identifier" ->
            ColumnOr(resolve(scope, <<>>, e.name), IF e.name = "rowid" THEN <<RowId>> ELSE <<>>)
      [] e.s = "Compound" -> ColumnOr(resolve(scope, <<e.table>>, e.name), <<>>)
      [] e.s = "Value" -> <<Literal(e.v)>>
      [] e.s = "UnaryOp" -> <<IF e.op = "Plus" THEN k[1] ELSE Unary(e.op, k[1])>>
      [] e.s = "BinaryOp" -> <<Binary(e.op, k[1], k[2])>>
      [] e.s = "IsNull" -> <<IsNullTest(k[1], e.negated)>>
      [] e.s = "InList" -> <<InList(k[1], Tail(k), e.negated)>>
      [] e.s = "Between" ->
            <<IF e.negated THEN Unary("Not", Within(k[1], k[2], k[3])) ELSE Within(k[1], k[2], k[3])>>
      [] e.s = "Function" -> IF e.star THEN <<>> ELSE <<Function(e.name, k)>>
      [] e.s = "Case" -> <<Case(<<>>, << <<k[1], k[2]>> >>, <<k[3]>>)>>
      [] e.s = "Subquery" -> <<ScalarSubquery(e.q)>>
      [] e.s = "Exists" -> <<Exists(e.q, e.negated)>>
      [] e.s = "InSubquery" -> <<InSubquery(k[1], e.q, e.negated)>>

resolve_expr(e, scope, ctx) ==
    LET Count(p) == [x |-> Param(p[1]), ctx |-> [ctx EXCEPT !.next_param = p[2]]]
        OrErr(x, then) == IF x = <<>> THEN [x |-> Literal(Null), ctx |-> Refuse(then)]
                          ELSE [x |-> x[1], ctx |-> then]
        Done(kids) == OrErr(Resolved(e, scope, kids.xs), kids.ctx)
    IN  IF e.s = "Placeholder" THEN Count(param_index(e.n, ctx.next_param))
        ELSE Done(ResolveAll(e.kids, scope, ctx))

-----------------------------------------------------------------------------
(* Aggregates. *)

\* min() and max() of two or more arguments are scalar functions.
IsAggregate(e) ==
    /\ e.s = "Function"
    /\ e.name \in {"COUNT", "SUM", "AVG", "MIN", "MAX", "TOTAL", "GROUP_CONCAT"}
    /\ ~(e.name \in {"MIN", "MAX"} /\ Len(e.kids) > 1)

RECURSIVE contains_aggregate(_)
contains_aggregate(e) ==
    \/ IsAggregate(e)
    \/ /\ e.s \in {"Function", "BinaryOp", "UnaryOp"}
       /\ \E i \in 1..Len(e.kids) : contains_aggregate(e.kids[i])

Part(s, m, n) == SubSeq(s, m, IF n <= Len(s) THEN n ELSE Len(s))

\* agg is <<>> where e is no aggregate.
try_aggregate(e, scope, ctx) ==
    LET func == CASE e.star -> "CountStar"
                  [] ~e.star /\ e.name = "TOTAL" -> "SUM"
                  [] OTHER -> e.name
        Over(args) == [agg |-> << [func |-> func, arg |-> Part(args.xs, 1, 1),
                                   distinct |-> e.distinct, sep |-> Part(args.xs, 2, 2)] >>,
                       ctx |-> args.ctx]
    IN  IF ~IsAggregate(e) THEN [agg |-> <<>>, ctx |-> ctx]
        ELSE Over(ResolveAll(Part(e.kids, 1, IF e.name = "GROUP_CONCAT" THEN 2 ELSE 1), scope, ctx))

\* HAVING: st is [aggs, ctx]; the aggregates met here are appended to aggs.
RECURSIVE resolve_having(_, _, _, _, _)
resolve_having(e, scope, base_len, st, aliases) ==
    LET Kid(i, then) == resolve_having(e.kids[i], scope, base_len, then, aliases)
        Both(l, r) == [x |-> Binary(e.op, l.x, r.x), st |-> r.st]
        Left(l) == Both(l, Kid(2, l.st))
        Sole(k) == [k EXCEPT !.x = IF e.op = "Plus" THEN @ ELSE Unary(e.op, @)]
        Appended(a) == [x |-> Column(base_len + Len(st.aggs)),
                        st |-> [aggs |-> st.aggs \o a.agg, ctx |-> a.ctx]]
        Plain(r) == [x |-> r.x, st |-> [st EXCEPT !.ctx = r.ctx]]
    IN  CASE IsAggregate(e) -> Appended(try_aggregate(e, scope, st.ctx))
          [] e.s = "BinaryOp" -> Left(Kid(1, st))
          [] e.s = "UnaryOp" -> Sole(Kid(1, st))
          [] OTHER -> IF /\ e.s = "Identifier" /\ resolve(scope, <<>>, e.name) = -1
                         /\ e.name \in DOMAIN aliases
                      THEN [x |-> aliases[e.name], st |-> st]
                      ELSE Plain(resolve_expr(e, scope, st.ctx))

-----------------------------------------------------------------------------
(* Plans. *)

Dual == [p |-> "Dual"]
Filter(input, predicate) == [p |-> "Filter", input |-> input, predicate |-> predicate]
Project(input, exprs, columns) ==
    [p |-> "Project", input |-> input, exprs |-> exprs, columns |-> columns]
Sort(input, keys) == [p |-> "Sort", input |-> input, keys |-> keys]
Limit(input, limit, offset) ==
    [p |-> "Limit", input |-> input, limit |-> limit, offset |-> offset]
Distinct(input) == [p |-> "Distinct", input |-> input]

RECURSIVE columns(_)
columns(plan) ==
    CASE plan.p = "Dual" -> <<>>
      [] plan.p \in {"Scan", "Project", "NestedLoopJoin", "SetOp", "Aggregate"} -> plan.columns
      [] plan.p \in {"Filter", "Sort", "Limit", "Distinct"} -> columns(plan.input)

\* What apply_order_limit and a CTE make of the columns of a plan.
Renamed(cols, table) == [i \in 1..Len(cols) |-> [table |-> table, name |-> cols[i].name]]

scan_for(name) ==
    [p |-> "Scan", table |-> name, rowid_alias |-> Catalog[name].alias,
     columns |-> [i \in 1..Len(Catalog[name].columns) |->
                     [table |-> <<name>>, name |-> Catalog[name].columns[i]]],
     defaults |-> Catalog[name].defaults]

\* SELECT-list items: [k |-> "wild"], [k |-> "of", table], [k |-> "expr", e, alias].
derive_name(item) ==
    IF item.alias # <<>> THEN item.alias[1]
    ELSE IF item.e.s \in {"Identifier", "Compound"} THEN item.e.name ELSE "?"

collect_projection(items, scope, ctx) ==
    LET Of(table) == SelectSeq([i \in 1..Len(scope) |->
                                   [x |-> Column(i - 1), c |-> scope[i]]],
                               LAMBDA o : table \in {<<>>, o.c.table})
        Add(acc, item, r) ==
            [out |-> Append(acc.out, [x |-> r.x, c |-> [table |-> <<>>, name |-> derive_name(item)]]),
             ctx |-> r.ctx]
        Step(acc, item) ==
            CASE item.k = "wild" -> [acc EXCEPT !.out = @ \o Of(<<>>)]
              [] item.k = "of" -> [acc EXCEPT !.out = @ \o Of(<<item.table>>)]
              [] item.k = "expr" -> Add(acc, item, resolve_expr(item.e, scope, acc.ctx))
    IN  FoldLeft(Step, [out |-> <<>>, ctx |-> ctx], items)

\* An item of the SELECT list of an aggregation: agg is try_aggregate's, r the
\* expression resolved, for an item that is none.
AggregateItem(acc, item, base_len, agg, r) ==
    LET is == agg.agg # <<>>
        name == derive_name(item)
    IN  [aggs |-> acc.aggs \o agg.agg,
         output |-> Append(acc.output, IF is THEN [agg |-> Len(acc.aggs)] ELSE [x |-> r.x]),
         names |-> Append(acc.names, [table |-> <<>>, name |-> name]),
         aliases |-> [n \in DOMAIN acc.aliases \cup {name} |->
                         IF n # name THEN acc.aliases[n]
                         ELSE IF is THEN Column(base_len + Len(acc.aggs)) ELSE r.x],
         ctx |-> IF is THEN agg.ctx ELSE r.ctx]

AggregateItems(select, scope, ctx) ==
    LET Step(acc, item) ==
            IF item.k # "expr" THEN [acc EXCEPT !.ctx = Refuse(@)]
            ELSE AggregateItem(acc, item, Len(scope), try_aggregate(item.e, scope, acc.ctx),
                               resolve_expr(item.e, scope, acc.ctx))
    IN  FoldLeft(Step, [aggs |-> <<>>, output |-> <<>>, names |-> <<>>, aliases |-> <<>>,
                        ctx |-> ctx], select.proj)

plan_aggregate(input, select, scope, ctx) ==
    LET Node(keys, items, aggs, having, then) ==
            [node |-> [p |-> "Aggregate", input |-> input, group_by |-> keys, aggs |-> aggs,
                       output |-> items.output, columns |-> items.names,
                       base_len |-> Len(scope), having |-> having],
             ctx |-> then]
        WithHaving(keys, items, h) == Node(keys, items, h.st.aggs, <<h.x>>, h.st.ctx)
        Having(keys, items) ==
            IF select.having = <<>> THEN Node(keys, items, items.aggs, <<>>, items.ctx)
            ELSE WithHaving(keys, items,
                     resolve_having(select.having[1], scope, Len(scope),
                                    [aggs |-> items.aggs, ctx |-> items.ctx], items.aliases))
        Items(group_by) == Having(group_by.xs, AggregateItems(select, scope, group_by.ctx))
    IN  Items(ResolveAll(select.group, scope, ctx))

\* An ordinal, an alias of the SELECT list, or an expression; projected is <<>>
\* where the keys are computed on the output rows.
order_key_expr(e, scope, projected, ctx) ==
    LET named == {i \in 1..Len(projected) : projected[i].c.name = e.name}
    IN  IF e.s = "Value" /\ e.v.t = "Integer" /\ e.v.v >= 1
        THEN IF projected = <<>> THEN [x |-> Column(e.v.v - 1), ctx |-> ctx]
             ELSE IF e.v.v <= Len(projected) THEN [x |-> projected[e.v.v].x, ctx |-> ctx]
             ELSE [x |-> Literal(Null), ctx |-> Refuse(ctx)]
        ELSE IF e.s = "Identifier" /\ resolve(scope, <<>>, e.name) = -1 /\ named # {}
        THEN [x |-> projected[FirstOf(named)].x, ctx |-> ctx]
        ELSE resolve_expr(e, scope, ctx)

plan_sort_keys(order, scope, projected, ctx) ==
    LET Add(acc, ob, r) == [keys |-> Append(acc.keys, [x |-> r.x, asc |-> ob.asc]), ctx |-> r.ctx]
        Step(acc, ob) == Add(acc, ob, order_key_expr(ob.e, scope, projected, acc.ctx))
    IN  FoldLeft(Step, [keys |-> <<>>, ctx |-> ctx], order)

apply_limit(node, q) ==
    IF q.limit = <<>> /\ q.offset = 0 THEN node ELSE Limit(node, q.limit, q.offset)

apply_order_limit(node, q, ctx) ==
    LET By(keys) == [node |-> apply_limit(IF q.order = <<>> THEN node ELSE Sort(node, keys.keys), q),
                     ctx |-> keys.ctx]
    IN  By(plan_sort_keys(q.order, columns(node), <<>>, ctx))

-----------------------------------------------------------------------------
(* FROM: a sequence of [rel, alias, join, on]; join is "cross" for a comma. *)

aliased_scope(cols, f) == Renamed(cols, <<IF f.alias = <<>> THEN f.rel ELSE f.alias[1]>>)

\* ctes: name -> [plan, scope].
resolve_relation(f, ctes) ==
    IF f.rel \in DOMAIN ctes
    THEN [node |-> ctes[f.rel].plan, scope |-> aliased_scope(ctes[f.rel].scope, f), ok |-> TRUE]
    ELSE IF f.rel \in DOMAIN Catalog
    THEN [node |-> scan_for(f.rel), scope |-> aliased_scope(scan_for(f.rel).columns, f), ok |-> TRUE]
    ELSE [node |-> Dual, scope |-> <<>>, ok |-> FALSE]

join_step(left, right, f) ==
    LET scope == left.scope \o right.scope
        On(on) == [node |-> [p |-> "NestedLoopJoin", left |-> left.node, right |-> right.node,
                             predicate |-> on.xs, left_outer |-> f.join = "left", columns |-> scope],
                   scope |-> scope,
                   ctx |-> RefuseUnless(on.ctx, right.ok)]
    IN  On(ResolveOpt(f.on, scope, left.ctx))

\* The parameters of FROM are counted on their own.
plan_from(from, ctes) ==
    LET Step(acc, f) == join_step(acc, resolve_relation(f, ctes), f)
        After(first) == FoldLeft(Step, [node |-> first.node, scope |-> first.scope,
                                        ctx |-> RefuseUnless(NoCtx, first.ok)], Tail(from))
    IN  IF from = <<>> THEN [node |-> Dual, scope |-> <<>>, ctx |-> NoCtx]
        ELSE After(resolve_relation(from[1], ctes))

\* FROM and WHERE of a SELECT.
PlanSource(select, ctx, ctes) ==
    LET Where(from, w) ==
            [node |-> IF select.where = <<>> THEN from.node ELSE Filter(from.node, w.xs[1]),
             scope |-> from.scope, ctx |-> w.ctx]
        Of(from) == Where(from, ResolveOpt(select.where, from.scope, RefuseUnless(ctx, from.ctx.ok)))
    IN  Of(plan_from(select.from, ctes))

HasAggregate(select) ==
    \/ select.group # <<>>
    \/ \E i \in 1..Len(select.proj) :
          select.proj[i].k = "expr" /\ contains_aggregate(select.proj[i].e)

DistinctIf(select, node) == IF select.distinct THEN Distinct(node) ELSE node
ProjectOf(node, projected) ==
    Project(node, [i \in 1..Len(projected) |-> projected[i].x],
            [i \in 1..Len(projected) |-> projected[i].c])

\* A SELECT that is an operand of a set operation; source is its PlanSource.
plan_select_core(select, source) ==
    LET Grouped(agg) == [node |-> DistinctIf(select, agg.node), ctx |-> agg.ctx]
        Plain(proj) == [node |-> DistinctIf(select, ProjectOf(source.node, proj.out)),
                        ctx |-> proj.ctx]
    IN  IF HasAggregate(select)
        THEN Grouped(plan_aggregate(source.node, select, source.scope, source.ctx))
        ELSE Plain(collect_projection(select.proj, source.scope, source.ctx))

\* ORDER BY of a plain SELECT sorts the rows before they are projected.
PlanSelect(select, q, source) ==
    LET Grouped(agg) == apply_order_limit(DistinctIf(select, agg.node), q, agg.ctx)
        Sorted(proj, node, ctx) ==
            [node |-> apply_limit(DistinctIf(select, ProjectOf(node, proj)), q), ctx |-> ctx]
        By(proj, keys) ==
            Sorted(proj, IF q.order = <<>> THEN source.node ELSE Sort(source.node, keys.keys),
                   keys.ctx)
        Plain(proj) == By(proj.out, plan_sort_keys(q.order, source.scope, proj.out, proj.ctx))
    IN  IF HasAggregate(select)
        THEN Grouped(plan_aggregate(source.node, select, source.scope, source.ctx))
        ELSE Plain(collect_projection(select.proj, source.scope, source.ctx))

RECURSIVE plan_query_with(_, _, _)
RECURSIVE plan_set_expr(_, _, _)
plan_set_expr(body, ctx, ctes) ==
    LET Both(l, r, cols) ==
            [node |-> [p |-> "SetOp", kind |-> body.kind, all |-> body.all, left |-> l.node,
                       right |-> r.node, columns |-> cols],
             ctx |-> RefuseUnless(r.ctx, Len(cols) = Len(columns(r.node)))]
        Left(l) == Both(l, plan_set_expr(body.right, l.ctx, ctes), columns(l.node))
    IN  CASE body.k = "select" -> plan_select_core(body, PlanSource(body, ctx, ctes))
          [] body.k = "query" -> plan_query_with(body.q, ctx, ctes)
          [] body.k = "setop" -> Left(plan_set_expr(body.left, ctx, ctes))

\* Every common table expression sees the ones before it; cols renames.
build_ctes(with, ctx, inherited) ==
    LET Add(acc, cte, body, cols) ==
            LET fits == cte.cols = <<>> \/ Len(cte.cols) = Len(cols)
                names == [i \in 1..Len(cols) |->
                             IF cte.cols = <<>> \/ ~fits THEN cols[i]
                             ELSE [cols[i] EXCEPT !.name = cte.cols[i]]]
            IN  [ctes |-> [n \in DOMAIN acc.ctes \cup {cte.name} |->
                              IF n = cte.name THEN [plan |-> body.node, scope |-> names]
                              ELSE acc.ctes[n]],
                 ctx |-> RefuseUnless(body.ctx, fits)]
        Planned(acc, cte, body) == Add(acc, cte, body, columns(body.node))
        Step(acc, cte) == Planned(acc, cte, plan_query_with(cte.q, acc.ctx, acc.ctes))
    IN  FoldLeft(Step, [ctes |-> inherited, ctx |-> ctx], with)

plan_query_with(q, ctx, inherited) ==
    LET Ordered(set) == apply_order_limit(set.node, q, RefuseUnless(set.ctx, q.body.k = "setop"))
        Body(c) == IF q.body.k = "select" THEN PlanSelect(q.body, q, PlanSource(q.body, c.ctx, c.ctes))
                   ELSE Ordered(plan_set_expr(q.body, c.ctx, c.ctes))
    IN  Body(build_ctes(q.with, ctx, inherited))

plan_query(q) == plan_query_with(q, NoCtx, <<>>)

-----------------------------------------------------------------------------
(* Optimization. *)

\* A plan node with Of done to its inputs and X to its expressions.
MapNode(n, Of(_), X(_)) ==
    LET All(xs) == [i \in 1..Len(xs) |-> X(xs[i])]
    IN
    CASE n.p \in {"Dual", "Scan"} -> n
      [] n.p = "Filter" -> [n EXCEPT !.input = Of(@), !.predicate = X(@)]
      [] n.p = "Project" -> [n EXCEPT !.input = Of(@), !.exprs = All(@)]
      [] n.p = "NestedLoopJoin" ->
            [n EXCEPT !.left = Of(@), !.right = Of(@), !.predicate = All(@)]
      [] n.p = "Aggregate" ->
            [n EXCEPT !.input = Of(@), !.group_by = All(@), !.having = All(@),
                !.aggs = [i \in 1..Len(@) |-> [@[i] EXCEPT !.arg = All(@), !.sep = All(@)]],
                !.output = [i \in 1..Len(@) |->
                    IF "x" \in DOMAIN @[i] THEN [x |-> X(@[i].x)] ELSE @[i]]]
      [] n.p = "Sort" ->
            [n EXCEPT !.input = Of(@), !.keys = [i \in 1..Len(@) |-> [@[i] EXCEPT !.x = X(@)]]]
      [] n.p \in {"Limit", "Distinct"} -> [n EXCEPT !.input = Of(@)]
      [] n.p = "SetOp" -> [n EXCEPT !.left = Of(@), !.right = Of(@)]

\* Set operations and the arguments of aggregates are left as they are.
RECURSIVE fold_plan(_)
fold_plan(n) ==
    LET folded == MapNode(n, LAMBDA m : fold_plan(m), LAMBDA x : fold(x))
    IN  CASE n.p = "SetOp" -> n
          [] n.p = "Aggregate" -> [folded EXCEPT !.aggs = n.aggs]
          [] OTHER -> folded

\* Subqueries take no parameters of their own.
plan_subquery(q) ==
    LET Folded(r) == [node |-> fold_plan(r.node), ok |-> r.ctx.ok /\ r.ctx.next_param = 0]
    IN  Folded(plan_query(q))
=============================================================================
