----------------------------- MODULE QueryMeaning -----------------------------
(***************************************************************************)
(* What SQL says a query and a statement mean, for Tables to hold the      *)
(* planner and the executor against: rows are functions from names, not    *)
(* positions, to values; a table is a set of rows; a query denotes a bag   *)
(* of rows with their sort keys.  Only the rules of single values are      *)
(* those of Expressions.                                                   *)
(*                                                                         *)
(* db maps a table name to its contents, a function from rowids to records *)
(* of column names.  Names of the statements are unambiguous.              *)
(***************************************************************************)
EXTENDS Dml, FiniteSetsExt

\* What reading a stored tree makes of it: old rows have the default of a
\* column that was added since, and the alias column is the rowid.
Contents(table, tree) ==
    [k \in DOMAIN tree |->
        [n \in {Schema[table][i].name : i \in 1..Width(table)} |->
            LET i == column_index(table, n)
            IN  IF IsAlias(table, i) THEN Integer(k)
                ELSE IF i <= Len(tree[k]) THEN tree[k][i] ELSE Schema[table][i].default]]

Count(row, rows) == Cardinality({k \in 1..Len(rows) : rows[k] = row})
SameBag(a, b) == Len(a) = Len(b) /\ \A k \in 1..Len(a) : Count(a[k], a) = Count(a[k], b)
WithinBag(a, b) == \A k \in 1..Len(a) : Count(a[k], a) <= Count(a[k], b)
Once(rows) == SetToSeq(ToSet(rows))
OnceIf(distinct, rows) == IF distinct THEN Once(rows) ELSE rows
Apply(x) == eval(x, <<>>, 0, <<>>)

-----------------------------------------------------------------------------
(* Expressions.  env maps <<relation, name>> to a value; g is what they     *)
(* range over: [group, aliases, db, params, ctes].                          *)

Cell(env, table, name) ==
    env[CHOOSE p \in DOMAIN env : p[2] = name /\ table \in {<<>>, <<p[1]>>}]
HasCell(env, name) == \E p \in DOMAIN env : p[2] = name

\* The aggregate of the values of, which are no NULLs.
Aggregated(name, of) ==
    LET total == FoldLeft(LAMBDA n, v : n + v.v, 0, of)
        First(order) == CHOOSE v \in ToSet(of) :
                            \A w \in ToSet(of) : order_key(w, v) \in {order, "Equal"}
    IN  CASE name = "COUNT" -> Integer(Len(of))
          [] name # "COUNT" /\ of = <<>> -> Null
          [] name = "SUM" /\ of # <<>> -> Integer(total)
          [] name = "AVG" /\ of # <<>> -> Real(EvalF64("Div", 2 * total, 2 * Len(of)))
          [] name \in {"MIN", "MAX"} /\ of # <<>> ->
                First(IF name = "MIN" THEN "Greater" ELSE "Less")
AggregateOf(e, vs) ==
    IF e.star THEN Integer(Len(vs))
    ELSE Aggregated(e.name, OnceIf(e.distinct, SelectSeq(vs, LAMBDA v : ~is_null(v))))

RECURSIVE Means(_, _, _)      \* e, env, g
RECURSIVE Rows(_, _)          \* query, g: a sequence of [row, key], and the names

\* An expression of constants for an operator of SQL, whose operands mean ks.
Constant(e, ks) ==
    LET Test(x) == IF e.negated THEN Unary("Not", x) ELSE x
    IN
    CASE e.s = "UnaryOp" -> IF e.op = "Plus" THEN ks[1] ELSE Unary(e.op, ks[1])
      [] e.s = "BinaryOp" -> Binary(e.op, ks[1], ks[2])
      [] e.s = "IsNull" -> IsNullTest(ks[1], e.negated)
      [] e.s \in {"InList", "InSubquery"} -> InList(ks[1], Tail(ks), e.negated)
      [] e.s = "Between" ->
            Test(Binary("And", Binary("LtEq", ks[2], ks[1]), Binary("LtEq", ks[1], ks[3])))
      [] e.s = "Case" -> IF is_truthy(ks[1].v) THEN ks[2] ELSE ks[3]
      [] e.s = "Function" -> Function(e.name, ks)

\* The values of a subquery's rows, for an operand kids of constants.
Firsts(sub) == [i \in 1..Len(sub) |-> Literal(sub[i].row[1])]
OfSubquery(e, kids, sub) ==
    CASE e.s = "Subquery" -> IF sub = <<>> THEN Literal(Null) ELSE Firsts(sub)[1]
      [] e.s = "Exists" -> Literal(Boolean((sub # <<>>) # e.negated))
      [] e.s = "InSubquery" -> Constant(e, kids \o Firsts(sub))
Applied(e, kids, g) ==
    Apply(IF e.s \in {"Subquery", "Exists", "InSubquery"}
          THEN OfSubquery(e, kids, Rows(e.q, [g EXCEPT !.group = <<>>, !.aliases = <<>>]).rows)
          ELSE Constant(e, kids))

Means(e, env, g) ==
    CASE e.s = "Identifier" ->
            IF HasCell(env, e.name) THEN Cell(env, <<>>, e.name)
            ELSE Means(g.aliases[e.name], env, g)
      [] e.s = "Compound" -> Cell(env, <<e.table>>, e.name)
      [] e.s = "Value" -> e.v
      [] e.s = "Placeholder" -> g.params[IF e.n = 0 THEN e.nth ELSE e.n]
      [] IsAggregate(e) ->
            AggregateOf(e, [k \in 1..Len(g.group) |->
                               IF e.star THEN Null ELSE Means(e.kids[1], g.group[k], g)])
      [] OTHER -> Applied(e, [i \in 1..Len(e.kids) |-> Literal(Means(e.kids[i], env, g))], g)

Holds(cond, env, g) == \A i \in 1..Len(cond) : is_truthy(Means(cond[i], env, g))

-----------------------------------------------------------------------------
(* Queries: [names, rows], rows a sequence of [row, key] in order of key.   *)

\* A relation of FROM: [cols, envs].
Relation(f, g) ==
    LET as == IF f.alias = <<>> THEN f.rel ELSE f.alias[1]
        Env(names, At(_)) == [p \in {<<as, n>> : n \in ToSet(names)} |-> At(p[2])]
        Of(names, envs) == [cols |-> [i \in 1..Len(names) |-> <<as, names[i]>>], envs |-> envs]
        OfCte(cte) ==
            Of(cte.names, [k \in 1..Len(cte.rows) |->
                Env(cte.names, LAMBDA n : cte.rows[k].row[CHOOSE i \in 1..Len(cte.names) :
                                                             cte.names[i] = n])])
        OfTable(names, content, keys) ==
            Of(names, [k \in 1..Len(keys) |-> Env(names, LAMBDA n : content[keys[k]][n])])
        Stored(content) ==
            OfTable(Catalog[f.rel].columns, content, SetToSortSeq(DOMAIN content, <))
    IN  IF f.rel \in DOMAIN g.ctes THEN OfCte(g.ctes[f.rel]) ELSE Stored(g.db[f.rel])

JoinedRow(l, right, f, g) ==
    LET OrAlone(with) == IF f.join = "left" /\ with = <<>>
                         THEN <<l @@ [p \in ToSet(right.cols) |-> Null]>> ELSE with
    IN  OrAlone(SelectSeq([k \in 1..Len(right.envs) |-> l @@ right.envs[k]],
                          LAMBDA env : Holds(f.on, env, g)))
Joined(left, right, f, g) ==
    [cols |-> left.cols \o right.cols,
     envs |-> FlattenSeq([k \in 1..Len(left.envs) |-> JoinedRow(left.envs[k], right, f, g)])]

AllJoined(rs, from, g) ==
    FoldLeft(LAMBDA acc, i : Joined(acc, rs[i], from[i], g), rs[1],
             [i \in 1..(Len(rs) - 1) |-> i + 1])
FromClause(from, g) ==
    IF from = <<>> THEN [cols |-> <<>>, envs |-> << <<>> >>]
    ELSE AllJoined([i \in 1..Len(from) |-> Relation(from[i], g)], from, g)
Source(select, g) ==
    [FromClause(select.from, g) EXCEPT !.envs = SelectSeq(@, LAMBDA env : Holds(select.where, env, g))]

\* The groups of a SELECT: each a sequence of rows that agree on its keys.
Agreeing(envs, keys) ==
    SetToSeq({SelectSeq(envs, LAMBDA env : keys[env] = key) : key \in {keys[env] : env \in DOMAIN keys}})
Groups(select, envs, g) ==
    IF ~HasAggregate(select) THEN [k \in 1..Len(envs) |-> <<envs[k]>>]
    ELSE IF select.group = <<>> THEN <<envs>>
    ELSE Agreeing(envs, [env \in ToSet(envs) |->
                            [i \in 1..Len(select.group) |-> Means(select.group[i], env, g)]])

\* The SELECT list over the columns cols: [e, name] each.
Items(select, cols) ==
    LET Of(some) == [c \in 1..Len(some) |->
                        [e |-> Compound(some[c][1], some[c][2]), name |-> some[c][2]]]
    IN  FlattenSeq([i \in 1..Len(select.proj) |->
            LET item == select.proj[i]
            IN  CASE item.k = "wild" -> Of(cols)
                  [] item.k = "of" -> Of(SelectSeq(cols, LAMBDA c : c[1] = item.table))
                  [] item.k = "expr" -> <<[e |-> item.e, name |-> derive_name(item)]>>])

\* The rows of the groups that HAVING keeps, with their sort keys.
Wanted(items, order) ==
    LET KeyOf(ob) == IF ob.e.s = "Value" THEN items[ob.e.v.v].e ELSE ob.e
    IN  [i \in 1..Len(items) |-> items[i].e] \o [i \in 1..Len(order) |-> KeyOf(order[i])]
RowOfGroup(group) == IF group = <<>> THEN <<>> ELSE group[1]
\* The means of the expressions es over a group.
Tuple(es, group, g) ==
    [i \in 1..Len(es) |-> Means(es[i], RowOfGroup(group), [g EXCEPT !.group = group])]
GroupsHaving(select, groups, g) ==
    SelectSeq(groups, LAMBDA group :
        Holds(select.having, RowOfGroup(group), [g EXCEPT !.group = group]))
Split(vs, n) == [row |-> SubSeq(vs, 1, n), key |-> SubSeq(vs, n + 1, Len(vs))]
Selected(select, order, groups, items, g) ==
    [k \in 1..Len(groups) |-> Split(Tuple(Wanted(items, order), groups[k], g), Len(items))]
Aliases(items) == [n \in {items[i].name : i \in 1..Len(items)} |->
                      items[CHOOSE i \in 1..Len(items) : items[i].name = n].e]
Listed(select, order, groups, items, g) ==
    [names |-> [i \in 1..Len(items) |-> items[i].name],
     rows |-> OnceIf(select.distinct,
                     Selected(select, order, GroupsHaving(select, groups, g), items, g))]

Over(select, order, from, items, g) ==
    Listed(select, order, Groups(select, from.envs, g), items,
           [g EXCEPT !.aliases = Aliases(items)])
SelectFrom(select, order, from, g) == Over(select, order, from, Items(select, from.cols), g)
Select(select, order, g) == SelectFrom(select, order, Source(select, g), g)

\* The set operation body of the rows l and r.
SetRows(body, left, right) ==
    CASE body.kind = "Union" -> IF body.all THEN left \o right ELSE Once(left \o right)
      [] body.kind = "Intersect" -> SetToSeq(ToSet(left) \cap ToSet(right))
      [] body.kind = "Except" -> SetToSeq(ToSet(left) \ ToSet(right))

Unkeyed(r) == [k \in 1..Len(r.rows) |-> r.rows[k].row]
Keyed(names, rows, order) ==
    LET At(ob) == IF ob.e.s = "Value" THEN ob.e.v.v
                  ELSE CHOOSE i \in 1..Len(names) : names[i] = ob.e.name
    IN  [names |-> names,
         rows |-> [k \in 1..Len(rows) |->
                     [row |-> rows[k], key |-> [i \in 1..Len(order) |-> rows[k][At(order[i])]]]]]
SetOperation(body, order, l, r) == Keyed(l.names, SetRows(body, Unkeyed(l), Unkeyed(r)), order)

RECURSIVE Body(_, _, _)
Body(body, order, g) ==
    CASE body.k = "select" -> Select(body, order, g)
      [] body.k = "query" -> Rows(body.q, g)
      [] body.k = "setop" ->
            SetOperation(body, order, Body(body.left, <<>>, g), Body(body.right, <<>>, g))

\* Strictly before, in the order of ORDER BY.
Precedes(a, b, order) ==
    \E i \in 1..Len(order) :
        /\ order_key(a[i], b[i]) = (IF order[i].asc THEN "Less" ELSE "Greater")
        /\ \A j \in 1..(i - 1) : order_key(a[j], b[j]) = "Equal"
InOrder(rows, order) == SortSeq(rows, LAMBDA x, y : Precedes(x.key, y.key, order))

WithNamed(ctes, cte, r) ==
    (cte.name :> [r EXCEPT !.names = IF cte.cols = <<>> THEN @ ELSE cte.cols]) @@ ctes
WithClause(q, g) ==
    FoldLeft(LAMBDA ctes, cte : WithNamed(ctes, cte, Rows(cte.q, [g EXCEPT !.ctes = ctes])),
             g.ctes, q.with)
Unlimited(q, g) ==
    [Body(q.body, q.order, [g EXCEPT !.ctes = WithClause(q, g)]) EXCEPT !.rows = InOrder(@, q.order)]

Window(rows, q) ==
    SubSeq(rows, q.offset + 1,
           IF q.limit = <<>> \/ q.offset + q.limit[1] > Len(rows) THEN Len(rows)
           ELSE q.offset + q.limit[1])

\* Used where the rows are the same for every choice among equal keys.
Rows(q, g) == [Unlimited(q, g) EXCEPT !.rows = Window(@, q)]

World(db, params) ==
    [group |-> <<>>, aliases |-> <<>>, db |-> db, params |-> params, ctes |-> <<>>]

\* got answers q: it has the rows of the window, and those that share a sort
\* key are any of the rows that have it.
Fills(got, all, due) ==
    LET With(key) == SelectSeq(all, LAMBDA r : r.key = key)
        Plain(rows) == [k \in 1..Len(rows) |-> rows[k].row]
        GotAt(ks) == [k \in 1..Len(ks) |-> got[ks[k]]]
        Got(key) == GotAt(SetToSeq({k \in 1..Len(due) : due[k].key = key}))
    IN  /\ Len(got) = Len(due)
        /\ \A k \in 1..Len(due) : WithinBag(Got(due[k].key), Plain(With(due[k].key)))

Among(q, got, all) == Fills(got, all, Window(all, q))
AnswersQuery(q, got, g) == Among(q, got, Unlimited(q, g).rows)
=============================================================================
