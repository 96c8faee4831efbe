-------------------------------- MODULE Tables --------------------------------
(***************************************************************************)
(* One table under INSERT, UPDATE and DELETE, and the queries that read    *)
(* it: every statement of the samples in every state it can lead to.       *)
(* Statements::run_one in autocommit, one at a time; what concurrent       *)
(* statements may see of each other is the subject of SqlEngine.           *)
(***************************************************************************)
EXTENDS QueryMeaning

CONSTANTS
    Table,          \* the table that changes
    Others,         \* the trees of the tables that do not
    InitialTrees,   \* trees of Table, some with rows older than a column
    Statements,     \* statements on Table, each with its parameters
    Queries,        \* queries, each with its parameters
    MaxRows         \* INSERT is not taken beyond so many rows

VARIABLE tree
vars == <<tree>>

ASSUME TablesAssumption ==
    /\ Table \in DOMAIN Schema /\ MaxRows \in Nat
    /\ DOMAIN Catalog = DOMAIN Schema /\ DOMAIN Schema = DOMAIN Others \cup {Table}
    /\ \A name \in DOMAIN Catalog : Len(Catalog[name].columns) = Width(name)

Db == Others @@ (Table :> tree)
Meant(db) == [name \in DOMAIN db |-> Contents(name, db[name])]

-----------------------------------------------------------------------------
Init == tree \in InitialTrees

\* The trees that one INSERT, UPDATE or DELETE leads to.
Ends(s) == {t \in {Execute(s.stmt, Db, s.params).tree} :
               s.stmt.k = "insert" => Cardinality(DOMAIN t) <= MaxRows}

run_one == tree' \in UNION {Ends(s) : s \in Statements}

Next == run_one
Spec == Init /\ [][Next]_vars

-----------------------------------------------------------------------------
(* Queries. *)

Answers(s, got, world) ==
    /\ got # <<>>
    /\ ~got[1].bad
    /\ AnswersQuery(s.query, [k \in 1..Len(got[1].rows) |-> got[1].rows[k].values], world)

\* Planning, rewriting subqueries and executing yields what SQL says a query
\* means: resolving names to positions across joins, aliases, aggregates and
\* common table expressions, sorting before projecting, limiting streams
\* (planner/mod.rs, lib.rs, executor/*.rs).
QueriesAnswer ==
    \A s \in Queries :
        Answers(s, build_query(s.query, Db, s.params), World(Meant(Db), s.params))

-----------------------------------------------------------------------------
(* Statements: rows are records of the columns of Table, before and after   *)
(* are the contents of Table, did is how the statement ended.               *)

Names == {Schema[Table][i].name : i \in 1..Width(Table)}
AliasName == Schema[Table][AliasOf(Table)[1] + 1].name

Conflict(a, b) == \E i \in 1..Width(Table) :
    /\ Schema[Table][i].unique /\ ~IsAlias(Table, i)
    /\ ~is_null(a[Schema[Table][i].name])
    /\ a[Schema[Table][i].name] = b[Schema[Table][i].name]
LacksValue(r) == \E i \in 1..Width(Table) :
    Schema[Table][i].not_null /\ is_null(r[Schema[Table][i].name])

\* The constraints of the table hold for its contents.
Consistent(rows) ==
    /\ \A k \in DOMAIN rows : ~LacksValue(rows[k])
    /\ \A j, k \in DOMAIN rows : j # k => ~Conflict(rows[j], rows[k])

Env(row) == [p \in {<<Table, n>> : n \in DOMAIN row} |-> row[p[2]]]
\* Where the name is assigned in the list, if it is.
At(n, list) == {j \in 1..Len(list) : list[j] = n}
\* A row whose columns in cols mean exprs, as their type, and whose others are
\* those of rest.
RowOf(rest, cols, exprs, env, world) ==
    [n \in Names |->
        IF At(n, cols) = {} THEN rest[n]
        ELSE coerce_to(Means(exprs[CHOOSE j \in At(n, cols) : TRUE], env, world),
                       Schema[Table][column_index(Table, n)].type)]
Matching(s, before, world) ==
    {r \in DOMAIN before : Holds(s.where, Env(before[r]), world)}

\* Rows to insert: the alias column is NULL for a rowid of the table's choice.
Given(s, world) ==
    LET Defaults == [n \in Names |-> Schema[Table][column_index(Table, n)].default]
        cols == IF s.cols = <<>> THEN Catalog[Table].columns ELSE s.cols
    IN  [k \in 1..Len(s.rows) |-> RowOf(Defaults, cols, s.rows[k], <<>>, world)]

\* Rows as they are once stored, whatever rowid they took.
Stored(given, row) == \A n \in Names : row[n] = given[n] \/ (n = AliasName /\ is_null(given[n]))
Clash(given, row) == Conflict(given, row) \/ given[AliasName] = row[AliasName]
Full == {MinInt, MaxInt} \subseteq DOMAIN tree

\* Plain INSERT adds every given row under a rowid of its own and touches no
\* other; it fails only for a row that breaks a constraint, or when no rowid
\* follows the largest.  OR REPLACE, of one row, removes the rows in conflict
\* and no more.
Replaces(given, did, before, after, kept) ==
    /\ DOMAIN after = kept \cup {did.last_rowid}
    /\ did.last_rowid \notin kept
    /\ \A r \in kept : after[r] = before[r]
    /\ Stored(given, after[did.last_rowid])
Adds(given, did, before, after, new) ==
    /\ \A r \in DOMAIN before : r \in DOMAIN after /\ after[r] = before[r]
    /\ Cardinality(new) = Len(given)
    /\ \A k \in 1..Len(given) :
          Cardinality({r \in new : Stored(given[k], after[r])})
             >= Cardinality({j \in 1..Len(given) : given[j] = given[k]})
    /\ did.last_rowid \in new
InsertMeans(s, given, did, before, after) ==
    LET Breaks(k) ==
            \/ LacksValue([given[k] EXCEPT ![AliasName] = Integer(0)])
            \/ ~s.or_replace /\ \E r \in DOMAIN before : Clash(given[k], before[r])
            \/ \E j \in 1..(k - 1) : Clash(given[k], given[j])
            \/ k > 1 /\ ~is_null(given[k][AliasName])
            \/ Full
    IN  IF did.outcome # "ok" THEN \E k \in 1..Len(given) : Breaks(k)
        ELSE IF s.or_replace
        THEN Replaces(given[1], did, before, after,
                      {r \in DOMAIN before : ~Clash(given[1], before[r])})
        ELSE Adds(given, did, before, after, DOMAIN after \ DOMAIN before)

\* Every assignment sees the row as it was, every matching row is changed once,
\* whichever rowids move; it fails only when a new row breaks a constraint, or
\* clashes with a row as it was or will be.
Changed(s, before, world, matching) ==
    LET cols == [i \in 1..Len(s.sets) |-> s.sets[i].col]
        exprs == [i \in 1..Len(s.sets) |-> s.sets[i].e]
    IN  [r \in DOMAIN before |->
            RowOf(before[r], IF r \in matching THEN cols ELSE <<>>, exprs, Env(before[r]), world)]
UpdateMeans(new, did, before, after, matching) ==
    LET Key(r) == new[r][AliasName].v
        Breaks(r) ==
            \/ LacksValue(new[r])
            \/ new[r][AliasName].t # "Integer"
            \/ \E o \in DOMAIN before \ {r} : Clash(new[r], before[o]) \/ Clash(new[r], new[o])
    IN  IF did.outcome # "ok" THEN \E r \in matching : Breaks(r)
        ELSE /\ did.count = Cardinality(matching)
             /\ Cardinality(DOMAIN after) = Cardinality(DOMAIN before)
             /\ \A r \in DOMAIN before : Key(r) \in DOMAIN after /\ after[Key(r)] = new[r]

DeleteMeans(did, before, after, matching) ==
    /\ did.outcome = "ok"
    /\ did.count = Cardinality(matching)
    /\ after = [r \in DOMAIN before \ matching |-> before[r]]

\* A statement that names a column younger than a row that is there is not held
\* to its meaning: UPDATE and DELETE read rows as short as they are stored.
Applies(s) == \A r \in DOMAIN tree : s.width <= Len(tree[r])

RowsMeant(s, did, before, after, world, matching) ==
    IF s.k = "delete" THEN DeleteMeans(did, before, after, matching)
    ELSE UpdateMeans(Changed(s, before, world, matching), did, before, after, matching)
Meaning(s, did, before, after, world) ==
    /\ did.outcome # "ok" => did.tree = tree
    /\ Consistent(before) => Consistent(after)
    /\ IF s.k = "insert" THEN InsertMeans(s, Given(s, world), did, before, after)
       ELSE RowsMeant(s, did, before, after, world, Matching(s, before, world))
DidMean(s, did, world) == Meaning(s, did, world.db[Table], Contents(Table, did.tree), world)

\* A statement changes the contents of its table to what SQL says and leaves
\* them consistent, or fails for a reason and changes nothing: rowids of the
\* table's choice never hit a row, conflicts are found among rows of every
\* age, and rows that are rewritten or moved while the rest is still to come
\* are neither lost nor changed twice (executor/dml.rs insert, update, delete).
StatementsMean ==
    \A s \in Statements :
        Applies(s) => DidMean(s.stmt, Execute(s.stmt, Db, s.params), World(Meant(Db), s.params))
=============================================================================
