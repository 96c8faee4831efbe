------------------------------- MODULE MCTables -------------------------------
(* t(id INTEGER PRIMARY KEY, a INTEGER UNIQUE, b INTEGER NOT NULL DEFAULT 1),
   later ALTER TABLE t ADD COLUMN c INTEGER DEFAULT 1, and u(k INTEGER, x TEXT). *)
EXTENDS Tables

Col(name, type, unique, not_null, default) ==
    [name |-> name, type |-> type, unique |-> unique, not_null |-> not_null, default |-> default]
SampleSchema ==
    [t |-> <<Col("id", "Integer", TRUE, FALSE, Null), Col("a", "Integer", TRUE, FALSE, Null),
             Col("b", "Integer", FALSE, TRUE, Integer(1)),
             Col("c", "Integer", FALSE, FALSE, Integer(1))>>,
     u |-> <<Col("k", "Integer", FALSE, FALSE, Null), Col("x", "Text", FALSE, FALSE, Null)>>]
Scanned(cols, alias) ==
    [columns |-> [i \in 1..Len(cols) |-> cols[i].name], alias |-> alias,
     defaults |-> [i \in 1..Len(cols) |-> cols[i].default]]
SampleCatalog == [t |-> Scanned(SampleSchema.t, <<0>>), u |-> Scanned(SampleSchema.u, <<>>)]
OtherTrees ==
    [u |-> (-1 :> <<Integer(1), Text("a")>>) @@ (0 :> <<Integer(2), Text("ab")>>)
           @@ (1 :> <<Integer(1), Null>>) @@ (3 :> <<Null, Text("a")>>)]

Chars == <<"a", "b">>
I(n) == Integer(n)
Trees ==
    { <<>>,
      << <<Null, I(1), I(0)>>, <<Null, Null, I(1)>> >>,
      (1 :> <<Null, I(1), I(1)>>) @@ (2 :> <<Null, Null, I(0), Null>>)
         @@ (3 :> <<Null, I(2), I(0), I(3)>>) }

-----------------------------------------------------------------------------
V(n) == Val(I(n))
N == Val(Null)
Hole(n) == Placeholder(0, n)
A == Id("a")
B == Id("b")
Cmp(op, l, r) == BinaryOp(op, l, r)
SelectOf(proj, from) ==
    [k |-> "select", from |-> from, where |-> <<>>, proj |-> proj, group |-> <<>>,
     having |-> <<>>, distinct |-> FALSE]
Where(s, e) == [s EXCEPT !.where = <<e>>]
From(name) == [rel |-> name, alias |-> <<>>, join |-> "cross", on |-> <<>>]
As(name, alias) == [From(name) EXCEPT !.alias = <<alias>>]
On(f, join, e) == [f EXCEPT !.join = join, !.on = <<e>>]
Wild == [k |-> "wild"]
Of(table) == [k |-> "of", table |-> table]
E(e) == [k |-> "expr", e |-> e, alias |-> <<>>]
Named(e, alias) == [E(e) EXCEPT !.alias = <<alias>>]
Query(body) == [with |-> <<>>, body |-> body, order |-> <<>>, limit |-> <<>>, offset |-> 0]
By(q, order) == [q EXCEPT !.order = order]
Up(e) == [e |-> e, asc |-> TRUE]
Down(e) == [e |-> e, asc |-> FALSE]
Page(q, limit, offset) == [q EXCEPT !.limit = <<limit>>, !.offset = offset]
Both(kind, all, l, r) == [k |-> "setop", kind |-> kind, all |-> all, left |-> l, right |-> r]
Agg(name, e) == E(Call(name, <<e>>))

TheA == SelectOf(<<E(A)>>, <<From("t")>>)
TheK == SelectOf(<<E(Id("k"))>>, <<From("u")>>)
MaxB == Query(SelectOf(<<Agg("MAX", B)>>, <<From("t")>>))
UK == Compound("u", "k")
PerB == [SelectOf(<<E(B), E(CountStar), Named(Call("SUM", <<A>>), "s")>>, <<From("t")>>)
            EXCEPT !.group = <<B>>]
Ctes ==
    << [name |-> "w", cols |-> <<"n", "m">>,
        q |-> Query(Where(SelectOf(<<E(B), E(Id("id"))>>, <<From("t")>>), NullTest(A, TRUE)))],
       [name |-> "z", cols |-> <<>>,
        q |-> Query([SelectOf(<<E(Id("n")), Named(CountStar, "cnt")>>, <<From("w")>>)
                     EXCEPT !.group = <<Id("n")>>])] >>

Plain == {
    Query(SelectOf(<<Wild>>, <<From("t")>>)),
    Query(SelectOf(<<E(BinaryOp("Add", V(1), V(1))), E(UnaryOp("Neg", V(2)))>>, <<>>)),
    Query(Where(SelectOf(<<E(Compound("p", "a")), E(Compound("q", "a"))>>,
                         <<As("t", "p"), As("t", "q")>>),
                Cmp("Lt", Compound("p", "id"), Compound("q", "id")))),
    Query(SelectOf(<<Of("t"), E(Id("x"))>>,
                   <<From("t"), On(From("u"), "left", Cmp("Eq", UK, A))>>)),
    By(Query(SelectOf(<<E(Compound("v", "c")), E(Id("x"))>>,
                   <<From("t"), On(From("u"), "inner", Cmp("LtEq", UK, Compound("t", "a"))),
                     On(As("t", "v"), "left", Cmp("Eq", Compound("v", "b"), UK))>>)),
       <<Down(Id("x")), Up(Compound("v", "c"))>>),
    Page(By(Query([SelectOf(<<E(B)>>, <<From("t")>>) EXCEPT !.distinct = TRUE]), <<Down(B)>>), 1, 0),
    Page(By(Query(SelectOf(<<E(Id("id")), Named(BinaryOp("Sub", B, A), "d")>>, <<From("t")>>)),
            <<Up(Id("d")), Down(V(1))>>), 1, 1),
    By(Query(PerB), <<Down(Id("s"))>>),
    Query([PerB EXCEPT !.having = <<Cmp("And", Cmp("Gt", CountStar, V(1)), Cmp("GtEq", Id("s"), B))>>]),
    Query(SelectOf(<<E(CountStar), Agg("COUNT", A), Agg("SUM", B), Agg("MAX", Id("c")),
                     Agg("AVG", B), E(CallDistinct("COUNT", <<B>>)), Agg("MIN", A)>>, <<From("t")>>)),
    Page(By(Query(Both("Union", FALSE, TheA, TheK)), <<Down(V(1))>>), 2, 1),
    Query(Both("Except", FALSE, TheA, TheK)),
    Query(Both("Intersect", FALSE, TheK, Both("Union", TRUE, TheA, TheK))),
    Query(Both("Union", TRUE, [k |-> "query", q |-> Page(By(Query(TheA), <<Down(A)>>), 1, 0)], TheK)),
    By([Query(SelectOf(<<E(Compound("w", "m")), E(Id("cnt"))>>,
                       <<From("w"), On(From("z"), "inner",
                                       Cmp("Eq", Compound("w", "n"), Compound("z", "n")))>>))
        EXCEPT !.with = Ctes], <<Up(Compound("w", "m"))>>),
    Query(Where(SelectOf(<<E(Scalar(MaxB)), E(Id("id"))>>, <<From("t")>>),
                Cmp("And", ExistsIn(Query(Where(TheK, Cmp("Eq", UK, V(2)))), FALSE),
                    InQuery(A, Query(TheK), FALSE)))) }
SampleQueries ==
    {[query |-> q, params |-> <<>>] : q \in Plain}
    \cup { [query |-> Query(Where(TheA, Between(A, Placeholder(2, 1), Hole(3), TRUE))),
            params |-> <<I(0), I(2), I(3)>>],
           [query |-> Query(Where(SelectOf(<<E(If(NullTest(A, FALSE), Id("c"), A))>>, <<From("t")>>),
                                  Cmp("Or", Cmp("Eq", B, Hole(1)), InValues(A, <<Hole(2), V(2)>>, FALSE)))),
            params |-> <<I(1), I(1)>>] }

-----------------------------------------------------------------------------
Statement(stmt, params, width) == [stmt |-> stmt, params |-> params, width |-> width]
Into(cols, rows) == InsertInto("t", cols, rows, FALSE)
Set(col, e) == [col |-> col, e |-> e]
AB == <<"a", "b">>

SampleStatements == {
    Statement(Into(AB, << <<Hole(1), Hole(2)>> >>), <<I(1), Text("1")>>, 0),
    Statement(Into(<<"id">>, << <<V(3)>> >>), <<>>, 0),
    Statement(Into(<<>>, << <<N, V(2), V(0), N>> >>), <<>>, 0),
    Statement(Into(AB, << <<N, V(1)>>, <<V(1), V(1)>> >>), <<>>, 0),
    Statement(Into(<<"b">>, << <<Scalar(MaxB)>> >>), <<>>, 0),
    Statement(InsertInto("t", <<"id", "a", "b">>, << <<V(1), V(2), V(1)>> >>, TRUE), <<>>, 0),
    Statement(UpdateSet("t", <<Set("a", BinaryOp("Sub", V(3), A))>>, <<>>), <<>>, 0),
    Statement(UpdateSet("t", <<Set("id", BinaryOp("Sub", Id("id"), V(1))), Set("b", V(0))>>,
                        <<Cmp("Gt", Id("id"), V(1))>>), <<>>, 0),
    Statement(UpdateSet("t", <<Set("id", BinaryOp("Add", Id("id"), V(1)))>>, <<>>), <<>>, 0),
    Statement(UpdateSet("t", <<Set("b", If(NullTest(A, FALSE), Hole(1), V(0)))>>,
                        <<Cmp("NotEq", Id("id"), Hole(2))>>), <<Null, I(2)>>, 0),
    Statement(UpdateSet("t", <<Set("c", B)>>, <<NullTest(Id("c"), FALSE)>>), <<>>, 4),
    Statement(UpdateSet("t", <<Set("a", N)>>, <<InQuery(A, Query(TheK), FALSE)>>), <<>>, 0),
    Statement(DeleteFrom("t", <<Cmp("Eq", A, Hole(1))>>), <<I(1)>>, 0),
    Statement(DeleteFrom("t", <<NullTest(Id("c"), FALSE)>>), <<>>, 4),
    Statement(DeleteFrom("t", <<Cmp("Lt", Id("id"), V(2))>>), <<>>, 0) }
=============================================================================
