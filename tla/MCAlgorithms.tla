----------------------------- MODULE MCAlgorithms -----------------------------
EXTENDS Algorithms

Chars == <<"-", "]", "a", "b", "c">>

Values1 == {Null, Integer(0), Integer(1), Integer(-1), Integer(5), Integer(MaxInt),
            Integer(MinInt), Real(0), Real(3), Real(8), Real(NaN), Boolean(TRUE), Boolean(FALSE),
            Text(""), Text(" 1"), Text("1.0"), Text("1"), Text("1.5"), Text("-0.5"), Text("a"),
            Text("nan"), Text("{}"), Blob(<<>>), Blob(<<"a">>), Json("{}"), Json("1")}
ColumnTypes == {{}, {"INT"}, {"INT", "CHAR"}, {"TEXT"}, {"REAL"}, {"BOOL"}, {"JSON"}, {"other"},
                {"BLOB", "REAL"}}

Leaves == {Literal(v) : v \in {Null, Integer(1), Integer(5), Integer(MinInt), Integer(-1),
                               Real(3), Text("1.5"), Text("a"), Text("nan"), Boolean(TRUE)}}
          \cup {Column(0), Param(0), Column(7)}
OneDeep == Leaves \cup {Unary(op, x) : op \in {"Neg", "Not"}, x \in Leaves}
           \cup {Binary(op, x, y) : op \in {"Add", "Mul", "Div", "Mod", "And", "Eq", "Lt", "Concat"},
                                    x \in Leaves, y \in Leaves}
Few == {Literal(Null), Literal(Integer(MaxInt)), Literal(Boolean(FALSE)), Column(1), RowId}
Trees == OneDeep
         \cup {Unary(op, x) : op \in {"Neg", "Not"}, x \in OneDeep}
         \cup {Binary(op, x, y) : op \in {"Sub", "Mul", "Or", "GtEq"}, x \in OneDeep, y \in Few}
         \cup {IsNullTest(x, n) : x \in Leaves, n \in BOOLEAN}
         \cup {Like(x, y, FALSE) : x \in Leaves, y \in Leaves}
         \cup {InList(x, <<y, z>>, n) : x \in Leaves, y \in Leaves, z \in Few, n \in BOOLEAN}
         \cup {Cast(x, ty) : x \in Leaves, ty \in {"Integer", "Real", "Text", "Boolean", "Blob"}}
         \cup {Function(f, <<x, y>>) : x \in Leaves, y \in Leaves,
               f \in {"ABS", "MIN", "MAX", "COALESCE", "IFNULL", "NULLIF", "SIGN", "TYPEOF", "MOD", "?"}}
         \cup {Case(o, << <<x, Literal(Integer(1))>>, <<y, Column(1)>> >>, e) :
               o \in {<<>>, <<Literal(Null)>>, <<Column(0)>>}, x \in Leaves, y \in Few,
               e \in {<<>>, <<ScalarSubquery(<<>>)>>}}

Strings(alphabet, n) == UNION {[1..k -> alphabet] : k \in 0..n}
MatchTexts == Strings({"a", "b", "]"}, 3)
LikeSamples == Strings({"a", "b", "%", "_"}, 4)

\* Each GLOB pattern with its tokens.
Class(chars, tokens) == <<chars, tokens>>
GlobPieces ==
    { Class(<<"a">>, <<{"a"}>>), Class(<<"*">>, <<{"*"}>>), Class(<<"?">>, <<{"?"}>>),
      Class(<<"[", "a", "-", "b", "]">>, <<{"a", "b"}>>),
      Class(<<"[", "^", "a", "]">>, <<{"b", "c", "]", "-"}>>),
      Class(<<"[", "]", "a", "]">>, <<{"a", "]"}>>),
      Class(<<"[", "^", "]", "]">>, <<{"a", "b", "c", "-"}>>),
      Class(<<"[", "b", "-", "]">>, <<{"b", "-"}>>),
      Class(<<"[", "a", "b", "-", "c", "]">>, <<{"a", "b", "c"}>>),
      Class(<<>>, <<>>) }
GlobSamples == {<<x[1] \o y[1] \o z[1], x[2] \o y[2] \o z[2]>> :
                    x \in GlobPieces, y \in GlobPieces, z \in GlobPieces}
               \cup {<<x[1] \o y, x[2] \o <<{"never"}>> >> : x \in GlobPieces,
                     y \in {<<"[">>, <<"[", "a">>, <<"[", "]">>, <<"[", "^", "]">>}}

SampleMoments ==
    [k : {"date"}, y : {-4713, 1900, 2000, 9999}, m : {1, 2, 12}, d : {1, 29, 31},
     time : {<<>>, <<23>>}]
    \cup [k : {"date"}, y : {4, 2023, 2024}, m : {3, 13}, d : {0, 28, 30}, time : {<<12>>}]
    \cup [k : {"time"}, h : {11}] \cup [k : {"other"}] \cup [k : {"now"}, now : {475000}]
    \cup [k : {"number"}, r : {-1, 0, 2460000, 5373484, 5373485}]
SampleModifiers ==
    {[k |-> "utc"], [k |-> "unixepoch"], [k |-> "julianday"], [k |-> "offset", hours |-> -13]}
    \cup {[k |-> "weekday", n |-> n] : n \in {0, 4}}
    \cup {[k |-> "start of", unit |-> u] : u \in {"day", "month", "year"}}
    \cup {[k |-> "numeric", r |-> r, unit |-> u] : r \in {-13, 25}, u \in {"hour", "day", "month", "year"}}
=============================================================================
