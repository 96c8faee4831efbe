------------------------------ MODULE Expressions ------------------------------
(***************************************************************************)
(* Expressions and their evaluation against a row (executor/eval.rs), and  *)
(* the constant folding the planner applies to them beforehand             *)
(* (planner/optimizer.rs).                                                 *)
(*                                                                         *)
(* An expression is a record with the constructor in field e.  Evaluation  *)
(* returns a value, Failed for an Err, or Panicked where the code stops    *)
(* the thread.  Functions are those whose result depends on the storage    *)
(* class of their arguments; texts are made and taken apart in Patterns.   *)
(***************************************************************************)
EXTENDS Values, Patterns

Failed == [t |-> "Failed"]
Panicked == [t |-> "Panicked"]
IsValue(x) == x.t \notin {"Failed", "Panicked"}

Literal(v) == [e |-> "Literal", v |-> v]
Column(i) == [e |-> "Column", i |-> i]
RowId == [e |-> "RowId"]
Param(i) == [e |-> "Param", i |-> i]
Unary(op, a) == [e |-> "Unary", op |-> op, a |-> a]
Binary(op, a, b) == [e |-> "Binary", op |-> op, a |-> a, b |-> b]
IsNullTest(a, negated) == [e |-> "IsNull", a |-> a, negated |-> negated]
Like(a, b, negated) == [e |-> "Like", a |-> a, b |-> b, negated |-> negated]
InList(a, list, negated) == [e |-> "InList", a |-> a, list |-> list, negated |-> negated]
Function(name, args) == [e |-> "Function", name |-> name, args |-> args]
Cast(a, ty) == [e |-> "Cast", a |-> a, ty |-> ty]
\* operand is <<>> in the searched form, otherwise <<else_result>> is optional.
Case(operand, whens, orElse) ==
    [e |-> "Case", operand |-> operand, whens |-> whens, orElse |-> orElse]
\* Subqueries, kept as they were parsed until the engine replaces them.
ScalarSubquery(q) == [e |-> "ScalarSubquery", q |-> q]
Exists(q, negated) == [e |-> "Exists", q |-> q, negated |-> negated]
InSubquery(a, q, negated) == [e |-> "InSubquery", a |-> a, q |-> q, negated |-> negated]

Comparisons == {"Eq", "NotEq", "Lt", "LtEq", "Gt", "GtEq"}
Arithmetic == {"Add", "Sub", "Mul", "Div", "Mod"}

-----------------------------------------------------------------------------
(* Operators. *)

truth(v) == IF is_null(v) THEN "unknown" ELSE IF is_truthy(v) THEN "true" ELSE "false"

\* AND and OR of truths: one decides alone, the other needs both.
Logic(truths, decides, otherwise) ==
    IF decides \in truths THEN Boolean(decides = "true")
    ELSE IF truths = {otherwise} THEN Boolean(otherwise = "true") ELSE Null

Verdict(op, ord) ==
    IF ord = "None" THEN Failed
    ELSE Boolean(CASE op = "Eq" -> ord = "Equal"
                   [] op = "NotEq" -> ord # "Equal"
                   [] op = "Lt" -> ord = "Less"
                   [] op = "LtEq" -> ord # "Greater"
                   [] op = "Gt" -> ord = "Greater"
                   [] op = "GtEq" -> ord # "Less")

\* Rust's `/` and `%` truncate.
Quotient(x, y) ==
    LET q == (IF x < 0 THEN -x ELSE x) \div (IF y < 0 THEN -y ELSE y)
    IN  IF (x < 0) = (y < 0) THEN q ELSE -q
Remainder(x, y) == x - y * Quotient(x, y)

\* An i64 of a division of two integers: i64::MIN / -1 panics.
DivideInts(op, x, y) ==
    IF x = MinInt /\ y = -1 THEN Panicked
    ELSE Integer(IF op = "Div" THEN Quotient(x, y) ELSE Remainder(x, y))

\* Everything but integer division is computed in f64; x and y are halves.
EvalF64(op, x, y) ==
    IF NaN \in {x, y} THEN NaN
    ELSE RoundF64(CASE op = "Add" -> x + y
                    [] op = "Sub" -> x - y
                    [] op = "Mul" -> Quotient(x * y, 2)
                    [] op = "Div" -> Quotient(2 * x, y)
                    [] op = "Mod" -> Remainder(x, y))

\* A result is an integer where both operands were and it is a whole number.
OfF64(res, both_int) ==
    IF both_int /\ IsWhole(res) THEN Integer(I64OfF64(res)) ELSE Real(res)

\* x and y are what as_f64 makes of the operands.
EvalArithmetic(op, x, y, both_int) ==
    IF Nothing \in {x, y} THEN Failed
    ELSE IF op \in {"Div", "Mod"} /\ y.v = 0 THEN Null
    ELSE IF op \in {"Div", "Mod"} /\ both_int THEN DivideInts(op, I64OfF64(x.v), I64OfF64(y.v))
    ELSE OfF64(EvalF64(op, x.v, y.v), both_int)

\* `||` makes a text no table of the instance has to order.
eval_binary(op, l, r) ==
    CASE op \in {"And", "Or"} ->
            Logic({truth(l), truth(r)}, IF op = "And" THEN "false" ELSE "true",
                                        IF op = "And" THEN "true" ELSE "false")
      [] op \notin {"And", "Or"} /\ (is_null(l) \/ is_null(r)) -> Null
      [] OTHER ->
            CASE op \in Comparisons -> Verdict(op, compare(l, r))
              [] op = "Concat" -> Text(to_display_string(l) \o to_display_string(r))
              [] op \in Arithmetic -> EvalArithmetic(op, as_f64(l), as_f64(r),
                                                     l.t = "Integer" /\ r.t = "Integer")

\* -i64::MIN wraps in a release build.
eval_unary(op, v) ==
    LET Minus(f) == IF f = Nothing THEN 0 ELSE IF f.v = NaN THEN NaN ELSE -f.v
    IN  CASE is_null(v) -> Null
          [] ~is_null(v) /\ op = "Not" -> Boolean(~is_truthy(v))
          [] ~is_null(v) /\ op = "Neg" ->
                IF v.t = "Integer" THEN Integer(IF v.v = MinInt THEN MinInt ELSE -v.v)
                ELSE Real(Minus(as_f64(v)))

EvalLike(v, p, negated) ==
    LET CharsOf(s) == [i \in 1..Len(s) |-> SubSeq(s, i, i)]
    IN  IF is_null(v) \/ is_null(p) THEN Null
        ELSE Boolean(like_rec(CharsOf(to_display_string(p)),
                              CharsOf(to_display_string(v))) # negated)

\* The number the text of CAST starts with, in halves.
leading_number(s) ==
    CASE s = "1x" -> [t |-> "Some", v |-> 2]
      [] s = "2x" -> [t |-> "Some", v |-> 4]
      [] s = "nan" -> Nothing
      [] OTHER -> ParseF64(Trimmed(s))

cast(v, ty) ==
    LET Halves(f) == IF f = Nothing THEN 0 ELSE f.v
        h == Halves(IF v.t = "Text" THEN leading_number(v.s) ELSE as_f64(v))
    IN  CASE is_null(v) \/ v.t = ty -> v
          [] ~is_null(v) /\ v.t # ty ->
                CASE ty = "Integer" -> Integer(I64OfF64(h))
                  [] ty = "Real" -> Real(h)
                  [] ty = "Text" -> Text(to_display_string(v))
                  [] ty = "Boolean" -> Boolean(is_truthy(v))
                  [] OTHER -> v

-----------------------------------------------------------------------------
(* Functions. *)

\* The scalar min and max: the first extreme of the arguments.
Extreme(args, want) ==
    LET Take(best, v) == IF compare(v, best) = want THEN v ELSE best
    IN  IF \E k \in 1..Len(args) : is_null(args[k]) THEN Null
        ELSE FoldLeft(Take, args[1], Tail(args))

Arg(args, k) == IF k <= Len(args) THEN args[k] ELSE Null
AbsHalves(h) == IF h # NaN /\ h < 0 THEN -h ELSE h

\* Of the numbers f, g that as_f64 makes of arguments.
Abs(f, all_int) ==
    IF f = Nothing THEN Null
    ELSE IF all_int THEN Integer(I64OfF64(AbsHalves(f.v))) ELSE Real(AbsHalves(f.v))
Modulo(f, g) == IF Nothing \in {f, g} \/ g.v = 0 THEN Null ELSE Real(EvalF64("Mod", f.v, g.v))
Sign(f) ==
    IF f = Nothing THEN Null
    ELSE Integer(IF f.v = NaN THEN 0 ELSE IF f.v > 0 THEN 1 ELSE IF f.v < 0 THEN -1 ELSE 0)
NullIf(a, b) == IF ~is_null(a) /\ SameValue(a, b) THEN Null ELSE a
TypeOf(a) ==
    Text(CASE a.t = "Null" -> "null"
           [] a.t \in {"Integer", "Boolean"} -> "integer"
           [] a.t = "Real" -> "real"
           [] a.t \in {"Text", "Json"} -> "text"
           [] a.t = "Blob" -> "blob")

\* The functions of this module; "?" stands for a name the code does not know.
eval_function(name, args) ==
    LET a == Arg(args, 1)
        b == Arg(args, 2)
        Numeric(f, g) ==
            CASE name = "ABS" -> Abs(f, \A k \in 1..Len(args) : args[k].t = "Integer")
              [] name = "SIGN" -> Sign(f)
              [] name = "MOD" -> Modulo(f, g)
    IN  CASE name \in {"ABS", "SIGN", "MOD"} -> Numeric(as_f64(a), as_f64(b))
          [] name \in {"MIN", "MAX"} /\ args # <<>> ->
                Extreme(args, IF name = "MIN" THEN "Less" ELSE "Greater")
          [] name = "COALESCE" ->
                LET found == {k \in 1..Len(args) : ~is_null(args[k])}
                IN  IF found = {} THEN Null
                    ELSE args[CHOOSE k \in found : \A j \in found : k <= j]
          [] name = "IFNULL" -> IF is_null(a) THEN b ELSE a
          [] name = "NULLIF" -> NullIf(a, b)
          [] name = "TYPEOF" -> TypeOf(a)
          [] OTHER -> Failed

-----------------------------------------------------------------------------
(* eval: parameters and columns are counted from zero. *)

\* The first result of a list that is no value, or what Op makes of them.
Strict(results, Op(_)) ==
    LET bad == {k \in 1..Len(results) : ~IsValue(results[k])}
    IN  IF bad = {} THEN Op(results)
        ELSE results[CHOOSE k \in bad : \A j \in bad : k <= j]

\* Where a list that is worked through in order stops, or 0.
FirstOf(stops) == IF stops = {} THEN 0 ELSE CHOOSE k \in stops : \A j \in stops : k <= j

\* IN: the first item that is equal, or whose evaluation fails, ends the search.
Member(v, items, negated) ==
    LET Found(k) == IF k # 0 /\ ~IsValue(items[k]) THEN items[k] ELSE Boolean((k # 0) # negated)
    IN  IF ~IsValue(v) \/ is_null(v) THEN v
        ELSE Found(FirstOf({k \in 1..Len(items) :
                               ~IsValue(items[k]) \/ compare(v, items[k]) = "Equal"}))

\* The first WHEN that holds, is equal to the operand, or fails.
FirstWhen(operand, conds) ==
    FirstOf({k \in 1..Len(conds) :
                \/ ~IsValue(conds[k])
                \/ IF operand = <<>> THEN is_truthy(conds[k])
                   ELSE compare(operand[1], conds[k]) = "Equal"})

RECURSIVE eval(_, _, _, _)
eval(x, values, row_id, params) ==
    LET Ev(y) == eval(y, values, row_id, params)
        All(ys) == [k \in 1..Len(ys) |-> Ev(ys[k])]
        Branch(conds, k) ==
            IF k = 0 THEN IF x.orElse = <<>> THEN Null ELSE Ev(x.orElse[1])
            ELSE IF ~IsValue(conds[k]) THEN conds[k] ELSE Ev(x.whens[k][2])
        Cases(operand, conds) ==
            IF \E k \in 1..Len(operand) : ~IsValue(operand[k]) THEN operand[1]
            ELSE Branch(conds, FirstWhen(operand, conds))
    IN
    CASE x.e = "Literal" -> x.v
      [] x.e = "Column" -> IF x.i < Len(values) THEN values[x.i + 1] ELSE Failed
      [] x.e = "RowId" -> Integer(row_id)
      [] x.e = "Param" -> IF x.i < Len(params) THEN params[x.i + 1] ELSE Failed
      [] x.e \in {"Unary", "IsNull", "Cast"} ->
            Strict(<<Ev(x.a)>>, LAMBDA r :
                CASE x.e = "Unary" -> eval_unary(x.op, r[1])
                  [] x.e = "IsNull" -> Boolean(is_null(r[1]) # x.negated)
                  [] x.e = "Cast" -> cast(r[1], x.ty))
      [] x.e \in {"Binary", "Like"} ->
            Strict(<<Ev(x.a), Ev(x.b)>>, LAMBDA r :
                IF x.e = "Binary" THEN eval_binary(x.op, r[1], r[2])
                ELSE EvalLike(r[1], r[2], x.negated))
      [] x.e = "InList" -> Member(Ev(x.a), All(x.list), x.negated)
      [] x.e = "Function" -> Strict(All(x.args), LAMBDA r : eval_function(x.name, r))
      [] x.e = "Case" -> Cases(All(x.operand), [k \in 1..Len(x.whens) |-> Ev(x.whens[k][1])])
      [] x.e \in {"ScalarSubquery", "Exists", "InSubquery"} -> Failed

-----------------------------------------------------------------------------
(* Constant folding. *)

\* x and y are what as_f64 makes of two literals.
FoldF64(op, x, y, both_int) ==
    IF op \notin {"Add", "Sub", "Mul"} \/ Nothing \in {x, y} THEN Nothing
    ELSE OfF64(EvalF64(op, x.v, y.v), both_int)
FoldsIntsToInts(op, a, b) == FoldF64(op, as_f64(a), as_f64(b), TRUE)
eval_const_binary(op, a, b) ==
    FoldF64(op, as_f64(a), as_f64(b), a.t = "Integer" /\ b.t = "Integer")

eval_const_unary(op, v) ==
    CASE op = "Neg" -> IF v.t \in {"Integer", "Real"} THEN eval_unary("Neg", v) ELSE Nothing
      [] op = "Not" -> Boolean(~is_truthy(v))

\* The literal v where there is one, the expression x where there is not.
LiteralOr(v, x) == IF v = Nothing THEN x ELSE Literal(v)

FoldUnary(op, a) ==
    LiteralOr(IF a.e = "Literal" THEN eval_const_unary(op, a.v) ELSE Nothing, Unary(op, a))
FoldBinary(op, a, b) ==
    LiteralOr(IF a.e = "Literal" /\ b.e = "Literal" THEN eval_const_binary(op, a.v, b.v)
              ELSE Nothing, Binary(op, a, b))

RECURSIVE fold(_)
fold(x) == CASE x.e = "Binary" -> FoldBinary(x.op, fold(x.a), fold(x.b))
             [] x.e = "Unary" -> FoldUnary(x.op, fold(x.a))
             [] OTHER -> x
=============================================================================
