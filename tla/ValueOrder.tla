------------------------------ MODULE ValueOrder ------------------------------
(***************************************************************************)
(* What order_key is to be: a total order of the values that are not left  *)
(* unordered.  It is one of the questions that Algorithms asks.            *)
(***************************************************************************)
EXTENDS Values

VARIABLE question    \* what is asked

IsNaN(v) == v.t = "Real" /\ v.v = NaN

\* order_key says it is a total order, and the sort relies on it: a cycle
\* a < b < c < a, or two values that each come first, would make ORDER BY and
\* GROUP BY depend on the order of the rows.  NaN, which equals every number,
\* and JSON next to text, which equals every text, are not ordered.
OrderIsTotal ==
    question.about = "order" =>
        LET a == question.a
            b == question.b
            c == question.c
            LtEq(x, y) == order_key(x, y) # "Greater"
            Unordered == \/ \E v \in {a, b, c} : IsNaN(v)
                         \/ {"Json", "Text"} \subseteq {a.t, b.t, c.t}
        IN  ~Unordered =>
               /\ LtEq(a, b) \/ LtEq(b, a)
               /\ LtEq(a, b) /\ LtEq(b, a) => order_key(a, b) = "Equal" /\ SameValue(a, b)
               /\ LtEq(a, b) /\ LtEq(b, c) => LtEq(a, c)
===============================================================================
