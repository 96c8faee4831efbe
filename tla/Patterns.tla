------------------------------- MODULE Patterns -------------------------------
(***************************************************************************)
(* The text algorithms of the evaluator over sequences of characters: LIKE *)
(* and GLOB matching, substr() and trim() (executor/eval.rs and            *)
(* executor/builtins.rs), and what each of them is to compute.             *)
(***************************************************************************)
EXTENDS Integers, Sequences, SequencesExt

CONSTANT CharOrder   \* the characters in code point order

CharRank(c) == CHOOSE k \in 1..Len(CharOrder) : CharOrder[k] = c

-----------------------------------------------------------------------------
(* LIKE. *)

\* like_match has folded the case of both before.
RECURSIVE like_rec(_, _)
like_rec(p, t) ==
    IF p = <<>> THEN t = <<>>
    ELSE CASE p[1] = "%" -> \/ like_rec(Tail(p), t)
                            \/ t # <<>> /\ like_rec(p, Tail(t))
           [] p[1] = "_" -> t # <<>> /\ like_rec(Tail(p), Tail(t))
           [] OTHER -> t # <<>> /\ t[1] = p[1] /\ like_rec(Tail(p), Tail(t))

-----------------------------------------------------------------------------
(* GLOB. *)

\* The scan of a class from position i (1-based): <<matched, consumed>>, or
\* <<>> for a class that is not closed.
RECURSIVE class_scan(_, _, _, _, _)
class_scan(p, ch, negate, i, matched) ==
    LET first == IF negate THEN 2 ELSE 1
    IN  IF i > Len(p) THEN <<>>
        ELSE IF p[i] = "]" /\ i > first THEN <<matched # negate, i>>
        ELSE IF i + 2 <= Len(p) /\ p[i + 1] = "-" /\ p[i + 2] # "]"
             THEN class_scan(p, ch, negate, i + 3,
                      \/ matched
                      \/ /\ CharRank(p[i]) <= CharRank(ch)
                         /\ CharRank(ch) <= CharRank(p[i + 2]))
        ELSE class_scan(p, ch, negate, i + 1, matched \/ p[i] = ch)

ClassIgnoresCaret(p, ch) == class_scan(p, ch, FALSE, 1, FALSE)
class_match(p, ch) ==
    LET negate == p # <<>> /\ p[1] = "^"
    IN  class_scan(p, ch, negate, IF negate THEN 2 ELSE 1, FALSE)

RECURSIVE glob_rec(_, _)
glob_rec(p, t) ==
    IF p = <<>> THEN t = <<>>
    ELSE CASE p[1] = "*" -> \/ glob_rec(Tail(p), t)
                            \/ t # <<>> /\ glob_rec(p, Tail(t))
           [] p[1] = "?" -> t # <<>> /\ glob_rec(Tail(p), Tail(t))
           [] p[1] = "[" ->
                 /\ t # <<>>
                 /\ LET c == class_match(Tail(p), t[1])
                    IN  c # <<>> /\ c[1] /\ glob_rec(SubSeq(p, c[2] + 2, Len(p)), Tail(t))
           [] OTHER -> t # <<>> /\ p[1] = t[1] /\ glob_rec(Tail(p), Tail(t))

-----------------------------------------------------------------------------
(* substr(X, Y [, Z]); len is <<>> where Z is missing.   *)

Clamp(i, lo, hi) == IF i < lo THEN lo ELSE IF i > hi THEN hi ELSE i

substr(chars, y, len) ==
    LET n == Len(chars)
        fromEnd == IF y < 0 THEN y + n + 1 ELSE y
        start == IF fromEnd < 1 THEN 1 ELSE fromEnd
        start_idx == Clamp(start - 1, 0, n)
    IN  IF len = <<>> THEN SubSeq(chars, start_idx + 1, n)
        ELSE IF len[1] < 0
             THEN SubSeq(chars, Clamp(start_idx + len[1], 0, n) + 1, start_idx)
             ELSE SubSeq(chars, start_idx + 1, Clamp(start_idx + len[1], 0, n))

trim_fn(chars, cutset, left, right) ==
    LET keep == {i \in 1..Len(chars) : chars[i] \notin cutset}
        from == IF ~left \/ keep = {} THEN 1
                ELSE CHOOSE i \in keep : \A j \in keep : i <= j
        to == IF ~right THEN Len(chars) ELSE
              IF keep = {} THEN 0 ELSE CHOOSE i \in keep : \A j \in keep : i >= j
    IN  IF keep = {} /\ (left \/ right) THEN <<>> ELSE SubSeq(chars, from, to)
=============================================================================
