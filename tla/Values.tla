-------------------------------- MODULE Values --------------------------------
(***************************************************************************)
(* SQL values and their rules: storage classes, column affinity, the two   *)
(* orders, truth, and the numeric views (squrust-sql/src/types.rs).        *)
(*                                                                         *)
(* Numbers keep their widths at a small scale.  An i64 is a number of      *)
(* I64.  An f64 is counted in halves and has a mantissa of Mantissa units: *)
(* above it the step doubles, so that not every integer has an f64, as     *)
(* above 2^53 in the code; NaN is the f64 that equals nothing.  A text is  *)
(* a string; what Rust's parsers make of one is given for the spellings of *)
(* numbers and a few words, the texts the code treats differently.         *)
(***************************************************************************)
EXTENDS Integers, Sequences, SequencesExt

CONSTANTS
    MaxInt,     \* i64::MAX
    Mantissa,   \* integers up to half of this one are exact as f64
    NaN         \* the f64 that is not a number

ASSUME ValuesAssumption == MaxInt \in 1..9 /\ Mantissa \in {2, 4, 8} /\ NaN \notin Int

MinInt == -MaxInt - 1
I64 == MinInt..MaxInt

Null == [t |-> "Null"]
Integer(i) == [t |-> "Integer", v |-> i]
Real(h) == [t |-> "Real", v |-> h]
Text(s) == [t |-> "Text", s |-> s]
Blob(b) == [t |-> "Blob", b |-> b]
Boolean(b) == [t |-> "Boolean", z |-> b]
Json(s) == [t |-> "Json", s |-> s]

is_null(v) == v.t = "Null"

\* No result of a partial conversion (Option::None).
Nothing == [t |-> "Nothing"]

-----------------------------------------------------------------------------
(* f64 in halves. *)

\* The distance of neighbouring f64 at h.
Ulp(h) ==
    LET a == IF h < 0 THEN -h ELSE h IN
    CHOOSE s \in {1, 2, 4, 8, 16, 32, 64, 128, 256, 512, 1024, 2048, 4096} :
        a <= Mantissa * s /\ (s = 1 \/ 2 * a > Mantissa * s)

\* Rounding to the nearest f64, ties to even.
ToStep(h, s) ==
    LET q == h \div s
        r == h % s
    IN  s * (IF 2 * r > s \/ (2 * r = s /\ q % 2 = 1) THEN q + 1 ELSE q)
RoundF64(h) == IF h = NaN THEN NaN ELSE ToStep(h, Ulp(h))

\* `i as f64` and `r as i64`, which saturates and takes NaN to zero.
F64OfI64(i) == RoundF64(2 * i)
TruncHalves(h) == IF h < 0 THEN -((-h) \div 2) ELSE h \div 2
I64OfF64(h) ==
    IF h = NaN THEN 0
    ELSE LET i == TruncHalves(h)
         IN  IF i > MaxInt THEN MaxInt ELSE IF i < MinInt THEN MinInt ELSE i

IsWhole(h) == h # NaN /\ h % 2 = 0

-----------------------------------------------------------------------------
(* Texts. *)

\* Value::to_display_string of the numbers.
SpellInt(i) == ToString(i)
SpellReal(h) ==
    IF h = NaN THEN ""
    ELSE LET a == IF h < 0 THEN -h ELSE h IN
         (IF h < 0 THEN "-" ELSE "") \o ToString(a \div 2)
             \o (IF a % 2 = 0 THEN ".0" ELSE ".5")

\* The texts of the instance in byte order: a space sorts before a minus
\* sign, that before the digits, and the digits before the words.
Magnitudes(sign, from) ==
    FlattenSeq([k \in 1..(MaxInt + 2 - from) |->
        LET d == sign \o ToString(k + from - 1)
        IN  <<d, d \o ".0", d \o ".5">>])
Words == <<"1x", "2x", "a", "ab", "nan", "{}">>
TextOrder ==
    <<"", " 1", "-0.5">> \o Magnitudes("-", 1) \o Magnitudes("", 0) \o Words
IndexIn(texts, s) == CHOOSE k \in 1..Len(texts) : texts[k] = s
TextRank(s) == IndexIn(TextOrder, s)

\* str::trim, str::parse::<i64> and str::parse::<f64>.
Trimmed(s) == IF s = " 1" THEN "1" ELSE s
ParseI64(s) ==
    LET is == {i \in I64 : SpellInt(i) = s}
    IN  IF is = {} THEN Nothing ELSE [t |-> "Some", v |-> CHOOSE i \in is : TRUE]
ParseF64(s) ==
    LET Spelled(hs) == IF hs = {} THEN Nothing
                       ELSE [t |-> "Some", v |-> RoundF64(CHOOSE h \in hs : TRUE)]
    IN  IF s = "nan" THEN [t |-> "Some", v |-> NaN]
        ELSE Spelled({h \in (2 * MinInt)..(2 * MaxInt + 3) :
                         s = SpellReal(h) \/ (h % 2 = 0 /\ s = SpellInt(h \div 2))})

\* serde_json: numbers, quoted strings and {} are documents, and blanks around
\* them are dropped.
Quoted(s) == "\"" \o s \o "\""
IsJson(s) == \/ s = "{}"
             \/ Len(s) > 0 /\ SubSeq(s, 1, 1) = "\""
             \/ s # "nan" /\ ParseF64(Trimmed(s)) # Nothing

-----------------------------------------------------------------------------
(* Conversions. *)

\* SqlType::affinity_from_decl: keys are the keywords the declared type
\* contains; a type that is spelled but has none of them is {"other"}.
affinity_from_decl(keys) ==
    CASE "INT" \in keys -> "Integer"
      [] "INT" \notin keys /\ keys \cap {"CHAR", "CLOB", "TEXT"} # {} -> "Text"
      [] keys \cap {"INT", "CHAR", "CLOB", "TEXT"} = {}
             /\ ("BLOB" \in keys \/ keys = {}) -> "Blob"
      [] OTHER ->
            IF keys \cap {"REAL", "FLOA", "DOUB"} # {} THEN "Real"
            ELSE IF "BOOL" \in keys THEN "Boolean"
            ELSE IF "JSON" \in keys THEN "Json" ELSE "Integer"

is_truthy(v) ==
    CASE v.t = "Null" -> FALSE
      [] v.t = "Boolean" -> v.z
      [] v.t \in {"Integer", "Real"} -> v.v # 0
      [] v.t = "Text" -> ParseF64(v.s) \notin {Nothing, [t |-> "Some", v |-> 0]}
      [] v.t = "Blob" -> v.b # <<>>
      [] v.t = "Json" -> TRUE

\* Value::numeric_only, the view that comparison uses.
numeric_only(v) ==
    CASE v.t = "Integer" -> [t |-> "Some", v |-> F64OfI64(v.v)]
      [] v.t = "Real" -> [t |-> "Some", v |-> v.v]
      [] v.t = "Boolean" -> [t |-> "Some", v |-> IF v.z THEN 2 ELSE 0]
      [] OTHER -> Nothing

as_f64(v) == IF v.t = "Text" THEN ParseF64(v.s) ELSE numeric_only(v)

as_i64(v) ==
    CASE v.t = "Integer" -> [t |-> "Some", v |-> v.v]
      [] v.t = "Real" -> [t |-> "Some", v |-> I64OfF64(v.v)]
      [] v.t = "Boolean" -> [t |-> "Some", v |-> IF v.z THEN 1 ELSE 0]
      [] v.t = "Text" -> ParseI64(v.s)
      [] OTHER -> Nothing

\* Blobs of the instance are empty or hold one of the texts.
to_display_string(v) ==
    CASE v.t = "Null" -> ""
      [] v.t = "Integer" -> SpellInt(v.v)
      [] v.t = "Real" -> SpellReal(v.v)
      [] v.t \in {"Text", "Json"} -> v.s
      [] v.t = "Boolean" -> IF v.z THEN "1" ELSE "0"
      [] v.t = "Blob" -> IF v.b = <<>> THEN "" ELSE v.b[1]

\* The number a text spells: an i64 if it can be one, an f64, or none.
NumberOf(s) ==
    LET Or(int, float) == IF int # Nothing THEN Integer(int.v)
                          ELSE IF float # Nothing THEN Real(float.v) ELSE Nothing
    IN  Or(ParseI64(s), ParseF64(s))

\* A number as the integer or the real that a column prefers.
Prefer(n, integer_pref) ==
    CASE n.t = "Integer" -> IF integer_pref THEN n ELSE Real(F64OfI64(n.v))
      [] n.t = "Real" -> IF integer_pref /\ IsWhole(n.v) /\ n.v \in (2 * MinInt)..(2 * MaxInt + 2)
                         THEN Integer(I64OfF64(n.v)) ELSE n

apply_numeric(v, integer_pref) ==
    LET OrText(n) == IF n = Nothing THEN v ELSE Prefer(n, integer_pref)
    IN  OrText(CASE v.t \in {"Integer", "Real"} -> v
                 [] v.t = "Boolean" -> Integer(IF v.z THEN 1 ELSE 0)
                 [] v.t = "Text" -> NumberOf(Trimmed(v.s))
                 [] OTHER -> Nothing)

\* Nothing is the error of a text that is no JSON document.
coerce_to(v, target) ==
    CASE is_null(v) \/ target \in {"Blob", "Null"} -> v
      [] ~is_null(v) /\ target \in {"Integer", "Real"} -> apply_numeric(v, target = "Integer")
      [] ~is_null(v) /\ target = "Boolean" -> Boolean(is_truthy(v))
      [] ~is_null(v) /\ target = "Text" ->
            IF v.t \in {"Text", "Blob"} THEN v ELSE Text(to_display_string(v))
      [] ~is_null(v) /\ target = "Json" ->
            IF v.t = "Json" THEN v
            ELSE IF v.t = "Text" THEN IF IsJson(v.s) THEN Json(Trimmed(v.s)) ELSE Nothing
            ELSE Json(Quoted(to_display_string(v)))

-----------------------------------------------------------------------------
(* Orders: "None" is Option::None, the rest is std::cmp::Ordering. *)

Ordering(a, b) == IF a < b THEN "Less" ELSE IF a > b THEN "Greater" ELSE "Equal"

RankOfBooleansLast(v) == IF v.t = "Null" THEN 0 ELSE IF v.t \in {"Integer", "Real"} THEN 1 ELSE 2
class_rank(v) ==
    CASE v.t = "Null" -> 0
      [] v.t \in {"Integer", "Real", "Boolean"} -> 1
      [] v.t \in {"Text", "Json"} -> 2
      [] v.t = "Blob" -> 3

\* A text and a blob compare by their bytes; <<>> are none.
BytesOf(v) == IF v.t = "Text" THEN <<v.s>> ELSE v.b
CompareBytes(x, y) == IF <<>> \in {x, y} THEN Ordering(Len(x), Len(y))
                      ELSE Ordering(TextRank(x[1]), TextRank(y[1]))

\* x and y are what numeric_only makes of a and b, which are not NULL.
CompareClasses(a, b, x, y) ==
    IF Nothing \notin {x, y} THEN IF NaN \in {x.v, y.v} THEN "None" ELSE Ordering(x.v, y.v)
    ELSE IF a.t = b.t /\ a.t \in {"Text", "Blob"} THEN CompareBytes(BytesOf(a), BytesOf(b))
    ELSE Ordering(class_rank(a), class_rank(b))

compare(a, b) ==
    IF is_null(a) /\ is_null(b) THEN "Equal"
    ELSE IF is_null(a) \/ is_null(b) THEN "None"
    ELSE CompareClasses(a, b, numeric_only(a), numeric_only(b))

\* PartialEq for Value: NULL equals NULL and NaN does not equal itself.
SameValue(a, b) == compare(a, b) = "Equal"

order_key(a, b) ==
    LET OrEqual(ord) == IF ord = "None" THEN "Equal" ELSE ord
    IN  CASE is_null(a) /\ is_null(b) -> "Equal"
          [] is_null(a) /\ ~is_null(b) -> "Less"
          [] ~is_null(a) /\ is_null(b) -> "Greater"
          [] ~is_null(a) /\ ~is_null(b) -> OrEqual(compare(a, b))
=============================================================================
