--------------------------- MODULE ValueOrderProofs ---------------------------
(***************************************************************************)
(* order_key is a total order of all the values of Values that are not     *)
(* left unordered, for each of its widths of integers and of floating-     *)
(* point numbers: it compares the classes first, and then a number that    *)
(* each value has in its class.                                            *)
(***************************************************************************)
EXTENDS ValueOrder, TLAPS

\* All values; a text is one that has a place in the order of texts.
Strings == {s \in STRING : \E k \in 1..Len(TextOrder) : TextOrder[k] = s}
AllValues ==
    {Null} \cup {Integer(i) : i \in I64} \cup {Real(h) : h \in Int \cup {NaN}}
    \cup {Text(s) : s \in Strings} \cup {Json(s) : s \in STRING}
    \cup {Blob(b) : b \in {<<>>} \cup {<<s>> : s \in Strings}}
    \cup {Boolean(z) : z \in BOOLEAN}

\* The questions about the order that one may ask.
OrderQuestions == [about : {"order"}, a : AllValues, b : AllValues, c : AllValues]

\* The number of a value in its class.
Weight(v) ==
    IF v.t \in {"Integer", "Real", "Boolean"} THEN numeric_only(v).v
    ELSE IF v.t = "Text" THEN TextRank(v.s)
    ELSE IF v.t = "Blob" /\ v.b # <<>> THEN TextRank(v.b[1])
    ELSE 0

\* An integer has an f64, which is not NaN.
LEMMA IntegersAreFloats ==
    ASSUME NEW i \in I64
    PROVE  F64OfI64(i) \in Int /\ F64OfI64(i) # NaN
<1> DEFINE h == 2 * i
           a == IF h < 0 THEN -h ELSE h
           Steps == {1, 2, 4, 8, 16, 32, 64, 128, 256, 512, 1024, 2048, 4096}
           s == Ulp(h)
<1>1. i \in Int /\ h \in Int /\ a \in 0..20 /\ Mantissa \in {2, 4, 8} /\ NaN \notin Int
  BY ValuesAssumption DEF I64, MinInt
<1>2. s \in Steps
  <2>1. s = CHOOSE k \in Steps : a <= Mantissa * k /\ (k = 1 \/ 2 * a > Mantissa * k)
    BY Zenon DEF Ulp
  <2> HIDE DEF a, s
  <2>2. \E k \in {1, 2, 4, 8, 16} : a <= Mantissa * k /\ (k = 1 \/ 2 * a > Mantissa * k)
    BY <1>1
  <2>3. \E k \in Steps : a <= Mantissa * k /\ (k = 1 \/ 2 * a > Mantissa * k)
    BY <2>2
  <2> HIDE DEF Steps
  <2> QED  BY <2>1, <2>3, Zenon
<1>3. ToStep(h, s) \in Int
  <2> DEFINE q == h \div s
             r == h % s
  <2>1. s \in Nat \ {0}
    BY <1>2
  <2> HIDE DEF s, h
  <2>2. q \in Int
    BY <1>1, <2>1
  <2>3. ToStep(h, s) = s * (IF 2 * r > s \/ (2 * r = s /\ q % 2 = 1) THEN q + 1 ELSE q)
    BY Zenon DEF ToStep
  <2> HIDE DEF q, r
  <2> QED  BY <2>1, <2>2, <2>3
<1>4. F64OfI64(i) = ToStep(h, s)
  BY <1>1 DEF F64OfI64, RoundF64
<1> QED  BY <1>1, <1>3, <1>4

\* Every text has a place among the texts.
LEMMA RankIs ==
    ASSUME NEW s \in Strings
    PROVE  TextRank(s) \in Int /\ TextRank(s) >= 1
<1>1. \E k \in 1..Len(TextOrder) : TextOrder[k] = s
  BY DEF Strings
<1>2. TextRank(s) = CHOOSE k \in 1..Len(TextOrder) : TextOrder[k] = s
  BY Zenon DEF TextRank, IndexIn
<1>3. TextRank(s) \in 1..Len(TextOrder)
  BY <1>1, <1>2, Zenon
<1> QED  BY <1>3

\* The fields of a value.
LEMMA ValueIs ==
    ASSUME NEW v \in AllValues, ~IsNaN(v)
    PROVE  /\ v.t \in {"Null", "Integer", "Real", "Boolean", "Text", "Json", "Blob"}
           /\ Weight(v) \in Int
           /\ v.t \in {"Integer", "Real", "Boolean"} =>
                 numeric_only(v) # Nothing /\ numeric_only(v).v # NaN
           /\ v.t \notin {"Integer", "Real", "Boolean"} => numeric_only(v) = Nothing
           /\ v.t = "Blob" => /\ v.b = <<>> => Len(v.b) = 0
                              /\ v.b # <<>> => Len(v.b) = 1 /\ Weight(v) >= 1
           /\ v.t = "Null" => v = Null
<1>1. CASE v = Null
  BY <1>1 DEF Null, Weight, numeric_only
<1>2. CASE \E i \in I64 : v = Integer(i)
  <2>1. PICK i \in I64 : v = Integer(i)
    BY <1>2
  <2>2. v.t = "Integer" /\ v.v = i
    BY <2>1 DEF Integer
  <2>3. numeric_only(v) = [t |-> "Some", v |-> F64OfI64(i)]
    BY <2>2 DEF numeric_only
  <2>4. numeric_only(v) # Nothing /\ numeric_only(v).v = F64OfI64(i)
    BY <2>3 DEF Nothing
  <2> QED  BY <2>2, <2>4, IntegersAreFloats DEF Weight
<1>3. CASE \E h \in Int \cup {NaN} : v = Real(h)
  <2>1. PICK h \in Int \cup {NaN} : v = Real(h)
    BY <1>3
  <2>2. v.t = "Real" /\ v.v = h /\ h # NaN /\ h \in Int
    BY <2>1 DEF Real, IsNaN
  <2>3. numeric_only(v) = [t |-> "Some", v |-> h]
    BY <2>2 DEF numeric_only
  <2>4. numeric_only(v) # Nothing /\ numeric_only(v).v = h
    BY <2>3 DEF Nothing
  <2> QED  BY <2>2, <2>4 DEF Weight
<1>4. CASE \E s \in Strings : v = Text(s)
  <2>1. PICK s \in Strings : v = Text(s)
    BY <1>4
  <2>2. v.t = "Text" /\ v.s = s
    BY <2>1 DEF Text
  <2>3. Weight(v) = TextRank(s) /\ numeric_only(v) = Nothing
    BY <2>2 DEF Weight, numeric_only
  <2> QED  BY <2>2, <2>3, RankIs
<1>5. CASE \E s \in STRING : v = Json(s)
  BY <1>5 DEF Json, Weight, numeric_only
<1>6. CASE \E b \in {<<>>} \cup {<<s>> : s \in Strings} : v = Blob(b)
  <2>1. PICK b \in {<<>>} \cup {<<s>> : s \in Strings} : v = Blob(b)
    BY <1>6
  <2>2. v.t = "Blob" /\ v.b = b /\ numeric_only(v) = Nothing
    BY <2>1 DEF Blob, numeric_only
  <2>3. CASE b = <<>>
    BY <2>2, <2>3 DEF Weight
  <2>4. CASE b # <<>>
    <3>1. PICK s \in Strings : b = <<s>>
      BY <2>4
    <3>2. Len(b) = 1 /\ b[1] = s
      BY <3>1
    <3>3. Weight(v) = TextRank(s)
      BY <2>2, <2>4, <3>2 DEF Weight
    <3> QED  BY <2>2, <2>4, <3>2, <3>3, RankIs
  <2> QED  BY <2>3, <2>4
<1>7. CASE \E z \in BOOLEAN : v = Boolean(z)
  <2>1. PICK z \in BOOLEAN : v = Boolean(z)
    BY <1>7
  <2>2. v.t = "Boolean" /\ v.z = z
    BY <2>1 DEF Boolean
  <2> DEFINE n == IF v.z THEN 2 ELSE 0
  <2>3. numeric_only(v) = [t |-> "Some", v |-> n]
    BY <2>2 DEF numeric_only
  <2>4. n \in Int /\ n # NaN
    BY ValuesAssumption
  <2> HIDE DEF n
  <2>5. numeric_only(v) # Nothing /\ numeric_only(v).v = n
    BY <2>3 DEF Nothing
  <2> QED  BY <2>2, <2>4, <2>5 DEF Weight
<1> QED  BY <1>1, <1>2, <1>3, <1>4, <1>5, <1>6, <1>7 DEF AllValues

\* Classes and, within a class, weights decide.
LEMMA OrderIs ==
    ASSUME NEW a \in AllValues, NEW b \in AllValues, ~IsNaN(a), ~IsNaN(b),
           ~({"Json", "Text"} \subseteq {a.t, b.t})
    PROVE  /\ order_key(a, b) = IF class_rank(a) = class_rank(b)
                                THEN Ordering(Weight(a), Weight(b))
                                ELSE Ordering(class_rank(a), class_rank(b))
           /\ order_key(a, b) = "Equal" => SameValue(a, b)
           /\ class_rank(a) \in 0..3 /\ class_rank(b) \in 0..3
<1> DEFINE x == numeric_only(a)
           y == numeric_only(b)
           Numbers == {"Integer", "Real", "Boolean"}
<1>1. \A v \in {a, b} :
         /\ v.t \in {"Null", "Integer", "Real", "Boolean", "Text", "Json", "Blob"}
         /\ Weight(v) \in Int
         /\ v.t \in Numbers => numeric_only(v) # Nothing /\ numeric_only(v).v # NaN
                               /\ Weight(v) = numeric_only(v).v
         /\ v.t \notin Numbers => numeric_only(v) = Nothing
         /\ v.t = "Blob" => /\ v.b = <<>> => Len(v.b) = 0 /\ Weight(v) = 0
                            /\ v.b # <<>> => Len(v.b) = 1 /\ Weight(v) >= 1
                                             /\ Weight(v) = TextRank(v.b[1])
         /\ v.t = "Null" => v = Null
         /\ v.t = "Text" => Weight(v) = TextRank(v.s)
         /\ v.t = "Null" \/ v.t = "Json" => Weight(v) = 0
  BY ValueIs DEF Weight
<1>2. \A v \in {a, b} :
         class_rank(v) = IF v.t = "Null" THEN 0 ELSE IF v.t \in Numbers THEN 1
                         ELSE IF v.t \in {"Text", "Json"} THEN 2 ELSE 3
  BY <1>1 DEF class_rank
<1>3. CASE a.t = "Null" \/ b.t = "Null"
  BY <1>1, <1>2, <1>3 DEF order_key, is_null, Ordering, SameValue, compare
<1>4. CASE a.t # "Null" /\ b.t # "Null"
  <2>1. compare(a, b) = CompareClasses(a, b, x, y)
    BY <1>4 DEF compare, is_null
  <2>2. order_key(a, b) = IF compare(a, b) = "None" THEN "Equal" ELSE compare(a, b)
    BY <1>4 DEF order_key, is_null
  <2>3. SUFFICES CompareClasses(a, b, x, y) = IF class_rank(a) = class_rank(b)
                                THEN Ordering(Weight(a), Weight(b))
                                ELSE Ordering(class_rank(a), class_rank(b))
    BY <1>1, <1>2, <2>1, <2>2 DEF Ordering, SameValue
  <2>4. CASE a.t \in Numbers /\ b.t \in Numbers
    <3>1. x # Nothing /\ y # Nothing /\ NaN \notin {x.v, y.v}
          /\ Weight(a) = x.v /\ Weight(b) = y.v
      BY <1>1, <2>4
    <3>2. CompareClasses(a, b, x, y) = Ordering(x.v, y.v)
      BY <3>1 DEF CompareClasses
    <3> QED  BY <1>2, <2>4, <3>1, <3>2
  <2>5. CASE ~(a.t \in Numbers /\ b.t \in Numbers)
    <3>1. CompareClasses(a, b, x, y) =
            IF a.t = b.t /\ a.t \in {"Text", "Blob"} THEN CompareBytes(BytesOf(a), BytesOf(b))
            ELSE Ordering(class_rank(a), class_rank(b))
      BY <1>1, <2>5 DEF CompareClasses
    <3>2. CASE a.t = "Text" /\ b.t = "Text"
      <4>1. BytesOf(a) = <<a.s>> /\ BytesOf(b) = <<b.s>>
        BY <3>2 DEF BytesOf
      <4>2. <<a.s>> # <<>> /\ <<b.s>> # <<>> /\ <<a.s>>[1] = a.s /\ <<b.s>>[1] = b.s
        OBVIOUS
      <4>3. CompareBytes(BytesOf(a), BytesOf(b)) = Ordering(TextRank(a.s), TextRank(b.s))
        BY <4>1, <4>2, Zenon DEF CompareBytes
      <4> QED  BY <1>1, <1>2, <3>1, <3>2, <4>3
    <3>3. CASE a.t = "Blob" /\ b.t = "Blob"
      <4>1. BytesOf(a) = a.b /\ BytesOf(b) = b.b
        BY <3>3 DEF BytesOf
      <4>2. CompareBytes(a.b, b.b) =
              IF <<>> \in {a.b, b.b} THEN Ordering(Len(a.b), Len(b.b))
              ELSE Ordering(TextRank(a.b[1]), TextRank(b.b[1]))
        BY Zenon DEF CompareBytes
      <4>3. CompareBytes(a.b, b.b) = Ordering(Weight(a), Weight(b))
        <5>1. CASE <<>> \in {a.b, b.b}
          BY <1>1, <3>3, <4>2, <5>1 DEF Ordering
        <5>2. CASE <<>> \notin {a.b, b.b}
          BY <1>1, <3>3, <4>2, <5>2
        <5> QED  BY <5>1, <5>2
      <4> QED  BY <1>2, <3>1, <3>3, <4>1, <4>3
    <3>4. CASE ~(a.t = b.t /\ a.t \in {"Text", "Blob"})
      <4>1. class_rank(a) = class_rank(b) => a.t = "Json" /\ b.t = "Json"
        BY <1>1, <1>2, <1>4, <2>5, <3>4
      <4>2. CompareClasses(a, b, x, y) = Ordering(class_rank(a), class_rank(b))
        BY <3>1, <3>4
      <4>3. CASE class_rank(a) = class_rank(b)
        <5>1. class_rank(a) \in Int /\ Weight(a) = 0 /\ Weight(b) = 0
          BY <1>1, <1>2, <4>1, <4>3
        <5>2. Ordering(class_rank(a), class_rank(b)) = "Equal"
              /\ Ordering(Weight(a), Weight(b)) = "Equal"
          BY <4>3, <5>1 DEF Ordering
        <5> QED  BY <4>2, <4>3, <5>2, Zenon
      <4> QED  BY <4>2, <4>3, Zenon
    <3> QED  BY <3>2, <3>3, <3>4
  <2> QED  BY <2>4, <2>5
<1>5. class_rank(a) \in 0..3 /\ class_rank(b) \in 0..3
  BY <1>2
<1> QED  BY <1>3, <1>4, <1>5

\* order_key is total, antisymmetric up to equality, and transitive, on any three
\* values of which none is NaN and which do not mix JSON with text (types.rs).
THEOREM ValuesAreOrdered ==
    ASSUME question \in OrderQuestions
    PROVE  OrderIsTotal
<1> DEFINE a == question.a
           b == question.b
           c == question.c
<1>1. a \in AllValues /\ b \in AllValues /\ c \in AllValues
  BY DEF OrderQuestions
<1> HIDE DEF a, b, c
<1>2. SUFFICES ASSUME \A v \in {a, b, c} : ~IsNaN(v),
                      ~({"Json", "Text"} \subseteq {a.t, b.t, c.t})
               PROVE  /\ order_key(a, b) # "Greater" \/ order_key(b, a) # "Greater"
                      /\ order_key(a, b) # "Greater" /\ order_key(b, a) # "Greater"
                            => order_key(a, b) = "Equal" /\ SameValue(a, b)
                      /\ order_key(a, b) # "Greater" /\ order_key(b, c) # "Greater"
                            => order_key(a, c) # "Greater"
  BY DEF OrderIsTotal, a, b, c
<1>3. \A v, w \in {a, b, c} :
         /\ order_key(v, w) = IF class_rank(v) = class_rank(w)
                              THEN Ordering(Weight(v), Weight(w))
                              ELSE Ordering(class_rank(v), class_rank(w))
         /\ order_key(v, w) = "Equal" => SameValue(v, w)
  BY <1>1, <1>2, OrderIs
<1>4. \A v \in {a, b, c} : Weight(v) \in Int /\ class_rank(v) \in Int
  <2>1. \A v \in {a, b, c} : Weight(v) \in Int
    BY <1>1, <1>2, ValueIs
  <2>2. \A v \in {a, b, c} : class_rank(v) \in 0..3
    BY <1>1, <1>2, OrderIs
  <2> QED  BY <2>1, <2>2
<1> QED  BY <1>3, <1>4 DEF Ordering
===============================================================================
