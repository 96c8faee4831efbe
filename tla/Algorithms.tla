------------------------------ MODULE Algorithms ------------------------------
(***************************************************************************)
(* What the pure algorithms of the engine are to compute: the order of     *)
(* values, constant folding, storing and reading a row, LIKE and GLOB and  *)
(* the calendar, each against a definition of its own.  A behaviour asks   *)
(* one question after another, or uses a page cache, which no question     *)
(* depends on: so they are asked before it is used.                        *)
(***************************************************************************)
EXTENDS ValueOrder, Expressions, DateTime, RowCodec, PageCache

CONSTANTS
    SampleValues,    \* values that are compared, stored and computed with
    Columns,         \* keyword sets of declared column types
    MaxColumns,      \* how many integers follow the first value of a row
    SampleTrees,     \* expressions
    Texts,           \* texts to match, as sequences of characters
    LikePatterns,
    GlobPatterns,    \* pairs of a pattern and its tokens: see GlobMeans
    Moments,         \* time strings
    Modifiers,       \* modifiers of datetime()
    MaxModifiers     \* how many of them follow one another

Idle == [about |-> "nothing"]

Init == question = Idle /\ CacheInit

AskOrder == /\ question = Idle
            /\ \E a, b, c \in SampleValues :
                  question' = [about |-> "order", a |-> a, b |-> b, c |-> c]
AskTree == /\ question = Idle
           /\ \E x \in SampleTrees : question' = [about |-> "tree", x |-> x]
AskRow == /\ question = Idle
          /\ \E v \in SampleValues, k \in Columns, n \in 0..MaxColumns :
                question' = [about |-> "row", v |-> v, type |-> k, more |-> n]
AskPattern == /\ question = Idle
              /\ \E t \in Texts :
                    \/ \E p \in LikePatterns :
                          question' = [about |-> "like", p |-> p, t |-> t]
                    \/ \E p \in GlobPatterns :
                          question' = [about |-> "glob", p |-> p, t |-> t]
                    \/ \E y \in -4..5, len \in (-4..4) \cup {10}, side \in SUBSET {"left", "right"} :
                          question' = [about |-> "cut", t |-> t, y |-> y, len |-> len, side |-> side]
AskDate == /\ question = Idle
           /\ \E first \in Moments, n \in 0..MaxModifiers :
                 \E ms \in [1..n -> Modifiers] :
                    question' = [about |-> "date", first |-> first, ms |-> ms]
Answered == question # Idle /\ question' = Idle

Next ==
    \/ /\ now = 0
       /\ AskOrder \/ AskTree \/ AskRow \/ AskPattern \/ AskDate \/ Answered
       /\ UNCHANGED cacheVars
    \/ question = Idle /\ CacheNext /\ UNCHANGED question

Spec == Init /\ [][Next]_<<question, cacheVars>>

-----------------------------------------------------------------------------
(* Folding. *)

\* NOT of a literal that is, or folds to, NULL.
RECURSIVE NegatesNull(_)
NegatesNull(x) ==
    \/ /\ x.e = "Unary"
       /\ \/ x.op = "Not" /\ fold(x.a).e = "Literal" /\ is_null(fold(x.a).v)
          \/ NegatesNull(x.a)
    \/ x.e = "Binary" /\ (NegatesNull(x.a) \/ NegatesNull(x.b))

\* A query answers the same whether the optimizer folded its constants or the
\* evaluator met them in every row, also where the evaluation fails, panics,
\* loses precision or saturates.  NOT NULL is the exception: folded it is
\* true, evaluated it is NULL.
FoldPreservesMeaning ==
    question.about = "tree" =>
        LET x == question.x
            row == <<Integer(2), Null>>
        IN  ~NegatesNull(x) =>
                eval(fold(x), row, 1, <<Text("a")>>) = eval(x, row, 1, <<Text("a")>>)

-----------------------------------------------------------------------------
(* Storing. *)

\* A record knows no booleans and no documents.
Stored(v) == CASE v.t = "Boolean" -> Integer(IF v.z THEN 1 ELSE 0)
               [] v.t = "Json" -> Text(v.s)
               [] OTHER -> v

\* What a row holds after an INSERT is what its record reads back as, however
\* wide its header is, and an UPDATE that rewrites the row coerces and stores
\* the values it read without changing one.  A document bound to a numeric
\* column is kept as it is, read back as its text, and then becomes a number.
StoredValuesReadBack ==
    question.about = "row" =>
        LET type == affinity_from_decl(question.type)
            coerced == coerce_to(question.v, type)
            row == <<coerced>> \o [k \in 1..question.more |-> Integer(4^k - 9)]
            back == decode(encode(row))
        IN  coerced # Nothing =>
               /\ back = [k \in 1..Len(row) |-> Stored(row[k])]
               /\ ~(coerced.t = "Json" /\ type \in {"Integer", "Real"}) =>
                     Stored(coerce_to(back[1], type)) = back[1]

-----------------------------------------------------------------------------
(* Patterns. *)

\* The positions of a pattern that are reached after each character.
Closure(p, many, S) == S \cup {k \in 1..(Len(p) + 1) :
    \E s \in S : s < k /\ \A j \in s..(k - 1) : p[j] \in many}
Accepts(p, t, many, Takes(_, _)) ==
    LET Step(S, c) == Closure(p, many,
            {k \in S : k <= Len(p) /\ p[k] \in many}
            \cup {k + 1 : k \in {j \in S : j <= Len(p) /\ p[j] \notin many /\ Takes(p[j], c)}})
    IN  Len(p) + 1 \in FoldLeft(Step, Closure(p, many, {1}), t)

\* GLOB patterns come with their tokens: a set is what a class stands for,
\* and {"never"} stands for a class that is not closed.
GlobMeans(tokens, t) ==
    Accepts(tokens, t, {{"*"}}, LAMBDA k, c : k = {"?"} \/ c \in k)

\* The characters at the positions in S, in their order.
At(t, S) == LET Take(acc, k) == IF k \in S THEN Append(acc, t[k]) ELSE acc
            IN  FoldLeft(Take, <<>>, [k \in 1..Len(t) |-> k])

\* The backtracking matchers accept exactly the texts a left-to-right reading
\* of the pattern accepts; stars that follow one another, an empty text and
\* classes with a bracket, a dash or no end are the cases.  substr() and trim()
\* cut at the positions they are given, also where those lie outside the text.
PatternsMatch ==
    /\ question.about = "like" =>
          (like_rec(question.p, question.t)
             <=> Accepts(question.p, question.t, {"%"}, LAMBDA k, c : k \in {"_", c}))
    /\ question.about = "glob" =>
          (glob_rec(question.p[1], question.t) <=> GlobMeans(question.p[2], question.t))
    /\ question.about = "cut" =>
          LET t == question.t
              N == Len(t)
              len == question.len
              first == IF question.y >= 0 THEN question.y ELSE N + 1 + question.y
              start == IF first < 1 THEN 1 ELSE IF first > N THEN N + 1 ELSE first
              Cut(k) == \/ "left" \in question.side /\ \A j \in 1..k : t[j] = "a"
                        \/ "right" \in question.side /\ \A j \in k..N : t[j] = "a"
          IN  /\ substr(t, question.y, <<len>>)
                    = At(t, IF len >= 0 THEN start..(start + len - 1) ELSE (start + len)..(start - 1))
              /\ substr(t, question.y, <<>>) = At(t, start..N)
              /\ trim_fn(t, {"a"}, "left" \in question.side, "right" \in question.side)
                    = At(t, {k \in 1..N : ~Cut(k)})

-----------------------------------------------------------------------------
(* The calendar: a moment is an hour of the proleptic Gregorian calendar. *)

IsLeap(y) == y % 4 = 0 /\ (y % 100 = 0 => y % 400 = 0)
DaysIn(y, m) == CASE m = 2 -> IF IsLeap(y) THEN 29 ELSE 28
                  [] m \in {4, 6, 9, 11} -> 30
                  [] OTHER -> 31
LeapsBefore(y) == (y + 3) \div 4 - (y + 99) \div 100 + (y + 399) \div 400
DayOf(y, m, d) == 1721060 + 365 * y + LeapsBefore(y) + d - 1
                  + FoldLeft(LAMBDA acc, k : acc + DaysIn(y, k), 0, [k \in 1..(m - 1) |-> k])
HourOf(y, m, d, h) == DayOf(y, m, d) * HoursPerDay - 12 + h
DayAt(hour) == (hour + 12) \div HoursPerDay
YearOf(day) ==
    LET guess == (400 * (day - 1721060)) \div 146097
    IN  CHOOSE y \in (guess - 1)..(guess + 1) : DayOf(y, 1, 1) <= day /\ day < DayOf(y + 1, 1, 1)
DateIn(y, day) ==
    LET m == CHOOSE k \in 1..12 : LET start == DayOf(y, k, 1)
                                 IN  start <= day /\ day < start + DaysIn(y, k)
    IN  [y |-> y, m |-> m, d |-> day - DayOf(y, m, 1) + 1]
DateAt(hour) == DateIn(YearOf(DayAt(hour)), DayAt(hour))

\* The hour a time string stands for, given the first modifier; a day past the
\* end of a month runs into the next one, and -1 is NULL.
Started(first, ms) ==
    CASE first.k = "date" ->
            IF first.m \notin 1..12 \/ first.d \notin 1..31 THEN -1
            ELSE HourOf(first.y, first.m, 1, IF first.time = <<>> THEN 0 ELSE first.time[1])
                    + (first.d - 1) * HoursPerDay
      [] first.k = "time" -> HourOf(2000, 1, 1, first.h)
      [] first.k = "now" -> UNIX_EPOCH + first.now
      [] first.k = "number" ->
            IF ms # <<>> /\ ms[1].k = "unixepoch" THEN UNIX_EPOCH + first.r
            ELSE IF first.r \in 0..MaxRawDay THEN first.r * HoursPerDay ELSE -1
      [] first.k = "other" -> -1

\* What a modifier does to an hour.
Moved(hour, z, isNumber) ==
    LET t == DateAt(hour)
        h == (hour + 12) % HoursPerDay
        InYear(y, m, d, k) == IF y \in -4713..9999 THEN HourOf(y, m, 1, k) + (d - 1) * HoursPerDay
                              ELSE -1
        months == 12 * t.y + t.m - 1 + z.r
        weekday == (DayAt(hour) + 1) % 7
    IN  CASE z.k = "utc" -> hour
          [] z.k \in {"unixepoch", "julianday"} -> IF isNumber THEN hour ELSE -1
          [] z.k = "weekday" -> hour + ((z.n - weekday) % 7) * HoursPerDay
          [] z.k = "start of" -> InYear(t.y, IF z.unit = "year" THEN 1 ELSE t.m,
                                        IF z.unit = "day" THEN t.d ELSE 1, 0)
          [] z.k = "offset" -> hour + z.hours
          [] z.k = "numeric" ->
                CASE z.unit = "hour" -> hour + z.r
                  [] z.unit = "day" -> hour + z.r * HoursPerDay
                  [] z.unit = "month" -> InYear(months \div 12, (months % 12) + 1, t.d, h)
                  [] z.unit = "year" -> InYear(t.y + z.r, t.m, t.d, h)

\* What the functions answer for the moment first moved by ms: hour has the
\* date at, and its week belongs to the year of thursday.
Answers(first, ms, hour, at, thursday) ==
    LET newYear == DayOf(at.y, 1, 1)
        sunday == (DayAt(hour) + 1) % 7
    IN  /\ julianday(first, ms) = <<hour>>
        /\ unixepoch(first, ms) = <<hour - UNIX_EPOCH>>
        /\ date(first, ms) = <<at.y, at.m, at.d>>
        /\ time(first, ms) = <<(hour + 12) % HoursPerDay>>
        /\ datetime(first, ms) = <<at.y, at.m, at.d, (hour + 12) % HoursPerDay>>
        /\ strftime("w", first, ms) = <<sunday>>
        /\ strftime("j", first, ms) = <<DayAt(hour) - newYear + 1>>
        /\ strftime("G", first, ms) = <<thursday.y>>
        /\ strftime("V", first, ms)
               = <<(DayOf(thursday.y, thursday.m, thursday.d)
                      - DayOf(thursday.y, 1, 1)) \div 7 + 1>>
        /\ strftime("W", first, ms)
               = <<Cardinality({d \in newYear..DayAt(hour) : d % 7 = 0})>>

\* Where a time string and its modifiers lead, and whether they pass a moment
\* before the epoch on the way.
Journey(first, ms) ==
    LET Step(st, z) == [hour |-> IF st.hour = -1 THEN -1
                                 ELSE Moved(st.hour, z, first.k = "number" /\ st.n = 1),
                        n |-> st.n + 1,
                        early |-> st.early \/ st.hour < -1]
    IN  FoldLeft(Step, [hour |-> Started(first, ms), n |-> 1, early |-> FALSE], ms)

Exact(first, ms, end) ==
    LET thursday(day) == DateAt((day + 3 - (day % 7)) * HoursPerDay)
        IsDay == first.k # "date" \/ first.d <= DaysIn(first.y, first.m)
    IN  (ms = <<>> \/ (IsDay /\ ~end.early)) =>
            IF end.hour \notin 0..MAX_IJD THEN datetime(first, ms) = <<>>
            ELSE Answers(first, ms, end.hour, DateAt(end.hour), thursday(DayAt(end.hour)))

\* A time string and a run of modifiers give the hour, the date, the weekday,
\* the day and the week of the year the calendar says, whichever of the cached
\* forms was stale in between, and NULL exactly when the moment has no year
\* the engine knows.  The days February never has are checked without
\* modifiers, with which they stand for the first days of March; what lies
\* before the epoch is not a moment to move from, and the code only refuses it
\* at the end.
CalendarIsExact ==
    question.about = "date" =>
        Exact(question.first, question.ms, Journey(question.first, question.ms))
=============================================================================
