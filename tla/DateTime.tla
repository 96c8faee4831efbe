------------------------------- MODULE DateTime -------------------------------
(***************************************************************************)
(* date(), time() and their relatives (executor/datetime.rs), a port of    *)
(* SQLite's date.c: a moment is kept as a Julian day number, as a date, as *)
(* a time of day, or as several of them, each with a flag that says        *)
(* whether it is up to date, and every modifier refreshes what it needs    *)
(* and drops what it spoils.                                               *)
(*                                                                         *)
(* Time is counted in hours: ijd is the number of hours since the Julian   *)
(* epoch, where the code counts milliseconds, and a time of day is an      *)
(* hour; minutes, seconds and their fractions are left out.  A time string *)
(* and a modifier are records of what the parser finds in them.            *)
(***************************************************************************)
EXTENDS Integers, Sequences, SequencesExt

HoursPerDay == 24
UNIX_EPOCH == 2440587 * HoursPerDay + 12
MAX_IJD == 5373484 * HoursPerDay + 12     \* the first moment of the year 10000
MaxRawDay == 5373484                      \* raw numbers up to it are Julian days

\* Every date, and every hour of one, that a string can spell.
SpellableDate(y, m, d) == y \in -9999..9999 /\ m \in 1..12 /\ d \in 1..31

blank == [ijd |-> 0, y |-> 0, m |-> 0, d |-> 0, h |-> 0, raw |-> "none", r |-> 0,
          valid_jd |-> FALSE, valid_ymd |-> FALSE, valid_hms |-> FALSE, error |-> FALSE]

-----------------------------------------------------------------------------
(* Conversions between the forms. *)

\* Rust's `/` on i64 truncates towards zero, its rem_euclid does not.
Trunc(a, b) == IF a < 0 THEN -((-a) \div b) ELSE a \div b
TruncRem(a, b) == a - b * Trunc(a, b)

\* The Julian day number of a date, times two less one: it starts at noon.
JulianHalves(year, month, d) ==
    LET y == IF month <= 2 THEN year - 1 ELSE year
        m == IF month <= 2 THEN month + 12 ELSE month
        a == Trunc(y + 4800, 100)
        b == 38 - a + Trunc(a, 4)
        x1 == Trunc(36525 * (y + 4716), 100)
        x2 == Trunc(306001 * (m + 1), 10000)
    IN  2 * (x1 + x2 + d + b) - 3049

compute_jd(p) ==
    LET y == IF p.valid_ymd THEN p.y ELSE 2000
        m == IF p.valid_ymd THEN p.m ELSE 1
        d == IF p.valid_ymd THEN p.d ELSE 1
    IN  IF p.valid_jd THEN p
        ELSE IF y \notin -4713..9999 \/ p.raw = "some" THEN [p EXCEPT !.error = TRUE]
        ELSE [p EXCEPT !.ijd = JulianHalves(y, m, d) * 12 + (IF p.valid_hms THEN p.h ELSE 0),
                       !.valid_jd = TRUE]

\* Days are counted within a year c that begins in March, and d within them.
DateInYear(b, c) ==
    LET d == b - Trunc(36525 * (c % 32768), 100)
        e == Trunc(d * 10000, 306001)
        m == IF e < 14 THEN e - 1 ELSE e - 13
    IN  [d |-> d - Trunc(306001 * e, 10000),
         m |-> m,
         y |-> IF m > 2 THEN c - 4716 ELSE c - 4715]

\* The constants of the code times four and times a hundred.
DateOfDay(z) ==
    LET alpha == Trunc(4 * z + 128179, 146097) - 52
        b == z + 1 + alpha - Trunc(alpha + 100, 4) + 25 + 1524
    IN  DateInYear(b, Trunc(100 * b - 12210, 36525))

WithDate(p, date) == [p EXCEPT !.y = date.y, !.m = date.m, !.d = date.d, !.valid_ymd = TRUE]

compute_ymd(p) ==
    IF p.valid_ymd THEN p
    ELSE WithDate(p, IF p.valid_jd THEN DateOfDay(Trunc(p.ijd + 12, HoursPerDay))
                     ELSE [y |-> 2000, m |-> 1, d |-> 1])

compute_hms(p) ==
    LET q == compute_jd(p)
    IN  IF p.valid_hms THEN p
        ELSE [q EXCEPT !.h = (q.ijd + 12) % HoursPerDay, !.raw = "none", !.valid_hms = TRUE]

compute_ymd_hms(p) == compute_hms(compute_ymd(p))

clear_derived(p) == [p EXCEPT !.valid_ymd = FALSE, !.valid_hms = FALSE]

days_after_sunday(p) == TruncRem(Trunc(p.ijd + 36, HoursPerDay), 7)
days_after_monday(p) == TruncRem(Trunc(p.ijd + 12, HoursPerDay), 7)

days_after_jan01(p) ==
    LET jan01 == compute_jd([p EXCEPT !.valid_jd = FALSE, !.m = 1, !.d = 1])
    IN  Trunc(p.ijd - jan01.ijd + 12, HoursPerDay)

iso_thursday(p) ==
    compute_ymd([p EXCEPT !.ijd = @ + (3 - days_after_monday(p)) * HoursPerDay,
                          !.valid_ymd = FALSE])

-----------------------------------------------------------------------------
(* Time strings: [k |-> "date", y, m, d, time] with <<hour>> or <<>> as time,*)
(* [k |-> "time", h], [k |-> "number", r], [k |-> "now", now] and           *)
(* [k |-> "other"].  Hours are not checked against 23.                      *)

set_raw_number(p, r) ==
    LET q == [p EXCEPT !.raw = "some", !.r = r]
    IN  IF r \in 0..MaxRawDay THEN [q EXCEPT !.ijd = r * HoursPerDay, !.valid_jd = TRUE] ELSE q

set_to_current(p, now) == [p EXCEPT !.ijd = UNIX_EPOCH + now, !.valid_jd = TRUE]

\* <<>> is a parse error.
parse_date_or_time(s) ==
    CASE s.k = "date" ->
            IF ~SpellableDate(s.y, s.m, s.d) THEN <<>>
            ELSE << [blank EXCEPT !.y = s.y, !.m = s.m, !.d = s.d, !.valid_ymd = TRUE,
                                  !.h = IF s.time = <<>> THEN 0 ELSE s.time[1],
                                  !.valid_hms = s.time # <<>>] >>
      [] s.k = "time" -> << [blank EXCEPT !.h = s.h, !.valid_hms = TRUE] >>
      [] s.k = "number" -> << set_raw_number(blank, s.r) >>
      [] s.k = "now" -> << set_to_current(blank, s.now) >>
      [] s.k = "other" -> <<>>

-----------------------------------------------------------------------------
(* Modifiers; idx counts them from one, <<>> is one that is refused. *)

julianday_modifier(p, idx) ==
    IF idx > 1 \/ ~p.valid_jd \/ p.raw = "none" THEN <<>>
    ELSE << [p EXCEPT !.raw = "none"] >>

\* Raw numbers of the instance are unix times in hours.
unixepoch_modifier(p, idx) ==
    LET v == p.r + UNIX_EPOCH
    IN  IF idx > 1 \/ p.raw = "none" \/ v < 0 \/ v >= MAX_IJD THEN <<>>
        ELSE << [clear_derived(p) EXCEPT !.ijd = v, !.valid_jd = TRUE, !.raw = "none"] >>

\* The next day n after q, which is on weekday z, or q itself.
OnWeekday(q, z, n) ==
    clear_derived([q EXCEPT !.ijd = @ + (n - (IF z > n THEN z - 7 ELSE z)) * HoursPerDay])

weekday_modifier(p, n) ==
    LET Onward(q) == OnWeekday(q, TruncRem(Trunc(q.ijd + 36, HoursPerDay), 7), n)
    IN  IF n \notin 0..6 THEN <<>>
        ELSE << Onward(compute_jd([compute_ymd_hms(p) EXCEPT !.valid_jd = FALSE])) >>

StartOfKeepsDay(p, unit) ==
    << [compute_ymd(p) EXCEPT !.valid_hms = TRUE, !.h = 0, !.raw = "none",
                              !.m = IF unit = "year" THEN 1 ELSE @,
                              !.d = IF unit = "day" THEN @ ELSE 1] >>
start_of_modifier(p, unit) ==
    IF unit \notin {"month", "year", "day"} \/ (~p.valid_jd /\ ~p.valid_ymd /\ ~p.valid_hms)
    THEN <<>>
    ELSE << [compute_ymd(p) EXCEPT !.valid_hms = TRUE, !.h = 0, !.raw = "none",
                                   !.valid_jd = FALSE,
                                   !.m = IF unit = "year" THEN 1 ELSE @,
                                   !.d = IF unit = "day" THEN @ ELSE 1] >>

\* "(+|-)HH:MM"
offset_modifier(p, hours) ==
    << [clear_derived(compute_jd(p)) EXCEPT !.ijd = @ + hours] >>

\* How far a unit reaches, and its hours where r is a whole number.
Limit(unit) == CASE unit = "hour" -> 128970000 [] unit = "day" -> 5373485
                 [] unit = "month" -> 176546 [] unit = "year" -> 14713 [] OTHER -> 0

\* p with its months counted on, where months is counted from January of its year.
AddMonths(p, months) ==
    LET x == IF months > 0 THEN Trunc(months - 1, 12) ELSE Trunc(months - 12, 12)
    IN  [p EXCEPT !.y = @ + x, !.m = months - 12 * x, !.valid_jd = FALSE]

numeric_modifier(p, r, unit) ==
    LET Moved(full) == CASE unit = "month" -> AddMonths(full, full.m + r)
                         [] unit = "year" -> [full EXCEPT !.y = @ + r, !.valid_jd = FALSE]
        hours == CASE unit = "hour" -> r [] unit = "day" -> r * HoursPerDay [] OTHER -> 0
        moved == IF unit \in {"month", "year"} THEN Moved(compute_ymd_hms(p)) ELSE p
    IN  IF ~(r > -Limit(unit) /\ r < Limit(unit)) THEN <<>>
        ELSE << clear_derived([compute_jd(moved) EXCEPT !.ijd = @ + hours]) >>

parse_modifier(p, z, idx) ==
    CASE z.k = "julianday" -> julianday_modifier(p, idx)
      [] z.k = "unixepoch" -> unixepoch_modifier(p, idx)
      [] z.k = "utc" -> << p >>
      [] z.k = "weekday" -> weekday_modifier(p, z.n)
      [] z.k = "start of" -> start_of_modifier(p, z.unit)
      [] z.k = "offset" -> offset_modifier(p, z.hours)
      [] z.k = "numeric" -> numeric_modifier(p, z.r, z.unit)
      [] OTHER -> <<>>

-----------------------------------------------------------------------------
(* The functions: <<>> is SQL's NULL. *)

\* A NULL stays NULL.
Then(result, Of(_)) == IF result = <<>> THEN <<>> ELSE Of(result[1])

\* A day past the 28th is written anew where no modifier has done so.
Finished(p, modifiers) ==
    IF p.error \/ p.ijd \notin 0..MAX_IJD THEN <<>>
    ELSE << IF modifiers = <<>> /\ p.valid_ymd /\ p.d > 28
            THEN [p EXCEPT !.valid_ymd = FALSE] ELSE p >>

build(first, modifiers) ==
    LET Step(result, idx) ==
            Then(result, LAMBDA p : parse_modifier(p, modifiers[idx], idx))
        moment == FoldLeft(Step, parse_date_or_time(first), [k \in 1..Len(modifiers) |-> k])
    IN  Then(moment, LAMBDA p : Finished(compute_jd(p), modifiers))

DateOf(p) == <<p.y, p.m, p.d>>

date(first, modifiers) ==
    Then(build(first, modifiers), LAMBDA p : DateOf(compute_ymd(p)))
time(first, modifiers) ==
    Then(build(first, modifiers), LAMBDA p : <<compute_hms(p).h>>)
datetime(first, modifiers) ==
    Then(build(first, modifiers),
         LAMBDA p : LET At(q) == DateOf(q) \o <<q.h>> IN At(compute_ymd_hms(p)))
julianday(first, modifiers) ==
    Then(build(first, modifiers), LAMBDA p : <<compute_jd(p).ijd>>)
unixepoch(first, modifiers) ==
    Then(build(first, modifiers), LAMBDA p : <<compute_jd(p).ijd - UNIX_EPOCH>>)

\* The conversions of strftime() that are computed; each yields one number.
Conversion(c, p) ==
    LET h12 == IF p.h > 12 THEN p.h - 12 ELSE p.h
        w == days_after_sunday(p)
    IN  CASE c = "d" -> <<p.d>> [] c = "m" -> <<p.m>> [] c = "Y" -> <<p.y>>
          [] c = "H" -> <<p.h>>
          [] c = "I" -> <<IF h12 = 0 THEN 12 ELSE h12>>
          [] c = "p" -> <<IF p.h >= 12 THEN 1 ELSE 0>>
          [] c = "j" -> <<days_after_jan01(p) + 1>>
          [] c = "J" -> <<p.ijd>>
          [] c = "s" -> <<p.ijd - UNIX_EPOCH>>
          [] c = "w" -> <<w>>
          [] c = "u" -> <<IF w = 0 THEN 7 ELSE w>>
          [] c = "U" -> <<Trunc(days_after_jan01(p) - w + 7, 7)>>
          [] c = "W" -> <<Trunc(days_after_jan01(p) - days_after_monday(p) + 7, 7)>>
          [] c = "G" -> <<iso_thursday(p).y>>
          [] c = "V" -> <<Trunc(days_after_jan01(iso_thursday(p)), 7) + 1>>
          [] OTHER -> <<>>
strftime(c, first, modifiers) ==
    Then(build(first, modifiers), LAMBDA p : Conversion(c, compute_ymd_hms(p)))
=============================================================================
