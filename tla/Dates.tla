------------------------------- MODULE Dates -------------------------------
(***************************************************************************)
(* Dates and times (lib/types/sql_*.ts, the date functions of              *)
(* lib/expression and the conversions of sql_conversion.ts).  A value is   *)
(* an instant: a DATETIME is UTC, a DATE the midnight of the session's     *)
(* zone, as an instant, a TIME a number of hours.  A call of a function    *)
(* reads texts in the session's zone, and what comes out is written in it. *)
(*                                                                         *)
(* The unit is the hour; minutes, seconds, fractions and their decimals    *)
(* are left out, and zones are whole hours, without daylight saving.  The  *)
(* process itself runs in UTC, as the tests do (test_session.ts:1).        *)
(***************************************************************************)
EXTENDS Integers, Sequences, FiniteSets, TLC, SequencesExt, FiniteSetsExt

CONSTANT Programs   \* records zone (hours), now (the statement's instant), start (a
                    \* literal, a number of hours or of days), calls (of functions)

VARIABLE dates      \* pc, program, done (calls made), value, type, err, shown

-----------------------------------------------------------------------------
(* The Date of JavaScript: months from 0, days and months that overflow.   *)

Rem(a, b) == IF a >= 0 THEN a % b ELSE -((-a) % b)
Ceil(a, b) == -((-a) \div b)
BeforeYear(y) == 365 * y + Ceil(y, 4) - Ceil(y, 100) + Ceil(y, 400) - 719528
Leap(y) == y % 4 = 0 /\ (y % 100 # 0 \/ y % 400 = 0)
BeforeMonth(y, m) ==
    <<0, 31, 59, 90, 120, 151, 181, 212, 243, 273, 304, 334, 365>>[m + 1]
        + IF m > 1 /\ Leap(y) THEN 1 ELSE 0

\* MakeDay: a day since 1970-01-01.
DayNumber(y, m, d) ==
    BeforeYear(y + (m \div 12)) + BeforeMonth(y + (m \div 12), m % 12) + d - 1
Civil(t) ==
    LET day == t \div 24
        near == ((day + 719528) * 400) \div 146097
        y == CHOOSE k \in (near - 1)..(near + 1) : BeforeYear(k) <= day /\ day < BeforeYear(k + 1)
        inYear == day - BeforeYear(y)
        m == CHOOSE k \in 0..11 : BeforeMonth(y, k) <= inYear /\ inYear < BeforeMonth(y, k + 1)
    IN  [y |-> y, m |-> m, d |-> inYear - BeforeMonth(y, m) + 1, h |-> t % 24, wd |-> (day + 4) % 7]

Rebuilt(c) == 24 * DayNumber(c.y, c.m, c.d) + c.h
setFullYear(t, y) == Rebuilt([Civil(t) EXCEPT !.y = y])
setMonth(t, m) == Rebuilt([Civil(t) EXCEPT !.m = m])
setDate(t, d) == Rebuilt([Civil(t) EXCEPT !.d = d])
NewDate(y, m, d) == 24 * DayNumber(IF y \in 0..99 THEN 1900 + y ELSE y, m, d)

-----------------------------------------------------------------------------
(* Values: <<"null">>, <<"datetime", t>>, <<"date", t>>, <<"time", hours>>,*)
(* <<"int", n>> and the literals <<"text", l>>, l a record y, m, d, h (-1  *)
(* for none) and short (a year of two digits), a text with separators.     *)

Null == <<"null">>
InRange(t) == t < 70389528 /\ t >= -17268672
SQLDate(t, zone) == <<"date", t - Rem(t, 24) - zone>>
createSQLDate(t, zone) == IF InRange(t) THEN SQLDate(t, zone) ELSE Null
createSQLDateTime(t) == IF InRange(t) THEN <<"datetime", t>> ELSE Null

fix2year(l) == IF ~l.short THEN l.y ELSE IF l.y <= 69 THEN 2000 + l.y ELSE 1900 + l.y
\* Date.parse takes any day up to 31 and counts on into the next month.
Parses(l) == l.m \in 1..12 /\ l.d \in 1..31 /\ l.h \in -1..24
PartsToTime(l) == 24 * DayNumber(fix2year(l), l.m - 1, l.d) + (IF l.h = -1 THEN 0 ELSE l.h)

convertDateTime(v, zone, clock) ==
    CASE v[1] = "datetime" -> v
      [] v[1] = "date" -> <<"datetime", v[2]>>
      [] v[1] = "time" -> <<"datetime", clock - Rem(clock, 24) + v[2]>>
      [] v[1] = "text" /\ Parses(v[2]) -> <<"datetime", PartsToTime(v[2]) - zone>>
      [] OTHER -> Null

\* A DATE is not among the values it takes.
convertDateTimeOrDate(v, zone, clock) ==
    CASE v[1] = "date" -> Null
      [] v[1] = "text" /\ Parses(v[2]) /\ v[2].h = -1 -> SQLDate(PartsToTime(v[2]), zone)
      [] OTHER -> convertDateTime(v, zone, clock)

convertDate(v, zone, clock) ==
    CASE v[1] = "date" -> v
      [] v[1] = "datetime" -> SQLDate(v[2], zone)
      [] v[1] = "time" -> SQLDate(clock, zone)
      [] v[1] = "text" /\ Parses(v[2]) -> SQLDate(PartsToTime(v[2]), zone)
      [] OTHER -> Null

\* The digits of a number are hours, minutes and seconds; whole hours are kept of it.
NumToTime(n) == <<"time", (n \div 10000) + ((((n % 10000) \div 100) * 60 + (n % 100)) \div 3600)>>
\* A text without an hour, or that is no date, is the number it begins with: its year.
convertTime(v) ==
    CASE v[1] = "time" -> v
      [] v[1] = "datetime" -> <<"time", Rem(v[2], 24)>>
      [] v[1] = "text" /\ v[2].h # -1 /\ Parses(v[2]) -> <<"time", Rem(PartsToTime(v[2]), 24)>>
      [] v[1] = "text" /\ (v[2].h = -1 \/ ~Parses(v[2])) -> NumToTime(v[2].y)
      [] v[1] = "int" -> NumToTime(v[2])
      [] OTHER -> Null

-----------------------------------------------------------------------------
(* Intervals.                                                              *)

SingleTime == "hour" :> 1 @@ "day" :> 24 @@ "week" :> 168
Month == "month" :> 1 @@ "quarter" :> 3 @@ "year" :> 12
DoubleTime == "day_hour" :> 1 @@ "year_month" :> 1
ForceDate == {"day", "week", "month", "quarter", "year", "day_hour", "year_month"}

\* Two parts are never read: the second factor is looked up behind the pair.
createSQLInterval(value, unit) ==
    IF value[1] # "int" THEN <<>>
    ELSE <<[number |-> value[2] * (SingleTime @@ Month @@ DoubleTime)[unit],
            isMonth |-> unit \in DOMAIN Month \cup {"year_month"},
            forceDate |-> unit \in ForceDate]>>

\* mutant: days beyond the end of a month run into the next one
MonthRunsOver(t, number) ==
    setMonth(setFullYear(t, (Civil(t).y * 12 + Civil(t).m + number) \div 12),
             (Civil(t).y * 12 + Civil(t).m + number) % 12)
\* The day is lowered until the month holds; the year is set before the month.
addMonth(t, number) ==
    LET old == Civil(t)
        months == old.y * 12 + old.m + number
        first == setMonth(setFullYear(t, months \div 12), months % 12)
        Tried(d) == setMonth(setDate(setMonth(first, 0), d), months % 12)
    IN  IF Civil(first).m = months % 12 THEN first
        ELSE Tried(Max({d \in 1..old.d : Civil(Tried(d)).m = months % 12}))

IntervalAdd(interval, v, mult, zone) ==
    LET number == interval.number * mult
        t == IF interval.isMonth THEN addMonth(v[2], number) ELSE v[2] + number
    IN  IF v[1] = "date" /\ interval.forceDate THEN createSQLDate(t, zone) ELSE createSQLDateTime(t)

-----------------------------------------------------------------------------
(* Functions of one instant.                                               *)

DayOfYear(t) == ((t - NewDate(Civil(t).y, 0, 1)) \div 24) + 1
FirstWeek(y, mode) == (7 - Civil(NewDate(y, 0, 1)).wd + (mode % 2)) % 7
WeeksUntil(n, first) == ((n - first - 1) \div 7) + 1

week(t, mode) ==
    LET first == FirstWeek(Civil(t).y, mode)
    IN  IF DayOfYear(t) <= first THEN 0 ELSE WeeksUntil(DayOfYear(t), first)

\* mutant: the days before the first week keep their year
YearweekSameYear(t, mode) == Civil(t).y * 100 + week(t, mode)
yearweek(t, mode) ==
    LET y == Civil(t).y
        before == DayOfYear(t) <= FirstWeek(y, mode)
    IN  IF before THEN (y - 1) * 100
                       + WeeksUntil(DayOfYear(NewDate(y - 1, 11, 31)), FirstWeek(y - 1, mode))
        ELSE y * 100 + WeeksUntil(DayOfYear(t), FirstWeek(y, mode))

\* The Thursday of the week, the hours included.
weekOfYear(t) ==
    LET c == Civil(t)
        thursday == setDate(t, c.d + 4 - (IF c.wd = 0 THEN 7 ELSE c.wd))
    IN  Ceil(thursday - 24 * DayNumber(Civil(thursday).y, 0, 1) + 24, 168)

\* The parts of DATE_FORMAT that are texts or numbers of a date.
dateFormat(t, part) ==
    LET c == Civil(t)
    IN  CASE part \in {"Y", "X", "x"} -> c.y [] part = "y" -> c.y % 100
          [] part \in {"m", "c", "M", "b"} -> c.m + 1 [] part \in {"d", "e", "D"} -> c.d
          [] part \in {"W", "a", "w"} -> c.wd

Field(name, c) ==
    CASE name = "year" -> c.y [] name = "month" -> c.m + 1 [] name = "day" -> c.d
      [] name = "quarter" -> (c.m \div 3) + 1
      [] name = "dayofweek" -> c.wd + 1 [] name = "weekday" -> (c.wd + 6) % 7
dayofyear(t) == (t - NewDate(Civil(t).y, 0, 0)) \div 24
\* DAYNAME and MONTHNAME are of the day in UTC.
dayname(t) == dateFormat(t, "W")
monthname(t) == dateFormat(t, "M")
to_seconds(t) == t + 17268672

OfInstant(name, t, zone, extra) ==
    CASE name = "dayofyear" -> dayofyear(t + zone)
      [] name = "week" -> week(t + zone, extra)
      [] name = "yearweek" -> yearweek(t + zone, extra)
      [] name = "weekofyear" -> weekOfYear(t + zone)
      [] name = "date_format" -> dateFormat(t + zone, extra)
      [] name = "dayname" -> dayname(t) [] name = "monthname" -> monthname(t)
      [] name = "unix_timestamp" -> t [] name = "to_seconds" -> to_seconds(t)
      [] OTHER -> Field(name, Civil(t + zone))
Accessors == {"year", "month", "day", "quarter", "dayofweek", "weekday", "dayofyear", "week",
              "yearweek", "weekofyear", "date_format", "dayname", "monthname",
              "unix_timestamp", "to_seconds"}

\* Differences of two instants; months are those of the calendar.
Difference(unit, from, to, zone) ==
    LET a == Civil(from + zone)  b == Civil(to + zone)
        months == (b.y - a.y) * 12 + b.m - a.m
    IN  CASE unit = "datediff" -> (to \div 24) - (from \div 24)
          [] unit \in {"hour", "day", "week"} -> (to - from) \div SingleTime[unit]
          [] unit = "month" -> months [] unit = "quarter" -> months \div 3
          [] unit = "year" -> b.y - a.y

-----------------------------------------------------------------------------
(* The machine: a literal, calls around it, the result as it is sent.      *)

\* The clock does not move while a statement runs.
DatesInit == \E p \in Programs :
    dates = [pc |-> "call", program |-> p, done |-> 0, value |-> p.start, type |-> "string",
             err |-> FALSE, shown |-> <<>>]

Return(value, type) ==
    dates' = [dates EXCEPT !.done = @ + 1, !.value = value, !.type = type]

Zone == dates.program.zone
Now == dates.program.now
Calling(names) ==
    /\ dates.pc = "call"
    /\ dates.done < Len(dates.program.calls)
    /\ dates.program.calls[dates.done + 1].name \in names
ThisCall == dates.program.calls[dates.done + 1]

\* CAST AS DATETIME, DATE and TIME, DATE() and TIME().
Cast ==
    /\ Calling({"datetime", "date", "time"})
    /\ LET v == dates.value
       IN  Return(CASE ThisCall.name = "datetime" -> convertDateTime(v, Zone, Now)
                    [] ThisCall.name = "date" -> convertDate(v, Zone, Now)
                    [] ThisCall.name = "time" -> convertTime(v), ThisCall.name)

\* DATE_ADD and DATE_SUB; only the former keeps the type of its date.
AddInterval ==
    /\ Calling({"date_add", "date_sub"})
    /\ LET interval == createSQLInterval(ThisCall.by, ThisCall.unit)
           v == convertDateTimeOrDate(dates.value, Zone, Now)
           mult == IF ThisCall.name = "date_add" THEN 1 ELSE -1
           sum == IF v = Null THEN Null ELSE IntervalAdd(interval[1], v, mult, Zone)
           keeps == ThisCall.name = "date_add" /\ dates.type \in {"datetime", "date", "time"} /\ v # Null
       IN  IF interval = <<>> THEN dates' = [dates EXCEPT !.pc = "done", !.err = TRUE]
           ELSE Return(sum, IF ~keeps THEN "char"
                            ELSE IF v[1] = "date" /\ interval[1].forceDate THEN "date" ELSE "datetime")

Access ==
    /\ Calling(Accessors)
    /\ LET v == convertDateTime(dates.value, Zone, Now)
       IN  Return(CASE v # Null -> <<"int", OfInstant(ThisCall.name, v[2], Zone, ThisCall.extra)>>
                    [] v = Null /\ dates.value # Null /\ ThisCall.name = "unix_timestamp" -> <<"int", 0>>
                    [] OTHER -> Null, "longlong")

Diff ==
    /\ Calling({"datediff", "timestampdiff"})
    /\ LET from == convertDateTime(dates.value, Zone, Now)
           to == convertDateTime(ThisCall.to, Zone, Now)
       IN  Return(IF from = Null \/ to = Null THEN Null
                  ELSE <<"int", Difference(ThisCall.unit, from[2], to[2], Zone)>>, "longlong")

last_day ==
    /\ Calling({"last_day"})
    /\ LET v == convertDateTime(dates.value, Zone, Now)
           c == Civil(v[2] + Zone)
       IN  Return(IF v = Null THEN Null ELSE SQLDate(NewDate(c.y, c.m + 1, 0), Zone), "date")

to_days ==
    /\ Calling({"to_days"})
    /\ LET v == convertDate(dates.value, Zone, Now)
       IN  Return(IF v = Null THEN Null ELSE <<"int", (v[2] \div 24) + 719528>>, "longlong")

\* Functions that make a value of a number.
from_days ==
    /\ Calling({"from_days"})
    /\ Return(CASE dates.value = Null -> Null
                [] dates.value # Null /\ dates.value[2] < 366 -> <<"zero">>
                [] OTHER -> SQLDate((dates.value[2] - 719528) * 24, 0), "date")

from_unixtime ==
    /\ Calling({"from_unixtime"})
    /\ Return(IF dates.value = Null THEN Null ELSE createSQLDateTime(dates.value[2]), "datetime")

makedate ==
    /\ Calling({"makedate"})
    /\ Return(IF dates.value = Null \/ ThisCall.extra <= 0 THEN Null
              ELSE SQLDate(NewDate(dates.value[2], 0, ThisCall.extra), Zone), "date")

\* MAKETIME(h, 0, 0) and SEC_TO_TIME.
maketime ==
    /\ Calling({"maketime", "sec_to_time"})
    /\ Return(IF dates.value = Null THEN Null ELSE <<"time", dates.value[2]>>, "time")

\* The functions of the clock, which is read once for a statement.
now ==
    /\ Calling({"now", "utc_timestamp"})
    /\ Return(<<"datetime", Now>>, "datetime")

curdate ==
    /\ Calling({"curdate", "utc_date"})
    /\ Return(SQLDate(Now, IF ThisCall.name = "curdate" THEN Zone ELSE 0), "date")

curtime ==
    /\ Calling({"curtime", "utc_time"})
    /\ Return(<<"time", Rem(Now, 24)>>, "time")

hour ==
    /\ Calling({"hour"})
    /\ LET v == convertTime(dates.value)
       IN  Return(IF v = Null THEN Null
                  ELSE <<"int", Civil(Now - Rem(Now, 24) + v[2] + Zone).h>>, "longlong")

time_to_sec ==
    /\ Calling({"time_to_sec"})
    /\ LET v == convertTime(dates.value)
       IN  Return(IF v = Null THEN Null ELSE <<"int", v[2]>>, "longlong")

\* typeCast: values with a type of date are written in the session's zone, those
\* that became texts as they are.
Show ==
    /\ dates.pc = "call"
    /\ dates.done = Len(dates.program.calls)
    /\ LET v == dates.value
           Fields(zone) == [Civil(v[2] + zone) EXCEPT !.h = IF v[1] = "date" THEN 0 ELSE @]
           Hours == Rem(Rem(v[2], 24) + Zone, 24) + v[2] - Rem(v[2], 24)
       IN  dates' = [dates EXCEPT !.pc = "done", !.shown =
               CASE v[1] \in {"datetime", "date"} -> <<v[1], Fields(IF dates.type = "char" THEN 0 ELSE Zone)>>
                 [] v[1] = "time" -> <<"time", Hours>>
                 [] OTHER -> v]

DatesNext ==
    \/ Cast \/ AddInterval \/ Access \/ Diff \/ last_day \/ to_days \/ from_days
    \/ from_unixtime \/ makedate \/ maketime \/ now \/ curdate \/ curtime \/ hour
    \/ time_to_sec \/ Show

-----------------------------------------------------------------------------
(* The reference: a date as SQL sees it, <<"day", n, hour>> with n a Julian*)
(* day and hour -1 for none, without instants and zones.                   *)

JulianDay(y, m, d) ==
    LET a == (14 - m) \div 12
        n == y + 4800 - a
    IN  d + ((153 * (m + 12 * a - 3) + 2) \div 5) + 365 * n + (n \div 4) - (n \div 100) + (n \div 400) - 32045
FromJulian(n) ==
    LET f == n + 1401 + (((((4 * n + 274277) \div 146097) * 3) \div 4)) - 38
        e == 4 * f + 3
        h == 5 * ((e % 1461) \div 4) + 2
        m == (((h \div 153) + 2) % 12) + 1
    IN  [y |-> (e \div 1461) - 4716 + ((14 - m) \div 12), m |-> m, d |-> ((h % 153) \div 5) + 1]
LastOf(y, m) == JulianDay(IF m = 12 THEN y + 1 ELSE y, (m % 12) + 1, 1) - JulianDay(y, m, 1)
Weekday(n) == n % 7            \* 0 is a Monday
NewYear(n) == JulianDay(FromJulian(n).y, 1, 1)
Count(from, to, weekday) == Cardinality({k \in from..to : Weekday(k) = weekday})

Denotes(v) ==
    IF v[1] # "text" THEN v
    ELSE LET l == v[2]
             y == IF l.short THEN (IF l.y < 70 THEN 2000 ELSE 1900) + l.y ELSE l.y
         IN  IF l.m \in 1..12 /\ l.d \in 1..LastOf(y, l.m)
             THEN <<"day", JulianDay(y, l.m, l.d), l.h>> ELSE Null

\* A month later is the same day, or the last there is.
MonthsLater(n, months) ==
    LET c == FromJulian(n)
        k == c.y * 12 + c.m - 1 + months
    IN  JulianDay(k \div 12, (k % 12) + 1, Min({c.d, LastOf(k \div 12, (k % 12) + 1)}))
Later(v, units, unit) ==
    LET t == v[2] * 24 + Max({v[3], 0}) + units * (SingleTime @@ DoubleTime)[unit]
    IN  CASE unit \in DOMAIN Month -> <<"day", MonthsLater(v[2], units * Month[unit]), v[3]>>
          [] unit = "year_month" -> <<"day", MonthsLater(v[2], units), v[3]>>
          [] unit \in {"hour", "day_hour"} -> <<"day", t \div 24, t % 24>>
          [] OTHER -> <<"day", t \div 24, v[3]>>

FieldOf(n, h, call) ==
    LET c == FromJulian(n)
        thursday == n - Weekday(n) + 3
        sunday == n - ((Weekday(n) + 1) % 7)
        part == IF call.name = "date_format" THEN call.extra ELSE ""
    IN  CASE call.name = "year" \/ part = "Y" -> c.y
          [] call.name \in {"month", "monthname"} \/ part = "m" -> c.m
          [] call.name = "day" \/ part = "d" -> c.d
          [] call.name = "quarter" -> (c.m + 2) \div 3
          [] call.name \in {"dayname"} \/ part = "w" -> (Weekday(n) + 1) % 7
          [] call.name = "dayofweek" -> ((Weekday(n) + 1) % 7) + 1
          [] call.name = "weekday" -> Weekday(n)
          [] call.name = "dayofyear" -> n - NewYear(n) + 1
          [] call.name = "week" /\ call.extra = 0 -> Count(NewYear(n), n, 6)
          [] call.name = "week" /\ call.extra = 1 -> Count(NewYear(n), thursday, 3)
          [] call.name = "weekofyear" -> Count(NewYear(thursday), thursday, 3)
          [] call.name = "yearweek" -> FromJulian(sunday).y * 100 + Count(NewYear(sunday), sunday, 6)
          [] call.name = "to_days" -> n - 1721060
          [] call.name = "to_seconds" -> (n - 1721060) * 24 + h
          [] call.name = "unix_timestamp" -> (n - 2440588) * 24 + h - dates.program.zone

\* What a call gives.
Clocks == {"now", "utc_timestamp", "curdate", "utc_date", "curtime", "utc_time"}
Bounded(v) == IF v[2] > JulianDay(9999, 12, 31) THEN Null ELSE v
RefCall(v, call) ==
    LET h == Max({v[3], 0})
        to == Denotes(call.to)
        At(n, k) == <<"day", n, k>>
        c == FromJulian(v[2])
        Months(a, b) == (FromJulian(b[2]).y - FromJulian(a[2]).y) * 12 + FromJulian(b[2]).m - FromJulian(a[2]).m
        at == dates.program.now
    IN  CASE call.name \in Clocks \ {"curtime", "utc_time"} ->
                 At(2440588 + (at \div 24),
                    IF call.name \in {"now", "utc_timestamp"} THEN at % 24 ELSE -1)
          [] call.name \in Clocks -> <<"time", at % 24>>
          [] call.name \in {"maketime", "sec_to_time"} -> IF v = Null THEN Null ELSE <<"time", v[2]>>
          [] call.name \notin Clocks /\ (v = Null \/ to = Null) -> Null
          [] v[1] = "int" /\ call.name = "from_days" ->
                 IF v[2] < 366 THEN <<"zero">> ELSE At(v[2] + 1721060, -1)
          [] v[1] = "int" /\ call.name = "from_unixtime" ->
                 At(2440588 + ((v[2] + dates.program.zone) \div 24), (v[2] + dates.program.zone) % 24)
          [] v[1] = "int" /\ call.name = "makedate" ->
                 IF call.extra > 0 THEN At(JulianDay(v[2], 1, 1) + call.extra - 1, -1) ELSE Null
          [] v[1] = "day" /\ call.name = "datetime" -> At(v[2], h)
          [] v[1] = "day" /\ call.name = "date" -> At(v[2], -1)
          [] v[1] = "day" /\ call.name = "time" -> <<"time", h>>
          [] v[1] = "day" /\ call.name \in {"hour", "time_to_sec"} -> <<"int", h>>
          [] v[1] = "day" /\ call.name = "last_day" -> At(JulianDay(c.y, c.m, LastOf(c.y, c.m)), -1)
          [] v[1] = "day" /\ call.name = "date_add" -> Bounded(Later(v, call.by[2], call.unit))
          [] v[1] = "day" /\ call.name = "date_sub" -> Bounded(Later(v, -call.by[2], call.unit))
          [] v[1] = "day" /\ call.name = "datediff" -> <<"int", to[2] - v[2]>>
          [] v[1] = "day" /\ call.name = "timestampdiff" /\ call.unit \in DOMAIN SingleTime ->
                 <<"int", ((to[2] - v[2]) * 24 + Max({to[3], 0}) - h) \div SingleTime[call.unit]>>
          [] v[1] = "day" /\ call.name = "timestampdiff" /\ call.unit \in DOMAIN Month ->
                 <<"int", Months(v, to) \div Month[call.unit]>>
          [] v[1] = "day" /\ call.name \in Accessors \cup {"to_days"} -> <<"int", FieldOf(v[2], h, call)>>

Written(v) ==
    IF v[1] # "day" THEN v
    ELSE <<IF v[3] = -1 THEN "date" ELSE "datetime",
           [y |-> FromJulian(v[2]).y, m |-> FromJulian(v[2]).m - 1, d |-> FromJulian(v[2]).d,
            h |-> Max({v[3], 0}), wd |-> (Weekday(v[2]) + 1) % 7]>>

-----------------------------------------------------------------------------
(* Properties.                                                             *)

\* The calls that keep to the zone of the session, on a text.
InZone == (Accessors \ {"dayname", "monthname", "to_seconds"}) \cup {"datetime", "date", "last_day", "makedate",
           "from_unixtime"}

\* Steps that do not agree with SQL are left out: days that a month does not
\* have, a date moved from a leap day into a common year, DATE values given
\* to DATE_ADD, negative spans and incomplete months of TIMESTAMPDIFF, ISO weeks of
\* an hour later than midnight in years that begin on a Friday, WEEK(d, 1) in years
\* that begin on a Tuesday, Wednesday or Thursday, whose first Monday is in week 2
\* (func_date_calc.ts:275), the time of a text without an hour or that is no date,
\* which is read as hhmmss (sql_conversion.ts:223).
Agreed(v, first, call) ==
    LET to == Denotes(call.to)
        target == Later(v, IF call.name = "date_add" THEN call.by[2] ELSE -call.by[2], call.unit)
        c == FromJulian(v[2])
        thursday == v[2] - Weekday(v[2]) + 3
    IN  IF v = Null THEN call.by[1] = "int" /\ call.name \notin {"unix_timestamp", "time", "hour", "time_to_sec"}
        ELSE IF v[1] # "day" \/ to = Null THEN v[1] # "time"
        ELSE CASE call.name \in {"date_add", "date_sub"} ->
                      /\ call.by[1] = "int"
                      /\ v[3] # -1 \/ (first /\ call.unit # "day_hour")
                      /\ ~(c.m = 2 /\ c.d = 29 /\ call.unit \in {"month", "quarter", "year", "year_month"}
                           /\ LastOf(FromJulian(target[2]).y, 2) = 28)
               [] call.name = "timestampdiff" ->
                      /\ to[2] * 24 + Max({to[3], 0}) >= v[2] * 24 + Max({v[3], 0})
                      /\ call.unit \in DOMAIN Month =>
                             /\ FromJulian(to[2]).d * 24 + to[3] >= c.d * 24 + v[3]
                             /\ call.unit = "year" => FromJulian(to[2]).m >= c.m
               [] call.name \in {"date", "to_days", "time", "hour", "time_to_sec"} ->
                      /\ v[2] >= 2440588 \/ v[3] <= 0
                      /\ call.name \in {"time", "hour", "time_to_sec"} => v[3] # -1
               [] call.name = "week" /\ call.extra = 1 -> Weekday(NewYear(v[2])) \notin 1..3
               [] call.name = "weekofyear" -> v[3] <= 0 \/ Weekday(NewYear(thursday)) # 4
               [] OTHER -> TRUE

\* Every function of dates gives what SQL says of the civil date its text names, in
\* every zone for those that keep to it and in UTC for all (sql_datetime.ts,
\* sql_interval.ts, func_date_basic.ts, func_date_calc.ts, sql_conversion.ts:102-418):
\* ends of months, leap years, weeks over the turn of the year, values before 1970;
\* the steps Agreed leaves out are those where the code is known to differ.
DatesAreCivil ==
    dates.pc = "done" =>
        LET p == dates.program
            values == [n \in 0..Len(p.calls) |->
                          FoldLeft(RefCall, Denotes(p.start), SubSeq(p.calls, 1, n))]
            agreed == /\ p.zone = 0 \/ \A n \in DOMAIN p.calls : n = 1 /\ p.calls[n].name \in InZone
                      /\ p.start[1] = "text" /\ Denotes(p.start) = Null => ~Parses(p.start[2])
                      /\ \A n \in DOMAIN p.calls : Agreed(values[n - 1], n = 1, p.calls[n])
        IN  agreed => ~dates.err /\ dates.shown = Written(values[Len(p.calls)])
=============================================================================
