------------------------------ MODULE DateTime ------------------------------
(***************************************************************************)
(* The date and time classes (corelib/datetime.cpp): Date keeps a julian   *)
(* day, Time the seconds of a day, DateTime both.  Dates are set from a    *)
(* year, month and day or from a text in one of the accepted layouts, are  *)
(* moved by days or seconds, and are put as year, month and day with the   *)
(* formulas of Fliegel and Van Flandern.  C's division truncates.          *)
(***************************************************************************)
EXTENDS Integers, FiniteSets

CONSTANTS
  Classes,    \* "date", "time", "datetime"
  Dates,      \* the dates set: triples <<year, month, day>>
  Clocks,     \* the times set: triples <<hour, minute, second>>
  Today,      \* what the local clock says when a text gives no year
  Days,       \* the offsets a Date is moved by
  Seconds,    \* the offsets a Time or a DateTime is moved by
  MaxMoves    \* bound: moves in a row

Assumptions ==
  /\ Classes \subseteq {"date", "time", "datetime"} /\ MaxMoves \in Nat
  /\ Dates \subseteq Int \X Int \X Int /\ Today \in Int \X Int \X Int
  /\ Clocks \subseteq Nat \X Nat \X Nat
  /\ Days \subseteq Int /\ Seconds \subseteq Int

VARIABLES
  class, julian, seconds,
  moved,      \* the offset asked for in the last move, 0 after a set
  moves

vars == <<class, julian, seconds, moved, moves>>

CDay == 86400
Invalid == 2147483647
Abs(n) == IF n < 0 THEN -n ELSE n
Quo(a, b) == IF a < 0 THEN -((-a) \div b) ELSE a \div b
Rem(a, b) == a - b * Quo(a, b)

(* A plausible bug: floor instead of truncation.                           *)
JulianFloored(y, m, d) ==
  IF m < 1 \/ m > 12 \/ d < 1 \/ d > 31 \/ y = 0
    THEN Invalid
    ELSE d - 32075 + (1461 * (y + 4800 + (m - 14) \div 12)) \div 4
           + (367 * (m - 2 - ((m - 14) \div 12) * 12)) \div 12
           - (3 * ((y + 4900 + (m - 14) \div 12) \div 100)) \div 4

(* Date::set(year, month, day).                                            *)
Julian(y, m, d) ==
  LET year == IF y < 0 THEN y - 1 ELSE y
      shift == Quo(m - 14, 12)
  IN IF m < 1 \/ m > 12 \/ d < 1 \/ d > 31 \/ y = 0
       THEN Invalid
       ELSE d - 32075 + Quo(1461 * (year + 4800 + shift), 4)
              + Quo(367 * (m - 2 - shift * 12), 12)
              - Quo(3 * Quo(year + 4900 + shift, 100), 4)

(* ZNumber and Number at the four characters of the year: the first one    *)
(* holds whatever is left of larger years, and is read as no digit then.   *)
YearField(y) ==
  LET top == IF y < 0 THEN 100 ELSE 1000
      lead == (Abs(y) \div top) % 256
      digits == IF lead > 9 THEN 0 ELSE lead * top + (Abs(y) % top)
  IN IF y < 0 THEN -digits ELSE digits

(* Date::put up to its three numbers.                                      *)
DateOf(j) ==
  LET l1 == j + 68569
      n  == Quo(4 * l1, 146097)
      l2 == l1 - Quo(146097 * n + 3, 4)
      i  == Quo(4000 * (l2 + 1), 1461001)
      l3 == l2 - Quo(1461 * i, 4) + 31
      k  == Quo(80 * l3, 2447)
      l4 == Quo(k, 11)
  IN <<100 * (n - 49) + i + l4, k + 2 - 12 * l4, l3 - Quo(2447 * k, 80)>>

(* Date::put, and the year(), month() and day() read back from it.         *)
Put(j) == LET t == DateOf(j) IN <<YearField(t[1]), t[2], t[3]>>

DayOfWeek(j) == (j + 1) % 7

(* Date::set(text): the year of each layout, told apart by its length, and *)
(* at eight characters by digits where separators would be.                *)
YearIn(layout, y) ==
  CASE layout \in {"mmdd", "mm/dd"} -> Today[1]
    [] layout \in {"yymmdd", "yy/mm/dd"} -> Quo(Today[1], 100) * 100 + (y % 100)
    [] layout \in {"yyyymmdd", "yyyy/mm/dd"} -> y
Layouts == {"mmdd", "mm/dd", "yymmdd", "yy/mm/dd", "yyyymmdd", "yyyy/mm/dd"}
FromText(layout, t) ==
  IF layout \in Layouts THEN Julian(YearIn(layout, t[1]), t[2], t[3]) ELSE Invalid

(* Time::set(hour, minute, second).                                        *)
Clock(h, m, s) ==
  IF m > 59 \/ s > 59 \/ h > 23 THEN -1 ELSE 3600 * h + 60 * m + s

(* Time::put.                                                              *)
PutClock(s) ==
  LET h == Rem(Quo(s, 3600), 24)
      m == Quo(s - 3600 * h, 60)
  IN <<h, m, s - 3600 * h - 60 * m>>

(* Time::update and DateTime::update.                                      *)
WrapTime(s) == Abs(Rem(s, CDay))

(* A plausible bug: the carry is forgotten.                                *)
CarryNothing(s) == 0

CarryDays(s) == Quo(s, CDay)
-----------------------------------------------------------------------------
Init ==
  /\ class \in Classes
  /\ IF class = "time" THEN julian = 0 ELSE \E t \in Dates : julian = Julian(t[1], t[2], t[3])
  /\ IF class = "date" THEN seconds = 0 ELSE \E t \in Clocks : seconds = Clock(t[1], t[2], t[3])
  /\ moved = 0 /\ moves = 0

(* Date::set, from numbers or from a text.                                 *)
SetDate(t, layout) ==
  /\ class = "date"
  /\ julian' = FromText(layout, t)
  /\ moved' = 0 /\ moves' = 0 /\ UNCHANGED <<class, seconds>>

SetTime(t) ==
  /\ class = "time" /\ seconds' = Clock(t[1], t[2], t[3])
  /\ moved' = 0 /\ moves' = 0 /\ UNCHANGED <<class, julian>>

Move(by) == moves < MaxMoves /\ moves' = moves + 1 /\ moved' = by /\ UNCHANGED class

(* ++, --, += and -= of a valid Date.                                      *)
MoveDate(n) ==
  /\ class = "date" /\ julian # Invalid /\ Move(n)
  /\ julian' = julian + n /\ UNCHANGED seconds

(* ++, --, += and -= of a valid Time.                                      *)
MoveTime(n) ==
  /\ class = "time" /\ seconds # -1 /\ Move(n)
  /\ seconds' = WrapTime(seconds + n) /\ UNCHANGED julian

(* += and -= of a DateTime, in seconds.                                    *)
MoveDateTime(n) ==
  /\ class = "datetime" /\ julian # Invalid /\ seconds # -1 /\ Move(n)
  /\ julian' = julian + CarryDays(seconds + n)
  /\ seconds' = WrapTime(seconds + n)

(* ++ and -- of a DateTime, in days.                                       *)
StepDateTime(n) ==
  /\ class = "datetime" /\ julian # Invalid /\ seconds # -1 /\ Move(n * CDay)
  /\ julian' = julian + n + CarryDays(seconds)
  /\ seconds' = WrapTime(seconds)

Next ==
  \/ \E t \in Dates, l \in Layouts \cup {"other"} : SetDate(t, l)
  \/ \E t \in Clocks : SetTime(t)
  \/ \E n \in Days : MoveDate(n)
  \/ \E n \in Seconds : MoveTime(n) \/ MoveDateTime(n)
  \/ \E n \in {-1, 1} : StepDateTime(n)

Spec == Init /\ [][Next]_vars
-----------------------------------------------------------------------------
(* The Gregorian calendar, counted from the first of January of year one,  *)
(* which is julian day 1721426, a Monday, and the last day whose year has  *)
(* four digits.                                                            *)
Leap(y) == y % 4 = 0 /\ (y % 100 # 0 \/ y % 400 = 0)
MonthDays(y) == <<31, IF Leap(y) THEN 29 ELSE 28, 31, 30, 31, 30, 31, 31, 30, 31, 30, 31>>
Before(y) == LET c == <<0, 31, 59, 90, 120, 151, 181, 212, 243, 273, 304, 334>>
             IN [m \in 1..12 |-> c[m] + IF Leap(y) /\ m > 2 THEN 1 ELSE 0]
FirstDay == 1721426
LastDay == 5373484
DayNumber(t) ==
  LET y == t[1] - 1
  IN 365 * y + y \div 4 - y \div 100 + y \div 400 + Before(t[1])[t[2]] + t[3]

TypeOK ==
  /\ class \in {"date", "time", "datetime"}
  /\ julian \in Int /\ seconds \in Int /\ seconds >= -1 /\ seconds < CDay
  /\ moves \in 0..MaxMoves

(* put() writes the day of the Gregorian calendar that set() and the moves *)
(* have counted to, set() reads it back, and dow() is its week day, for    *)
(* every day of the years 1 to 9999.  Of later ones the four characters of *)
(* the year are not digits.                                                *)
CalendarRight ==
  class # "time" /\ julian >= FirstDay /\ julian <= LastDay =>
    LET t == Put(julian)
    IN /\ t[1] > 0 /\ t[2] \in 1..12 /\ t[3] \in 1..MonthDays(t[1])[t[2]]
       /\ julian = 1721425 + DayNumber(t)
       /\ FromText("yyyy/mm/dd", t) = julian
       /\ DayOfWeek(julian) = DayNumber(t) % 7

(* Moving by an offset moves the instant by just that offset, over         *)
(* midnight and over a leap day.  Only a move of the seconds back over a   *)
(* midnight arrives as far after that midnight as it should have before    *)
(* it; ++ and -- of a DateTime are exact both ways.                        *)
Elapsed == (julian' - julian) * CDay + (seconds' - seconds)
MovesExactly ==
  moves' > moves =>
    \/ class = "date" /\ Elapsed = moved' * CDay
    \/ class = "time" /\ (Elapsed - moved') % CDay = 0
    \/ class = "datetime" /\ Elapsed = moved'
    \/ /\ seconds + moved' < 0
       /\ \/ class = "time" /\ (Elapsed - moved' - 2 * seconds') % CDay = 0
          \/ class = "datetime" /\ Elapsed = moved' + 2 * seconds'
=============================================================================
