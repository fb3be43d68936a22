----------------------------- MODULE TextProofs -----------------------------
(***************************************************************************)
(* Proofs about the dates and the strings as MCData composes them: for any *)
(* dates, clocks and offsets, any Strings and memstrings, and any texts.   *)
(***************************************************************************)
EXTENDS MCData, ChainProofs, Integers

(* A step of the suite is a step of its part.                              *)
LEMMA TextSteps ==
  ASSUME Next
  PROVE  /\ part' = part
         /\ part = "time" => Time!Next
         /\ part = "string" => Text!Next
BY DEF Next

(* A step that changes nothing.                                            *)
LEMMA TextStutters ==
  ASSUME UNCHANGED vars
  PROVE  UNCHANGED <<part, s1, s2, s3, s4, s5, s6, s7, s8, s9, s10, s11, s12, s13, s14, s15>>
BY DEF vars, rest3, rest4, rest5, rest6, rest7, rest8, rest9, rest10, rest11, rest12,
   rest13, rest14
-----------------------------------------------------------------------------
(* Dates and times: the suite's variables by DateTime's names.             *)
class == s1
julian == s2
seconds == s3
moved == s4
moves == s5

(* The julian day and the seconds are numbers, and valid seconds are not   *)
(* negative.                                                               *)
TimeInv ==
  part = "time" =>
    /\ class \in {"date", "time", "datetime"} /\ moves \in Nat
    /\ julian \in Int /\ seconds \in Int /\ seconds >= -1
USE DEF class, julian, seconds, moved, moves

(* What set() makes of three numbers is a number.                          *)
LEMMA JulianNumber ==
  \A y, m, d \in Int : Time!Julian(y, m, d) \in Int
<1>1. ASSUME NEW n \in Int PROVE \A k \in {4, 12, 100} : Time!Quo(n, k) \in Int
  BY <1>1 DEF Time!Quo
<1>. SUFFICES ASSUME NEW y \in Int, NEW m \in Int, NEW d \in Int
              PROVE  Time!Julian(y, m, d) \in Int
  OBVIOUS
<1>2. PICK year \in Int : year = IF y < 0 THEN y - 1 ELSE y
  OBVIOUS
<1>3. PICK shift \in Int : shift = Time!Quo(m - 14, 12)
  BY <1>1
<1>4. /\ Time!Quo(1461 * (year + 4800 + shift), 4) \in Int
      /\ Time!Quo(367 * (m - 2 - shift * 12), 12) \in Int
      /\ Time!Quo(year + 4900 + shift, 100) \in Int
  BY <1>1
<1>5. Time!Quo(3 * Time!Quo(year + 4900 + shift, 100), 4) \in Int
  BY <1>1, <1>4
<1>. QED
  BY <1>2, <1>3, <1>4, <1>5 DEF Time!Julian, Time!Invalid

(* A year, of whichever layout, is a number.                               *)
LEMMA TextNumber ==
  ASSUME NEW t \in Int \X Int \X Int, NEW l
  PROVE  Time!FromText(l, t) \in Int
<1>0. Today[1] \in Int
  BY DateTimeAssumption DEF Time!Assumptions
<1>1. t[1] \in Int /\ t[2] \in Int /\ t[3] \in Int
  OBVIOUS
<1>2. Time!Quo(Today[1], 100) \in Int
  BY <1>0 DEF Time!Quo
<1>3. l \in Time!Layouts => Time!YearIn(l, t[1]) \in Int
  BY <1>0, <1>1, <1>2 DEF Time!YearIn, Time!Layouts
<1>. QED
  BY <1>1, <1>3, JulianNumber DEF Time!FromText, Time!Invalid

(* The seconds that set() makes of an hour, a minute and a second.         *)
LEMMA ClockNumber ==
  ASSUME NEW t \in Nat \X Nat \X Nat
  PROVE  Time!Clock(t[1], t[2], t[3]) \in Int /\ Time!Clock(t[1], t[2], t[3]) >= -1
BY DEF Time!Clock

(* Days carried and seconds left of a number of seconds, which are all of  *)
(* it, unless it is negative: the seconds left count backwards then.       *)
LEMMA CarryExact ==
  ASSUME NEW x \in Int
  PROVE  /\ Time!CarryDays(x) \in Int /\ Time!WrapTime(x) \in Nat
         /\ \/ Time!CarryDays(x) * 86400 + Time!WrapTime(x) = x
            \/ x < 0 /\ Time!CarryDays(x) * 86400 - Time!WrapTime(x) = x
<1>1. CASE x >= 0
  <2>1. PICK q \in Nat, r \in Nat : q = x \div 86400 /\ x = 86400 * q + r
    BY <1>1
  <2>2. Time!Quo(x, 86400) = q
    BY <1>1, <2>1 DEF Time!Quo
  <2>3. Time!Rem(x, 86400) = r
    BY <2>1, <2>2 DEF Time!Rem
  <2>4. Time!CarryDays(x) = q /\ Time!WrapTime(x) = r
    BY <2>1, <2>2, <2>3 DEF Time!CarryDays, Time!WrapTime, Time!Abs, Time!CDay
  <2>. QED
    BY <2>1, <2>4
<1>2. CASE x < 0
  <2>0. PICK y \in Nat : y = -x
    BY <1>2
  <2>1. PICK q \in Nat, r \in Nat : q = (-x) \div 86400 /\ -x = 86400 * q + r
    <3>1. y \div 86400 \in Nat /\ y % 86400 \in Nat /\ y = 86400 * (y \div 86400) + (y % 86400)
      OBVIOUS
    <3>. QED
      BY <2>0, <3>1
  <2>2. Time!Quo(x, 86400) = -q
    BY <1>2, <2>1 DEF Time!Quo
  <2>3. Time!Rem(x, 86400) = -r
    BY <2>1, <2>2 DEF Time!Rem
  <2>4. Time!CarryDays(x) = -q /\ Time!WrapTime(x) = r
    BY <2>1, <2>2, <2>3 DEF Time!CarryDays, Time!WrapTime, Time!Abs, Time!CDay
  <2>. QED
    BY <1>2, <2>1, <2>4
<1>. QED
  BY <1>1, <1>2

(* Every step keeps the numbers, and every move is exact.                  *)
LEMMA TimeStep ==
  ASSUME TimeInv, part = "time", Time!Next
  PROVE  /\ class' \in {"date", "time", "datetime"} /\ moves' \in Nat
         /\ julian' \in Int /\ seconds' \in Int /\ seconds' >= -1
         /\ Time!MovesExactly
<1>0. /\ class \in {"date", "time", "datetime"} /\ moves \in Nat
      /\ julian \in Int /\ seconds \in Int /\ seconds >= -1
  BY DEF TimeInv
<1>a. /\ Dates \subseteq Int \X Int \X Int /\ Clocks \subseteq Nat \X Nat \X Nat
      /\ Days \subseteq Int /\ Seconds \subseteq Int
  BY DateTimeAssumption DEF Time!Assumptions
<1>1. ASSUME NEW t \in Dates, NEW l, Time!SetDate(t, l)
      PROVE  /\ class' = class /\ moves' = 0 /\ seconds' = seconds /\ julian' \in Int
  BY <1>a, <1>1, TextNumber DEF Time!SetDate
<1>2. ASSUME NEW t \in Clocks, Time!SetTime(t)
      PROVE  /\ class' = class /\ moves' = 0 /\ julian' = julian
             /\ seconds' \in Int /\ seconds' >= -1
  BY <1>a, <1>2, ClockNumber DEF Time!SetTime
<1>3. ASSUME NEW n \in Days, Time!MoveDate(n)
      PROVE  /\ class' = class /\ moves' = moves + 1 /\ seconds' = seconds /\ julian' \in Int
             /\ class = "date" /\ Time!Elapsed = moved' * 86400
  <2>1. /\ class' = class /\ class = "date" /\ moves' = moves + 1 /\ moved' = n
        /\ seconds' = seconds /\ julian' = julian + n /\ n \in Int
    BY <1>a, <1>3 DEF Time!MoveDate, Time!Move
  <2>2. Time!Elapsed = n * 86400
    BY <1>0, <2>1 DEF Time!Elapsed, Time!CDay
  <2>. QED
    BY <1>0, <2>1, <2>2
<1>4. ASSUME NEW n \in Seconds, Time!MoveTime(n)
      PROVE  /\ class' = class /\ moves' = moves + 1 /\ julian' = julian
             /\ seconds' \in Nat /\ class = "time"
             /\ \/ (Time!Elapsed - moved') % 86400 = 0
                \/ /\ seconds + moved' < 0
                   /\ (Time!Elapsed - moved' - 2 * seconds') % 86400 = 0
  <2>1. /\ class' = class /\ class = "time" /\ moves' = moves + 1 /\ moved' = n
        /\ julian' = julian /\ seconds' = Time!WrapTime(seconds + n) /\ n \in Int
    BY <1>a, <1>4 DEF Time!MoveTime, Time!Move
  <2>2. PICK x \in Int : x = seconds + n
    BY <1>0, <2>1
  <2>3. PICK c \in Int : c = Time!CarryDays(x)
    BY CarryExact
  <2>4. /\ seconds' \in Nat
        /\ c * 86400 + seconds' = x \/ (x < 0 /\ c * 86400 - seconds' = x)
    BY <2>1, <2>2, <2>3, CarryExact
  <2>5. Time!Elapsed = seconds' - seconds
    BY <1>0, <2>1, <2>4 DEF Time!Elapsed, Time!CDay
  <2>6. c * 86400 + seconds' = x => (Time!Elapsed - n) % 86400 = 0
    <3>1. SUFFICES ASSUME c * 86400 + seconds' = x PROVE (Time!Elapsed - n) % 86400 = 0
      OBVIOUS
    <3>2. Time!Elapsed - n = (-c) * 86400
      BY <1>0, <2>1, <2>2, <2>4, <2>5, <3>1
    <3>3. PICK k \in Int : k = -c
      OBVIOUS
    <3>4. (k * 86400) % 86400 = 0
      OBVIOUS
    <3>. QED
      BY <3>2, <3>3, <3>4
  <2>7. c * 86400 - seconds' = x => (Time!Elapsed - n - 2 * seconds') % 86400 = 0
    <3>1. SUFFICES ASSUME c * 86400 - seconds' = x
                   PROVE  (Time!Elapsed - n - 2 * seconds') % 86400 = 0
      OBVIOUS
    <3>2. Time!Elapsed - n - 2 * seconds' = (-c) * 86400
      BY <1>0, <2>1, <2>2, <2>4, <2>5, <3>1
    <3>3. PICK k \in Int : k = -c
      OBVIOUS
    <3>4. (k * 86400) % 86400 = 0
      OBVIOUS
    <3>. QED
      BY <3>2, <3>3, <3>4
  <2>. QED
    BY <2>1, <2>2, <2>4, <2>6, <2>7
<1>5. ASSUME NEW n \in Int, NEW e \in Int,
             class = "datetime", class' = class, moves' = moves + 1, moved' = n + e,
             julian' = julian + Time!CarryDays(seconds + n) + e \div 86400,
             e = 86400 * (e \div 86400), e = 0 \/ n = 0, seconds # -1,
             seconds' = Time!WrapTime(seconds + n)
      PROVE  /\ julian' \in Int /\ seconds' \in Nat
             /\ \/ Time!Elapsed = moved'
                \/ seconds + moved' < 0 /\ Time!Elapsed = moved' + 2 * seconds'
  <2>1. PICK x \in Int, d \in Int : x = seconds + n /\ d = e \div 86400 /\ e = 86400 * d
    BY <1>0, <1>5
  <2>2. PICK c \in Int : c = Time!CarryDays(x)
    BY CarryExact
  <2>3. /\ seconds' \in Nat /\ julian' = julian + c + d
        /\ c * 86400 + seconds' = x \/ (x < 0 /\ c * 86400 - seconds' = x)
    BY <1>0, <1>5, <2>1, <2>2, CarryExact
  <2>4. Time!Elapsed = (c + d) * 86400 + (seconds' - seconds)
    BY <1>0, <2>3 DEF Time!Elapsed, Time!CDay
  <2>5. c * 86400 + seconds' = x => Time!Elapsed = n + e
    BY <1>0, <1>5, <2>1, <2>3, <2>4
  <2>6. x < 0 => e = 0
    BY <1>0, <1>5, <2>1
  <2>7. c * 86400 - seconds' = x => Time!Elapsed = n + e + 2 * seconds'
    BY <1>0, <1>5, <2>1, <2>3, <2>4
  <2>. QED
    BY <1>0, <1>5, <2>1, <2>3, <2>5, <2>6, <2>7
<1>6. ASSUME NEW n \in Seconds, Time!MoveDateTime(n)
      PROVE  /\ class' = class /\ class = "datetime" /\ moves' = moves + 1
             /\ julian' \in Int /\ seconds' \in Nat
             /\ \/ Time!Elapsed = moved'
                \/ seconds + moved' < 0 /\ Time!Elapsed = moved' + 2 * seconds'
  <2>1. /\ class' = class /\ class = "datetime" /\ moves' = moves + 1 /\ moved' = n
        /\ seconds # -1 /\ n \in Int
        /\ julian' = julian + Time!CarryDays(seconds + n)
        /\ seconds' = Time!WrapTime(seconds + n)
    BY <1>a, <1>6 DEF Time!MoveDateTime, Time!Move
  <2>2. PICK z \in Int : z = 0
    OBVIOUS
  <2>3. z \div 86400 = 0 /\ z = 86400 * (z \div 86400) /\ n + z = n
    BY <2>1, <2>2
  <2>4. Time!CarryDays(seconds + n) \in Int
    BY <1>0, <2>1, CarryExact
  <2>5. julian' = julian + Time!CarryDays(seconds + n) + z \div 86400
    BY <1>0, <2>1, <2>3, <2>4
  <2>. QED
    BY <1>5, <2>1, <2>2, <2>3, <2>5
<1>7. ASSUME NEW n \in {-1, 1}, Time!StepDateTime(n)
      PROVE  /\ class' = class /\ class = "datetime" /\ moves' = moves + 1
             /\ julian' \in Int /\ seconds' \in Nat
             /\ \/ Time!Elapsed = moved'
                \/ seconds + moved' < 0 /\ Time!Elapsed = moved' + 2 * seconds'
  <2>1. /\ class' = class /\ class = "datetime" /\ moves' = moves + 1 /\ moved' = n * 86400
        /\ seconds # -1
        /\ julian' = julian + n + Time!CarryDays(seconds)
        /\ seconds' = Time!WrapTime(seconds)
    BY <1>7 DEF Time!StepDateTime, Time!Move, Time!CDay
  <2>2. PICK e \in Int, z \in Int : e = n * 86400 /\ z = 0
    OBVIOUS
  <2>3. e \div 86400 = n /\ e = 86400 * (e \div 86400) /\ z + e = e /\ seconds + z = seconds
    BY <1>0, <2>2
  <2>4. Time!CarryDays(seconds) \in Int
    BY <1>0, CarryExact
  <2>5. /\ julian' = julian + Time!CarryDays(seconds + z) + e \div 86400
        /\ seconds' = Time!WrapTime(seconds + z) /\ moved' = z + e
        /\ e = 0 \/ z = 0
    BY <1>0, <2>1, <2>2, <2>3, <2>4
  <2>6. /\ julian' \in Int /\ seconds' \in Nat
        /\ \/ Time!Elapsed = moved'
           \/ seconds + moved' < 0 /\ Time!Elapsed = moved' + 2 * seconds'
    BY <1>5, <2>1, <2>3, <2>5
  <2>. QED
    BY <2>1, <2>6
<1>8. \/ \E t \in Dates : \E l : Time!SetDate(t, l)
      \/ \E t \in Clocks : Time!SetTime(t)
      \/ \E n \in Days : Time!MoveDate(n)
      \/ \E n \in Seconds : Time!MoveTime(n)
      \/ \E n \in Seconds : Time!MoveDateTime(n)
      \/ \E n \in {-1, 1} : Time!StepDateTime(n)
  BY DEF Time!Next
<1>. QED
  BY <1>0, <1>1, <1>2, <1>3, <1>4, <1>6, <1>7, <1>8 DEF Time!MovesExactly, Time!CDay

(* The numbers of dates and times hold of every behaviour.                 *)
THEOREM TimeInvariance == Spec => []TimeInv
<1>1. Init => TimeInv
  <2>1. ASSUME Time!Init PROVE /\ class \in {"date", "time", "datetime"} /\ moves \in Nat
                               /\ julian \in Int /\ seconds \in Int /\ seconds >= -1
    <3>0. /\ Classes \subseteq {"date", "time", "datetime"}
          /\ Dates \subseteq Int \X Int \X Int /\ Clocks \subseteq Nat \X Nat \X Nat
      BY DateTimeAssumption DEF Time!Assumptions
    <3>1. class \in {"date", "time", "datetime"} /\ moves \in Nat
      BY <2>1, <3>0 DEF Time!Init
    <3>2. julian \in Int
      <4>1. \A t \in Dates : Time!Julian(t[1], t[2], t[3]) \in Int
        BY <3>0, JulianNumber
      <4>. QED
        BY <2>1, <4>1 DEF Time!Init
    <3>3. seconds \in Int /\ seconds >= -1
      <4>1. \A t \in Clocks : Time!Clock(t[1], t[2], t[3]) \in Int /\ Time!Clock(t[1], t[2], t[3]) >= -1
        BY <3>0, ClockNumber
      <4>. QED
        BY <2>1, <4>1 DEF Time!Init
    <3>. QED
      BY <3>1, <3>2, <3>3
  <2>. QED
    BY <2>1 DEF Init, TimeInv
<1>2. TimeInv /\ [Next]_vars => TimeInv'
  <2>1. ASSUME TimeInv, Next PROVE TimeInv'
    BY <2>1, TextSteps, TimeStep DEF TimeInv
  <2>2. ASSUME TimeInv, UNCHANGED vars PROVE TimeInv'
    BY <2>2, TextStutters DEF TimeInv
  <2>. QED
    BY <2>1, <2>2
<1>. QED
  BY <1>1, <1>2, PTL DEF Spec

(* The leap days before March of year y, counted from year one.            *)
LeapDays(y) == y \div 4 - y \div 100 + y \div 400

(* put() counts in fourths of a Gregorian century, from a March: a century *)
(* has 36524 days, and one more when a year that 400 divides ends it.      *)
LEMMA CenturyRest ==
  ASSUME NEW l \in Nat, NEW n \in Int, n = (4 * l) \div 146097,
         NEW r \in Int, r = l - (146097 * n + 3) \div 4
  PROVE n >= 0 /\ r >= 0 /\ r <= 36524 /\ (n % 4 # 0 => r <= 36523)
<1>1. 146097 * n <= 4 * l /\ 4 * l <= 146097 * n + 146096
  OBVIOUS
<1>2. PICK x \in Int : x = (146097 * n + 3) \div 4 /\ 4 * x <= 146097 * n + 3 /\ 146097 * n <= 4 * x
  OBVIOUS
<1>3. r = l - x
  BY <1>2
<1>4. n >= 0 /\ r >= 0 /\ r <= 36524
  BY <1>1, <1>2, <1>3
<1>5. n % 4 # 0 => r <= 36523
  OBVIOUS
<1>. QED
  BY <1>4, <1>5

(* The year of the century and the day of that year, counted from the      *)
(* first of March; only a leap year has day 365.                           *)
LEMMA YearRest ==
  ASSUME NEW r \in Int, r >= 0, r <= 36524, NEW i \in Int, i = (4000 * (r + 1)) \div 1461001,
         NEW d \in Int, d = r - (1461 * i) \div 4
  PROVE i \in 0..99 /\ d \in 0..365 /\ (i % 4 # 3 => d <= 364)
<1>1. 1461001 * i <= 4000 * (r + 1) /\ 4000 * (r + 1) <= 1461001 * i + 1461000
  OBVIOUS
<1>2. i >= 0 /\ i <= 99
  BY <1>1
<1>a. PICK q \in Int : q = i \div 4 /\ i - 4 * q \in 0..3
  BY <1>2
<1>b. PICK z \in 0..3 : i = 4 * q + z
  BY <1>a
<1>c. i % 4 = z
  BY <1>b
<1>d. PICK x \in Int : x = (1461 * i) \div 4 /\ x = 365 * i + q
  <2>2. (1461 * i) \div 4 = 365 * i + i \div 4
    BY <1>2
  <2>. QED
    BY <2>2, <1>a
<1>3. x = (1461 * i) \div 4 /\ 4 * x = 1461 * i - z /\ z = i % 4
  BY <1>b, <1>c, <1>d
<1>4. d = r - x
  BY <1>3
<1>5. d >= 0 /\ d <= 365
  BY <1>1, <1>2, <1>3, <1>4
<1>6. z # 3 => d <= 364
  BY <1>1, <1>2, <1>3, <1>4
<1>. QED
  BY <1>2, <1>3, <1>5, <1>6

(* The month, counted from March, and the day of the month.                *)
LEMMA MonthRange ==
  ASSUME NEW d \in 0..365, NEW l3 \in Int, l3 = d + 31, NEW k \in Int, k = (80 * l3) \div 2447,
     NEW e \in Int, e = l3 - (2447 * k) \div 80
  PROVE k \in 1..12 /\ e \in 1..31
BY SMT

(* What the century, the year and the day add up to: the days from the     *)
(* first of March of year zero.                                            *)
Parts(n, i, d, y, x, z) == d + x + z - 68569 = 365 * y + LeapDays(y) + d + 1721120
PartsOf(n, i, d, y, x, z) ==
  /\ n \in Nat /\ i \in 0..99 /\ d \in Int /\ y \in Int /\ x \in Int /\ z \in Int
  /\ y = 100 * (n - 49) + i /\ x = (1461 * i) \div 4 /\ z = (146097 * n + 3) \div 4

(* They add up so.                                                         *)
LEMMA PartsCount ==
  ASSUME NEW n, NEW i, NEW d, NEW y, NEW x, NEW z, PartsOf(n, i, d, y, x, z)
  PROVE  Parts(n, i, d, y, x, z)
<1>0. /\ n \in Nat /\ i \in 0..99 /\ d \in Int /\ y \in Int /\ x \in Int /\ z \in Int
      /\ y = 100 * (n - 49) + i /\ x = (1461 * i) \div 4 /\ z = (146097 * n + 3) \div 4
  BY DEF PartsOf
<1>1. (1461 * i) \div 4 = 365 * i + i \div 4
  BY <1>0
<1>2. (146097 * n + 3) \div 4 = 36524 * n + (n + 3) \div 4
  BY <1>0
<1>3. y \div 100 = n - 49
  BY <1>0
<1>4. y \div 4 = 25 * (n - 49) + i \div 4
  BY <1>0
<1>5. y \div 400 = (n + 3) \div 4 - 13
  BY <1>0
<1>. QED
  BY <1>0, <1>1, <1>2, <1>3, <1>4, <1>5 DEF LeapDays, Parts

(* A leap year adds one leap day.                                          *)
LEMMA LeapYears ==
  ASSUME NEW y \in Int
  PROVE LeapDays(y) = LeapDays(y - 1) + IF Time!Leap(y) THEN 1 ELSE 0
<1>1. (y - 1) \div 4 = (y \div 4) - IF y % 4 = 0 THEN 1 ELSE 0
  OBVIOUS
<1>2. (y - 1) \div 100 = (y \div 100) - IF y % 100 = 0 THEN 1 ELSE 0
  OBVIOUS
<1>3. (y - 1) \div 400 = (y \div 400) - IF y % 400 = 0 THEN 1 ELSE 0
  OBVIOUS
<1>4. (y % 400 = 0 => y % 100 = 0) /\ (y % 100 = 0 => y % 4 = 0)
  OBVIOUS
<1>. QED
  BY <1>1, <1>2, <1>3, <1>4 DEF LeapDays, Time!Leap

(* The days of the years as set() counts them.                             *)
YearsAre(y, p, s) == p - s = 365 * y + LeapDays(y) + 1753164
JulianYears(y, p) == p = (1461 * (y + 4800)) \div 4
JulianCenturies(y, s) == s = (3 * ((y + 4900) \div 100)) \div 4

(* They are the years' days and their leap days.                           *)
LEMMA SetCounts ==
  ASSUME NEW y \in Nat, NEW p \in Int, JulianYears(y, p),
         NEW s \in Int, JulianCenturies(y, s)
  PROVE  YearsAre(y, p, s)
<1>1. (1461 * (y + 4800)) \div 4 = 365 * (y + 4800) + y \div 4 + 1200
  OBVIOUS
<1>2. PICK c \in Nat : c = y \div 100 /\ (y + 4900) \div 100 = c + 49 /\ y \div 400 = c \div 4
  OBVIOUS
<1>3. (3 * (c + 49)) \div 4 = c + 49 - (c \div 4) - 13
  OBVIOUS
<1>. QED
  BY <1>1, <1>2, <1>3 DEF LeapDays, YearsAre, JulianYears, JulianCenturies

(* Day e of the k-th month from March is day d of the year from March.     *)
Dated(d, k, e) ==
  \/ k = 1 /\ d = e - 1 /\ e \in 1..31
  \/ k = 2 /\ d = e + 30 /\ e \in 1..30
  \/ k = 3 /\ d = e + 60 /\ e \in 1..31
  \/ k = 4 /\ d = e + 91 /\ e \in 1..30
  \/ k = 5 /\ d = e + 121 /\ e \in 1..31
  \/ k = 6 /\ d = e + 152 /\ e \in 1..31
  \/ k = 7 /\ d = e + 183 /\ e \in 1..30
  \/ k = 8 /\ d = e + 213 /\ e \in 1..31
  \/ k = 9 /\ d = e + 244 /\ e \in 1..30
  \/ k = 10 /\ d = e + 274 /\ e \in 1..31
  \/ k = 11 /\ d = e + 305 /\ e \in 1..31
  \/ k = 12 /\ d = e + 336 /\ e \in 1..29

(* The day of the year gives the month and its day.                        *)
LEMMA MonthOfDay ==
  ASSUME NEW d \in 0..365, NEW k \in Int, k = (80 * (d + 31)) \div 2447,
     NEW e \in Int, e = d + 31 - (2447 * k) \div 80
  PROVE  Dated(d, k, e)
<1>1. k \in 1..12
  OBVIOUS
<1>2. 2447 * k <= 80 * (d + 31) /\ 80 * (d + 31) < 2447 * k + 2447
  OBVIOUS
<1>3. PICK x \in Int : x = (2447 * k) \div 80 /\ 80 * x <= 2447 * k /\ 2447 * k < 80 * x + 80
  OBVIOUS
<1>4. e = d + 31 - x
  BY <1>3
<1>. QED
  BY <1>1, <1>2, <1>3, <1>4 DEF Dated

(* The twenty ninth of February is in a leap year.                         *)
LEMMA LeapDay ==
  ASSUME NEW n \in Nat, NEW i \in 0..99, NEW y \in Int, y = 100 * (n - 49) + i + 1,
         i % 4 = 3, i # 99 \/ n % 4 = 0
  PROVE  Time!Leap(y)
<1>1. y % 4 = 0
  OBVIOUS
<1>2. i # 99 => y % 100 # 0
  OBVIOUS
<1>3. i = 99 /\ n % 4 = 0 => y % 400 = 0
  OBVIOUS
<1>. QED
  BY <1>1, <1>2, <1>3 DEF Time!Leap

(* A day from year one on is in a year from year one on.                   *)
Late(y, d) == 365 * y + LeapDays(y) + d >= 306

(* The year that put() counts from is not before it.                       *)
LEMMA FirstYear ==
  ASSUME NEW y \in Int, NEW d \in 0..365, Late(y, d)
  PROVE y >= 0 /\ (d < 306 => y >= 1)
<1>1. PICK p \in Int, q \in Int, s \in Int :
        /\ p = y \div 4 /\ q = y \div 100 /\ s = y \div 400
        /\ 4 * p <= y /\ y < 100 * q + 100 /\ 400 * s <= y
  OBVIOUS
<1>2. 365 * y + p - q + s + d >= 306
  BY <1>1 DEF LeapDays, Late
<1>3. y >= 0
  BY <1>1, <1>2
<1>4. d < 306 /\ y = 0 => FALSE
  <2>1. y = 0 => p = 0 /\ q = 0 /\ s = 0
    BY <1>1
  <2>. QED
    BY <1>2, <2>1
<1>. QED
  BY <1>3, <1>4

(* Where nothing is negative, C's division is the floor.                   *)
LEMMA QuoNat ==
  ASSUME NEW x \in Nat, NEW z \in Nat, z > 0
  PROVE  Time!Quo(x, z) = x \div z
BY DEF Time!Quo

(* January and February belong to the next year.                           *)
Turn(k) == IF k < 11 THEN 0 ELSE 1

(* Julian day j is day d of the year from March y, and that is day e of    *)
(* the k-th month from March.                                              *)
JulianDay(j, y, d, k, e) ==
  /\ y \in Int /\ d \in 0..365 /\ k \in 1..12 /\ e \in 1..31
  /\ Dated(d, k, e) /\ (d = 365 => Time!Leap(y + 1))
  /\ j = 365 * y + LeapDays(y) + d + 1721120

(* put() finds the year, the month and the day.                            *)
LEMMA PutCounts ==
  ASSUME NEW j \in Int, j >= 1721426
  PROVE  \E y, d, k, e : /\ JulianDay(j, y, d, k, e)
                         /\ Time!DateOf(j) = <<y + Turn(k), k + 2 - 12 * Turn(k), e>>
<1>1. PICK l \in Nat : l = j + 68569
  OBVIOUS
<1>2. PICK n \in Int : n = (4 * l) \div 146097
  OBVIOUS
<1>3. PICK r \in Int : r = l - (146097 * n + 3) \div 4
  OBVIOUS
<1>4. n >= 0 /\ r >= 0 /\ r <= 36524 /\ (n % 4 # 0 => r <= 36523)
  BY <1>2, <1>3, CenturyRest
<1>5. r \in Nat /\ n \in Nat
  BY <1>4
<1>6. PICK i \in Int : i = (4000 * (r + 1)) \div 1461001
  BY <1>5
<1>7. PICK d \in Int : d = r - (1461 * i) \div 4
  BY <1>6
<1>8. i \in 0..99 /\ d \in 0..365 /\ (i % 4 # 3 => d <= 364)
  BY <1>4, <1>6, <1>7, YearRest
<1>9. PICK k \in Int : k = (80 * (d + 31)) \div 2447
  BY <1>8
<1>10. PICK e \in Int : e = d + 31 - (2447 * k) \div 80
  BY <1>9
<1>11. Dated(d, k, e)
  BY <1>8, <1>9, <1>10, MonthOfDay
<1>12. k \in 1..12 /\ e \in 1..31
  BY <1>8, <1>9, <1>10, MonthRange
<1>13. PICK y \in Int : y = 100 * (n - 49) + i
  BY <1>5, <1>8
<1>14. j = 365 * y + LeapDays(y) + d + 1721120
  <2>1. PICK x \in Int, z \in Int : x = (1461 * i) \div 4 /\ z = (146097 * n + 3) \div 4
    BY <1>8, <1>5
  <2>2. d + x + z - 68569 = 365 * y + LeapDays(y) + d + 1721120
    <3>1. Parts(n, i, d, y, x, z)
      <4>1. PartsOf(n, i, d, y, x, z)
        BY <1>5, <1>8, <1>13, <2>1 DEF PartsOf
      <4>. QED
        BY <4>1, PartsCount
    <3>. QED
      BY <3>1 DEF Parts
  <2>3. d + x + z - 68569 = j
    BY <2>1, <1>1, <1>3, <1>7
  <2>. QED
    BY <2>2, <2>3
<1>15. d = 365 => Time!Leap(y + 1)
  <2>1. SUFFICES ASSUME d = 365 PROVE Time!Leap(y + 1)
    OBVIOUS
  <2>2. i % 4 = 3
    BY <2>1, <1>8
  <2>3. ASSUME i = 99 PROVE n % 4 = 0
    <3>1. PICK x \in Int : x = (1461 * i) \div 4 /\ 4 * x <= 1461 * i /\ 1461 * i < 4 * x + 4
      BY <1>8
    <3>2. d = r - x
      BY <3>1, <1>7
    <3>3. 1461 * i = 144639
      BY <2>3
    <3>4. x = 36159
      BY <3>1, <3>3
    <3>5. r > 36523
      BY <2>1, <3>2, <3>4
    <3>. QED
      BY <3>5, <1>4
  <2>4. y + 1 \in Int /\ y + 1 = 100 * (n - 49) + i + 1
    BY <1>13
  <2>. QED
    BY <2>2, <2>3, <2>4, <1>5, <1>8, LeapDay
<1>16. JulianDay(j, y, d, k, e)
  BY <1>8, <1>11, <1>12, <1>14, <1>15 DEF JulianDay
<1>17. Time!DateOf(j) = <<y + Turn(k), k + 2 - 12 * Turn(k), e>>
  <2>. DEFINE L == j + 68569
              N == Time!Quo(4 * L, 146097)
              R == L - Time!Quo(146097 * N + 3, 4)
              I == Time!Quo(4000 * (R + 1), 1461001)
              H == R - Time!Quo(1461 * I, 4) + 31
              K == Time!Quo(80 * H, 2447)
              S == Time!Quo(K, 11)
              E == H - Time!Quo(2447 * K, 80)
  <2>1. Time!DateOf(j) = <<100 * (N - 49) + I + S, K + 2 - 12 * S, E>>
    BY DEF Time!DateOf
  <2>2. L = l
    BY <1>1
  <2>3. N = Time!Quo(4 * L, 146097) /\ R = L - Time!Quo(146097 * N + 3, 4)
    OBVIOUS
  <2>4. I = Time!Quo(4000 * (R + 1), 1461001) /\ H = R - Time!Quo(1461 * I, 4) + 31
    OBVIOUS
  <2>5. K = Time!Quo(80 * H, 2447) /\ S = Time!Quo(K, 11) /\ E = H - Time!Quo(2447 * K, 80)
    OBVIOUS
  <2>. HIDE DEF L, N, R, I, H, K, S, E
  <2>6. N = n
    BY <1>2, <2>2, <2>3 DEF Time!Quo
  <2>7. R = r
    BY <1>3, <1>5, <2>2, <2>3, <2>6 DEF Time!Quo
  <2>8. I = i
    BY <1>5, <1>6, <2>4, <2>7 DEF Time!Quo
  <2>9. H = d + 31
    <3>1. Time!Quo(1461 * i, 4) = (1461 * i) \div 4
      BY <1>8 DEF Time!Quo
    <3>. QED
      BY <1>5, <1>7, <2>4, <2>7, <2>8, <3>1
  <2>10. K = k
    BY <1>8, <1>9, <2>5, <2>9 DEF Time!Quo
  <2>11. S = Turn(k)
    BY <1>12, <2>5, <2>10 DEF Time!Quo, Turn
  <2>12. E = e
    BY <1>8, <1>10, <1>12, <2>5, <2>9, <2>10 DEF Time!Quo
  <2>. QED
    BY <1>13, <2>1, <2>6, <2>8, <2>10, <2>11, <2>12
<1>. QED
  BY <1>16, <1>17

(* The month and its day in the calendar of year x: the day is one of the  *)
(* month, and the days before the month are those counted.                 *)
MonthAt(y, x, m, e, d, k) ==
  /\ m \in 1..12 /\ e \in 1..Time!MonthDays(x)[m]
  /\ Time!Before(x)[m] + e
       = d + (IF m > 2 THEN 60 + (IF Time!Leap(x) THEN 1 ELSE 0) ELSE -305)
  /\ (367 * k) \div 12 + e = d + 31
MonthOf(y, x, m, e, d, k) ==
  /\ y \in Int /\ x \in Int /\ m \in Int /\ e \in Int /\ d \in Int /\ k \in 1..12
  /\ Dated(d, k, e) /\ (d = 365 => Time!Leap(y + 1))
  /\ m = k + 2 - 12 * Turn(k) /\ x = y + Turn(k)

(* The month from March, its day and the turn of the year give that month. *)
LEMMA MonthRight ==
  ASSUME NEW y, NEW x, NEW m, NEW e, NEW d, NEW k, MonthOf(y, x, m, e, d, k)
  PROVE  MonthAt(y, x, m, e, d, k)
<1>0. /\ y \in Int /\ x \in Int /\ m \in Int /\ e \in Int /\ d \in Int /\ k \in 1..12
      /\ Dated(d, k, e) /\ (d = 365 => Time!Leap(y + 1))
      /\ m = k + 2 - 12 * Turn(k) /\ x = y + Turn(k)
  BY DEF MonthOf
<1>1. m \in 1..12
  BY <1>0 DEF Turn
<1>2. (367 * k) \div 12 + e = d + 31
  BY <1>0 DEF Dated
<1>3. e \in 1..Time!MonthDays(x)[m]
  <2>1. Turn(k) = IF k < 11 THEN 0 ELSE 1
    BY DEF Turn
  <2>2. CASE k = 12
    BY <1>0, <2>1, <2>2 DEF Dated, Time!MonthDays
  <2>3. CASE k # 12
    BY <1>0, <2>1, <2>3 DEF Dated, Time!MonthDays
  <2>. QED
    BY <2>2, <2>3
<1>4. Time!Before(x)[m] = <<0, 31, 59, 90, 120, 151, 181, 212, 243, 273, 304, 334>>[m]
         + IF Time!Leap(x) /\ m > 2 THEN 1 ELSE 0
  BY <1>1 DEF Time!Before
<1>5. Time!Before(x)[m] + e
              = d + (IF m > 2 THEN 60 + (IF Time!Leap(x) THEN 1 ELSE 0) ELSE -305)
  BY <1>0, <1>1, <1>4 DEF Dated, Turn
<1>. QED
  BY <1>1, <1>2, <1>3, <1>5 DEF MonthAt

(* set() counts back to the julian day.                                    *)
LEMMA SetRight ==
  ASSUME NEW j, NEW y, NEW d, NEW k, NEW e, JulianDay(j, y, d, k, e), y >= 0,
         NEW m \in Int, NEW x \in Int,
         m = k + 2 - 12 * Turn(k), x = y + Turn(k), x > 0
  PROVE  Time!Julian(x, m, e) = j
<1>1. /\ y \in Nat /\ d \in 0..365 /\ k \in 1..12 /\ e \in 1..31 /\ Dated(d, k, e)
      /\ d = 365 => Time!Leap(y + 1)
      /\ j = 365 * y + LeapDays(y) + d + 1721120
  BY DEF JulianDay
<1>2. m \in 1..12 /\ (367 * k) \div 12 + e = d + 31
  <2>1. MonthAt(y, x, m, e, d, k)
    <3>1. MonthOf(y, x, m, e, d, k)
      BY <1>1 DEF MonthOf
    <3>. QED
      BY <3>1, MonthRight
  <2>. QED
    BY <2>1 DEF MonthAt
<1>3. Time!Quo(m - 14, 12) = - Turn(k)
  BY <1>1 DEF Time!Quo, Turn
<1>4. x - Turn(k) = y /\ m - 2 + Turn(k) * 12 = k /\ Turn(k) \in Int
  BY <1>1 DEF Turn
<1>5. Time!Quo(1461 * (y + 4800), 4) = (1461 * (y + 4800)) \div 4
  BY <1>1, QuoNat
<1>6. Time!Quo(367 * k, 12) = (367 * k) \div 12
  BY <1>1 DEF Time!Quo
<1>7. Time!Quo(3 * Time!Quo(y + 4900, 100), 4) = (3 * ((y + 4900) \div 100)) \div 4
  <2>1. Time!Quo(y + 4900, 100) = (y + 4900) \div 100
    BY <1>1, QuoNat
  <2>2. 3 * ((y + 4900) \div 100) \in Nat
    BY <1>1
  <2>. QED
    BY <2>1, <2>2, QuoNat
<1>8. PICK p \in Int, q \in Int, s \in Int :
        /\ p = (1461 * (y + 4800)) \div 4 /\ q = (367 * k) \div 12
        /\ s = (3 * ((y + 4900) \div 100)) \div 4
  BY <1>1
<1>9. Time!Julian(x, m, e) = e - 32075 + p + q - s
  <2>1. x + 4800 + (- Turn(k)) = y + 4800 /\ x + 4900 + (- Turn(k)) = y + 4900
        /\ m - 2 - (- Turn(k)) * 12 = k
    BY <1>1, <1>4
  <2>2. ~ (m < 1 \/ m > 12 \/ e < 1 \/ e > 31 \/ x = 0) /\ ~ (x < 0)
    BY <1>1, <1>2
  <2>. QED
    BY <1>3, <1>5, <1>6, <1>7, <1>8, <2>1, <2>2 DEF Time!Julian
<1>10. p - s = 365 * y + LeapDays(y) + 1753164
  <2>1. YearsAre(y, p, s)
    <3>1. JulianYears(y, p) /\ JulianCenturies(y, s)
      BY <1>8 DEF JulianYears, JulianCenturies
    <3>. QED
      BY <1>1, <3>1, SetCounts
  <2>. QED
    BY <2>1 DEF YearsAre
<1>11. LeapDays(y) \in Int
  BY <1>1 DEF LeapDays
<1>. QED
  BY <1>1, <1>2, <1>8, <1>9, <1>10, <1>11

(* The date has the number of the julian day.                              *)
LEMMA DayRight ==
  ASSUME NEW j \in Int, NEW y, NEW d, NEW k, NEW e, JulianDay(j, y, d, k, e),
         NEW m \in Int, NEW x \in Int,
         m = k + 2 - 12 * Turn(k), x = y + Turn(k)
  PROVE  Time!DayNumber(<<x, m, e>>) = j - 1721425
<1>1. /\ y \in Int /\ d \in 0..365 /\ k \in 1..12 /\ e \in 1..31 /\ Dated(d, k, e)
      /\ d = 365 => Time!Leap(y + 1)
      /\ j = 365 * y + LeapDays(y) + d + 1721120
  BY DEF JulianDay
<1>2. m \in 1..12 /\ Time!Before(x)[m] + e
              = d + (IF m > 2 THEN 60 + (IF Time!Leap(x) THEN 1 ELSE 0) ELSE -305)
  <2>1. MonthAt(y, x, m, e, d, k)
    <3>1. MonthOf(y, x, m, e, d, k)
      BY <1>1 DEF MonthOf
    <3>. QED
      BY <3>1, MonthRight
  <2>. QED
    BY <2>1 DEF MonthAt
<1>3. Time!DayNumber(<<x, m, e>>) = 365 * (x - 1) + LeapDays(x - 1) + Time!Before(x)[m] + e
  BY DEF Time!DayNumber, LeapDays
<1>4. LeapDays(x) \in Int /\ LeapDays(x - 1) \in Int /\ LeapDays(y) \in Int
  BY <1>1 DEF LeapDays
<1>5. LeapDays(x) = LeapDays(x - 1) + IF Time!Leap(x) THEN 1 ELSE 0
  BY LeapYears
<1>6. Time!Before(x)[m] \in Int
  BY <1>2 DEF Time!Before
<1>7. CASE k < 11
  <2>1. x = y /\ m > 2
    BY <1>1, <1>7 DEF Turn
  <2>2. Time!Before(x)[m] + e = d + 60 + (IF Time!Leap(x) THEN 1 ELSE 0)
    BY <1>1, <1>2, <2>1
  <2>. QED
    BY <1>1, <1>3, <1>4, <1>5, <1>6, <2>1, <2>2
<1>8. CASE k >= 11
  <2>1. x - 1 = y /\ m <= 2
    BY <1>1, <1>8 DEF Turn
  <2>2. Time!Before(x)[m] + e = d - 305
    BY <1>1, <1>2, <2>1
  <2>. QED
    BY <1>1, <1>3, <1>4, <1>6, <2>1, <2>2
<1>. QED
  BY <1>1, <1>7, <1>8

(* The last day has the last year of four digits.                          *)
LEMMA FourDigits ==
  ASSUME NEW x \in Int, x > 0, NEW m \in 1..12, NEW e \in Nat, e > 0,
         Time!DayNumber(<<x, m, e>>) <= 3652059
  PROVE  x <= 9999
<1>1. PICK bf \in Nat : bf = Time!Before(x)[m]
  <2>1. /\ Time!Before(x)[m] \in Nat
    BY DEF Time!Before
  <2>. QED
    BY <2>1
<1>2. PICK q \in Nat : q = x - 1
  OBVIOUS
<1>3. 365 * q + q \div 4 - q \div 100 + q \div 400 + bf + e <= 3652059
  BY <1>1, <1>2 DEF Time!DayNumber
<1>4. PICK f \in Int, h \in Int, g \in Int :
        f = q \div 4 /\ h = q \div 100 /\ g = q \div 400
        /\ q < 4 * f + 4 /\ 100 * h <= q /\ q < 400 * g + 400
  BY <1>2
<1>5. 365 * q + f - h + g < 3652059
  BY <1>3, <1>4
<1>. QED
  BY <1>2, <1>4, <1>5

(* A year of at most four digits is read as it was written.                *)
LEMMA YearKept ==
  ASSUME NEW y \in Int, y > 0, y <= 9999
  PROVE  Time!YearField(y) = y
<1>1. PICK q \in Int, p \in Int : q = y \div 1000 /\ p = y % 1000 /\ y = 1000 * q + p
                                /\ q >= 0 /\ q <= 9
  OBVIOUS
<1>2. q % 256 = q
  BY <1>1
<1>. QED
  BY <1>1, <1>2 DEF Time!YearField, Time!Abs

(* What put() writes of a day of the years 1 to 9999 is its date, set()    *)
(* reads it back, and dow() is its week day.                               *)
LEMMA DateRight ==
  ASSUME NEW j \in Int, j >= 1721426, j <= 5373484, NEW t, t = Time!Put(j)
  PROVE  /\ t[1] > 0 /\ t[2] \in 1..12 /\ t[3] \in 1..Time!MonthDays(t[1])[t[2]]
         /\ j = 1721425 + Time!DayNumber(t)
         /\ Time!FromText("yyyy/mm/dd", t) = j
         /\ Time!DayOfWeek(j) = Time!DayNumber(t) % 7
<1>1. PICK y, d, k, e : /\ JulianDay(j, y, d, k, e)
                        /\ Time!DateOf(j) = <<y + Turn(k), k + 2 - 12 * Turn(k), e>>
  BY PutCounts
<1>2. /\ y \in Int /\ d \in 0..365 /\ k \in 1..12 /\ e \in 1..31 /\ Dated(d, k, e)
      /\ d = 365 => Time!Leap(y + 1)
      /\ j = 365 * y + LeapDays(y) + d + 1721120
  BY <1>1 DEF JulianDay
<1>3. PICK x \in Int, m \in Int : x = y + Turn(k) /\ m = k + 2 - 12 * Turn(k)
  <2>1. Turn(k) \in Int
    BY DEF Turn
  <2>. QED
    BY <1>2, <2>1
<1>5. y >= 0 /\ (d < 306 => y >= 1)
  <2>1. LeapDays(y) \in Int
    BY <1>2 DEF LeapDays
  <2>2. 365 * y + LeapDays(y) + d >= 306
    BY <1>2, <2>1
  <2>3. Late(y, d)
    BY <2>2 DEF Late
  <2>. QED
    BY <1>2, <2>3, FirstYear
<1>6. x > 0
  <2>1. d < 306 \/ k >= 11
    BY <1>2 DEF Dated
  <2>. QED
    BY <1>2, <1>3, <1>5, <2>1 DEF Turn
<1>7. m \in 1..12 /\ e \in 1..Time!MonthDays(x)[m]
  <2>1. MonthAt(y, x, m, e, d, k)
    <3>1. MonthOf(y, x, m, e, d, k)
      BY <1>2, <1>3 DEF MonthOf
    <3>. QED
      BY <3>1, MonthRight
  <2>. QED
    BY <2>1 DEF MonthAt
<1>8. Time!Julian(x, m, e) = j
  BY <1>1, <1>3, <1>5, <1>6, SetRight
<1>10. Time!DayNumber(<<x, m, e>>) = j - 1721425
  BY <1>1, <1>3, DayRight
<1>12. x <= 9999
  <2>1. e \in Nat /\ e > 0
    BY <1>2
  <2>. QED
    BY <1>6, <1>7, <1>10, <2>1, FourDigits
<1>4. t = <<x, m, e>> /\ t[1] = x /\ t[2] = m /\ t[3] = e
  <2>1. Time!YearField(x) = x
    BY <1>6, <1>12, YearKept
  <2>2. t = <<Time!YearField(x), m, e>>
    BY <1>1, <1>3 DEF Time!Put
  <2>. QED
    BY <2>1, <2>2
<1>9. Time!FromText("yyyy/mm/dd", t) = j
  BY <1>4, <1>8 DEF Time!FromText, Time!YearIn, Time!Layouts
<1>11. (j + 1) % 7 = (j - 1721425) % 7
  OBVIOUS
<1>. QED
  BY <1>4, <1>6, <1>7, <1>9, <1>10, <1>11 DEF Time!DayOfWeek

(* WrapTime leaves a second of the day.                                    *)
LEMMA WrapInDay ==
  ASSUME NEW x \in Int
  PROVE  Time!WrapTime(x) <= 86399
<1>1. CASE x >= 0
  <2>1. PICK q \in Int : q = x \div 86400 /\ 86400 * q <= x /\ x < 86400 * q + 86400
    OBVIOUS
  <2>2. Time!Rem(x, 86400) = x - 86400 * q
    BY <1>1, <2>1 DEF Time!Rem, Time!Quo
  <2>. QED
    BY <2>1, <2>2 DEF Time!WrapTime, Time!Abs, Time!CDay
<1>2. CASE x < 0
  <2>1. PICK q \in Int : q = (-x) \div 86400 /\ 86400 * q <= -x /\ -x < 86400 * q + 86400
    OBVIOUS
  <2>2. Time!Rem(x, 86400) = x + 86400 * q
    <3>1. Time!Quo(x, 86400) = -q
      BY <1>2, <2>1 DEF Time!Quo
    <3>. QED
      BY <2>1, <3>1 DEF Time!Rem
  <2>. QED
    BY <2>1, <2>2 DEF Time!WrapTime, Time!Abs, Time!CDay
<1>. QED
  BY <1>1, <1>2

(* A clock's time is a second of the day.                                  *)
LEMMA ClockInDay ==
  ASSUME NEW t \in Nat \X Nat \X Nat
  PROVE  Time!Clock(t[1], t[2], t[3]) <= 86399
<1>1. t[1] \in Nat /\ t[2] \in Nat /\ t[3] \in Nat
  OBVIOUS
<1>. QED
  BY <1>1 DEF Time!Clock

(* The seconds stay within the day, the moves within their bound.          *)
DayInv == part = "time" => seconds <= 86399 /\ moves <= MaxMoves

(* Every step keeps them so.                                               *)
LEMMA DayStep ==
  ASSUME TimeInv, DayInv, part = "time", Time!Next
  PROVE  seconds' <= 86399 /\ moves' <= MaxMoves
<1>0. /\ moves \in Nat /\ seconds \in Int /\ seconds <= 86399 /\ moves <= MaxMoves
      /\ MaxMoves \in Nat /\ Clocks \subseteq Nat \X Nat \X Nat /\ Seconds \subseteq Int
  BY DateTimeAssumption DEF TimeInv, DayInv, Time!Assumptions
<1>1. ASSUME NEW t \in Dates, NEW l, Time!SetDate(t, l)
      PROVE  seconds' = seconds /\ moves' = 0
  BY <1>1 DEF Time!SetDate
<1>2. ASSUME NEW t \in Clocks, Time!SetTime(t)
      PROVE  seconds' <= 86399 /\ moves' = 0
  BY <1>0, <1>2, ClockInDay DEF Time!SetTime
<1>3. ASSUME NEW n \in Days, Time!MoveDate(n)
      PROVE  seconds' = seconds /\ moves' = moves + 1 /\ moves < MaxMoves
  BY <1>3 DEF Time!MoveDate, Time!Move
<1>4. ASSUME NEW n \in Seconds, Time!MoveTime(n) \/ Time!MoveDateTime(n)
      PROVE  seconds' <= 86399 /\ moves' = moves + 1 /\ moves < MaxMoves
  <2>1. PICK x \in Int : x = seconds + n
    BY <1>0
  <2>2. seconds' = Time!WrapTime(x) /\ moves' = moves + 1 /\ moves < MaxMoves
    BY <1>4, <2>1 DEF Time!MoveTime, Time!MoveDateTime, Time!Move
  <2>. QED
    BY <2>2, WrapInDay
<1>5. ASSUME NEW n \in {-1, 1}, Time!StepDateTime(n)
      PROVE  seconds' <= 86399 /\ moves' = moves + 1 /\ moves < MaxMoves
  <2>1. seconds' = Time!WrapTime(seconds) /\ moves' = moves + 1 /\ moves < MaxMoves
    BY <1>5 DEF Time!StepDateTime, Time!Move
  <2>. QED
    BY <1>0, <2>1, WrapInDay
<1>6. \/ \E t \in Dates : \E l : Time!SetDate(t, l)
      \/ \E t \in Clocks : Time!SetTime(t)
      \/ \E n \in Days : Time!MoveDate(n)
      \/ \E n \in Seconds : Time!MoveTime(n) \/ Time!MoveDateTime(n)
      \/ \E n \in {-1, 1} : Time!StepDateTime(n)
  BY DEF Time!Next
<1>. QED
  BY <1>0, <1>1, <1>2, <1>3, <1>4, <1>5, <1>6

(* They hold of every behaviour.                                           *)
THEOREM DayInvariance == Spec => []DayInv
<1>1. Init => DayInv
  <2>1. ASSUME Time!Init PROVE seconds <= 86399 /\ moves <= MaxMoves
    <3>0. Clocks \subseteq Nat \X Nat \X Nat /\ MaxMoves \in Nat
      BY DateTimeAssumption DEF Time!Assumptions
    <3>1. \A t \in Clocks : Time!Clock(t[1], t[2], t[3]) <= 86399
      BY <3>0, ClockInDay
    <3>2. moves = 0 /\ (seconds = 0 \/ \E t \in Clocks : seconds = Time!Clock(t[1], t[2], t[3]))
      BY <2>1 DEF Time!Init
    <3>. QED
      BY <3>0, <3>1, <3>2
  <2>. QED
    BY <2>1 DEF Init, DayInv
<1>2. TimeInv /\ DayInv /\ [Next]_vars => DayInv'
  <2>1. ASSUME TimeInv, DayInv, Next PROVE DayInv'
    BY <2>1, TextSteps, DayStep DEF DayInv
  <2>2. ASSUME DayInv, UNCHANGED vars PROVE DayInv'
    BY <2>2, TextStutters DEF DayInv
  <2>. QED
    BY <2>1, <2>2
<1>. QED
  BY <1>1, <1>2, TimeInvariance, PTL DEF Spec

(* For any dates set and any offsets moved by, a Date or DateTime of the   *)
(* years 1 to 9999 is written as the day of the Gregorian calendar it has  *)
(* been counted to, read back as the same day, and has that day's week     *)
(* day.                                                                    *)
THEOREM DatesRight == Spec => []CalendarRight
<1>1. TimeInv /\ DayInv => CalendarRight
  <2>. SUFFICES ASSUME TimeInv, DayInv, part = "time" PROVE Time!TypeOK /\ Time!CalendarRight
    BY DEF CalendarRight
  <2>1. Time!TypeOK
    <3>1. MaxMoves \in Nat
      BY DateTimeAssumption DEF Time!Assumptions
    <3>2. /\ class \in {"date", "time", "datetime"} /\ moves \in Nat /\ julian \in Int
          /\ seconds \in Int /\ seconds >= -1 /\ seconds <= 86399 /\ moves <= MaxMoves
      BY DEF TimeInv, DayInv
    <3>3. moves \in 0..MaxMoves
      BY <3>1, <3>2
    <3>. QED
      BY <3>2, <3>3 DEF Time!TypeOK, Time!CDay
  <2>2. Time!CalendarRight
    <3>. SUFFICES ASSUME julian >= 1721426, julian <= 5373484
                  PROVE  LET t == Time!Put(julian)
                         IN /\ t[1] > 0 /\ t[2] \in 1..12 /\ t[3] \in 1..Time!MonthDays(t[1])[t[2]]
                            /\ julian = 1721425 + Time!DayNumber(t)
                            /\ Time!FromText("yyyy/mm/dd", t) = julian
                            /\ Time!DayOfWeek(julian) = Time!DayNumber(t) % 7
      BY DEF Time!CalendarRight, Time!FirstDay, Time!LastDay
    <3>1. julian \in Int
      BY DEF TimeInv
    <3>2. PICK t : t = Time!Put(julian)
      OBVIOUS
    <3>3. /\ t[1] > 0 /\ t[2] \in 1..12 /\ t[3] \in 1..Time!MonthDays(t[1])[t[2]]
          /\ julian = 1721425 + Time!DayNumber(t)
          /\ Time!FromText("yyyy/mm/dd", t) = julian
          /\ Time!DayOfWeek(julian) = Time!DayNumber(t) % 7
      BY <3>1, <3>2, DateRight
    <3>. QED
      BY <3>2, <3>3
  <2>. QED
    BY <2>1, <2>2
<1>. QED
  BY <1>1, TimeInvariance, DayInvariance, PTL
-----------------------------------------------------------------------------
(* The strings: the suite's variables by StringRef's names.                *)
str == s1
buf == s2
own == s3
pasted == s4
USE DEF str, buf, own, pasted

(* What a buffer may hold, and a text of at most n characters.             *)
Letters == Characters \cup {Text!Nul, Text!Junk, Text!Space}
Fits(t, n) == t \in Seq(Letters) /\ Len(t) <= n

(* A part of a text.                                                       *)
LEMMA PartFits ==
  ASSUME NEW t \in Seq(Letters), NEW i \in Nat, i >= 1, NEW j \in Int, j <= Len(t),
         NEW p, p = SubSeq(t, i, j)
  PROVE  p \in Seq(Letters) /\ Len(p) = IF i <= j THEN j - i + 1 ELSE 0
<1>1. \A k \in i..j : t[k] \in Letters
  <2>1. \A k \in i..j : k \in 1..Len(t)
    OBVIOUS
  <2>. QED
    BY <2>1
<1>2. i \in Int /\ j \in Int
  OBVIOUS
<1>. QED
  BY <1>1, <1>2, SubSeqProperties

(* The first Nul is in the text, or there is none.                         *)
LEMMA UptoRange ==
  ASSUME NEW t \in Seq(Letters), NEW c
  PROVE  Text!Upto(t, c) \in 0..Len(t)
<1>0. PICK n \in Nat : n = Len(t)
  OBVIOUS
<1>1. PICK I : I = {i \in 1..n : t[i] = c}
  OBVIOUS
<1>2. Text!Upto(t, c) = IF I # {} THEN Text!Min(I) ELSE 0
  BY <1>0, <1>1 DEF Text!Upto, Text!SelectInSeq
<1>3. I # {} => Text!Min(I) \in I
  <2>0. I \subseteq Nat
    BY <1>0, <1>1
  <2>1. I # {} => \E x \in I : \A y \in I : x <= y
    BY <2>0, LeastNumber
  <2>. QED
    BY <2>1 DEF Text!Min
<1>. QED
  BY <1>0, <1>1, <1>2, <1>3

(* What c_str() shows of a text is no longer.                              *)
LEMMA ShownFits ==
  ASSUME NEW t \in Seq(Letters)
  PROVE  Fits(Text!Shown(t), Len(t))
<1>1. PICK u \in Nat, n \in Nat : u = Text!Upto(t, Text!Nul) /\ n = Len(t) /\ u <= n
  BY UptoRange
<1>2. CASE u = 0
  BY <1>1, <1>2 DEF Text!Shown, Fits
<1>3. CASE u # 0
  <2>0. PICK p : p = SubSeq(t, 1, u - 1)
    OBVIOUS
  <2>1. Text!Shown(t) = p
    BY <1>1, <1>3, <2>0 DEF Text!Shown
  <2>2. u - 1 \in Int /\ u - 1 <= Len(t)
    BY <1>1
  <2>3. p \in Seq(Letters) /\ Len(p) = IF 1 <= u - 1 THEN (u - 1) - 1 + 1 ELSE 0
    BY <2>0, <2>2, PartFits
  <2>. QED
    BY <1>1, <2>1, <2>3 DEF Fits
<1>. QED
  BY <1>2, <1>3

(* The beginning of a text, up to a length.                                *)
LEMMA FitFits ==
  ASSUME NEW t \in Seq(Letters), NEW n \in Nat
  PROVE  Fits(Text!Fit(t, n), n) /\ Len(Text!Fit(t, n)) <= Len(t)
         /\ (Len(t) <= n => Len(Text!Fit(t, n)) = Len(t))
<1>1. PICK m \in Nat, k \in Nat : m = Len(t) /\ k = IF m > n THEN n ELSE m
  OBVIOUS
<1>0. PICK p : p = SubSeq(t, 1, k)
  OBVIOUS
<1>2. Text!Fit(t, n) = p /\ k <= Len(t) /\ k <= n /\ (m <= n => k = m)
  BY <1>0, <1>1 DEF Text!Fit
<1>3. p \in Seq(Letters) /\ Len(p) = IF 1 <= k THEN k - 1 + 1 ELSE 0
  BY <1>0, <1>2, PartFits
<1>. QED
  BY <1>1, <1>2, <1>3 DEF Fits

(* Two texts, one behind the other.                                        *)
LEMMA JoinFits ==
  ASSUME NEW t \in Seq(Letters), NEW u \in Seq(Letters)
  PROVE  t \o u \in Seq(Letters) /\ Len(t \o u) = Len(t) + Len(u)
BY ConcatProperties

(* chop() and trim() leave a part of the text.                             *)
LEMMA ChopFits ==
  ASSUME NEW t \in Seq(Letters)
  PROVE  Fits(Text!ChopText(t), Len(t)) /\ Fits(Text!TrimText(t), Len(t))
<1>0. PICK n \in Nat : n = Len(t)
  OBVIOUS
<1>1. PICK I : I = {i \in 1..n : t[i] \notin {Text!Space, Text!Nul}}
  OBVIOUS
<1>2. I \subseteq 1..n /\ I \subseteq Nat
  BY <1>1
<1>3. I # {} => Text!Min(I) \in I
  <2>1. I # {} => \E x \in I : \A y \in I : x <= y
    BY <1>2, LeastNumber
  <2>. QED
    BY <2>1 DEF Text!Min
<1>4. I # {} => Text!Max(I) \in I
  <2>1. I # {} => \E x \in I : \A y \in I : x >= y
    BY <1>2, GreatestPlace
  <2>. QED
    BY <2>1 DEF Text!Max
<1>5. PICK l, f : /\ l = (IF I # {} THEN Text!Max(I) ELSE 0)
                  /\ f = (IF I # {} THEN Text!Min(I) ELSE 0)
  OBVIOUS
<1>a. l \in Nat /\ l <= n /\ f \in Nat /\ f <= n
  <2>1. CASE I = {}
    BY <1>5, <2>1
  <2>2. CASE I # {}
    <3>1. l \in I /\ f \in I
      BY <1>3, <1>4, <1>5, <2>2
    <3>2. l \in 1..n /\ f \in 1..n
      BY <1>2, <3>1
    <3>. QED
      BY <3>2
  <2>. QED
    BY <2>1, <2>2
<1>b. PICK p, r : p = SubSeq(t, 1, l) /\ r = SubSeq(t, f, n)
  OBVIOUS
<1>6. Text!ChopText(t) = p
  BY <1>0, <1>1, <1>5, <1>b DEF Text!ChopText, Text!SelectLastInSeq
<1>7. Text!TrimText(t) = IF f = 0 THEN <<>> ELSE r
  BY <1>0, <1>1, <1>5, <1>b DEF Text!TrimText, Text!SelectInSeq
<1>8. p \in Seq(Letters) /\ Len(p) = IF 1 <= l THEN l - 1 + 1 ELSE 0
  BY <1>0, <1>a, <1>b, PartFits
<1>9. f # 0 => r \in Seq(Letters) /\ Len(r) = IF f <= n THEN n - f + 1 ELSE 0
  BY <1>0, <1>a, <1>b, PartFits
<1>10. Fits(Text!ChopText(t), Len(t))
  BY <1>0, <1>6, <1>8, <1>a DEF Fits
<1>11. Fits(Text!TrimText(t), Len(t))
  <2>1. CASE f = 0
    BY <1>0, <1>7, <2>1 DEF Fits
  <2>2. CASE f # 0
    BY <1>0, <1>7, <1>9, <1>a, <2>2 DEF Fits
  <2>. QED
    BY <2>1, <2>2
<1>. QED
  BY <1>10, <1>11

(* cut() and clear() leave what is before and behind.                      *)
LEMMA CutFits ==
  ASSUME NEW t \in Seq(Letters), NEW at \in Nat, NEW n \in Nat
  PROVE  Fits(Text!CutText(t, at, n), Len(t)) /\ Fits(Text!ClearText(t, at), Len(t))
<1>0. PICK m \in Nat : m = Len(t)
  OBVIOUS
<1>1. CASE at >= m
  BY <1>0, <1>1 DEF Text!CutText, Text!ClearText, Fits
<1>2. CASE at < m
  <2>0. at <= Len(t) /\ at \in Int
    BY <1>0, <1>2
  <2>1. PICK A : A = SubSeq(t, 1, at)
    OBVIOUS
  <2>2. A \in Seq(Letters) /\ Len(A) = at
    <3>1. A \in Seq(Letters) /\ Len(A) = IF 1 <= at THEN at - 1 + 1 ELSE 0
      BY <2>0, <2>1, PartFits
    <3>. QED
      BY <3>1
  <2>3. Fits(Text!ClearText(t, at), Len(t))
    BY <1>0, <1>2, <2>1, <2>2 DEF Text!ClearText, Fits
  <2>4. CASE n = 0 \/ at + n >= m
    <3>1. Text!CutText(t, at, n) = SubSeq(t, 1, at)
      <4>1. ~(at >= Len(t)) /\ (n = 0 \/ at + n >= Len(t))
        BY <1>0, <1>2, <2>4
      <4>. QED
        BY <4>1, Zenon DEF Text!CutText
    <3>. QED
      BY <1>0, <1>2, <2>1, <2>2, <2>3, <3>1 DEF Fits
  <2>5. CASE ~(n = 0 \/ at + n >= m)
    <3>1. at + n + 1 \in Nat /\ at + n + 1 >= 1 /\ m \in Int /\ m <= Len(t)
      BY <1>0
    <3>2. PICK B : B = SubSeq(t, at + n + 1, m)
      OBVIOUS
    <3>3. B \in Seq(Letters) /\ Len(B) = IF at + n + 1 <= m THEN m - (at + n + 1) + 1 ELSE 0
      BY <3>1, <3>2, PartFits
    <3>4. A \o B \in Seq(Letters) /\ Len(A \o B) = Len(A) + Len(B)
      BY <2>2, <3>3, JoinFits
    <3>5. Text!CutText(t, at, n) = A \o B
      <4>1. ~(at >= Len(t)) /\ ~(n = 0 \/ at + n >= Len(t))
        BY <1>0, <1>2, <2>5
      <4>. QED
        BY <1>0, <2>1, <3>2, <4>1, Zenon DEF Text!CutText
    <3>6. Len(A) + Len(B) <= m
      BY <1>0, <1>2, <2>2, <3>3
    <3>. QED
      BY <1>0, <2>3, <3>4, <3>5, <3>6 DEF Fits
  <2>. QED
    BY <2>4, <2>5
<1>. QED
  BY <1>0, <1>1, <1>2

(* += and -= drop characters.                                              *)
LEMMA IncFits ==
  ASSUME NEW t \in Seq(Letters), NEW n \in Nat
  PROVE  Fits(Text!IncText(t, n), Len(t)) /\ Fits(Text!DecText(t, n), Len(t))
<1>0. PICK m \in Nat, k \in Nat : m = Len(t) /\ k = IF n = 0 THEN 1 ELSE n
  OBVIOUS
<1>1. <<>> \in Seq(Letters) /\ Len(<<>>) = 0
  OBVIOUS
<1>a. PICK p, r : p = SubSeq(t, k + 1, m) /\ r = SubSeq(t, 1, m - 1)
  OBVIOUS
<1>2. Text!IncText(t, n) = IF k >= m THEN <<>> ELSE p
  BY <1>0, <1>a DEF Text!IncText
<1>3. Text!DecText(t, n) = IF t = <<>> \/ n >= m THEN <<>> ELSE r
  BY <1>0, <1>a DEF Text!DecText
<1>4. p \in Seq(Letters) /\ Len(p) = IF k + 1 <= m THEN m - (k + 1) + 1 ELSE 0
  BY <1>0, <1>a, PartFits
<1>5. r \in Seq(Letters) /\ Len(r) = IF 1 <= m - 1 THEN (m - 1) - 1 + 1 ELSE 0
  <2>1. m - 1 \in Int /\ m - 1 <= Len(t)
    BY <1>0
  <2>. QED
    BY <1>a, <2>1, PartFits
<1>6. Fits(Text!IncText(t, n), m)
  BY <1>0, <1>1, <1>2, <1>4 DEF Fits
<1>7. Fits(Text!DecText(t, n), m)
  BY <1>0, <1>1, <1>3, <1>5 DEF Fits
<1>. QED
  BY <1>0, <1>6, <1>7

(* split() puts a Nul, rsplit() leaves the rest, erase() puts Nuls.        *)
LEMMA SplitFits ==
  ASSUME NEW t \in Seq(Letters), NEW at \in Nat
  PROVE  /\ Fits(Text!SplitText(t, at), Len(t)) /\ Fits(Text!RsplitText(t, at), Len(t))
         /\ Fits(Text!EraseText(t), Len(t))
<1>0. PICK m \in Nat : m = Len(t) /\ t \in [1..m -> Letters]
  OBVIOUS
<1>a. Text!Nul \in Letters
  BY DEF Letters
<1>1. Fits(Text!SplitText(t, at), Len(t))
  <2>1. CASE at >= m
    BY <1>0, <2>1 DEF Text!SplitText, Fits
  <2>2. CASE at < m
    <3>1. PICK u : u = [t EXCEPT ![at + 1] = Text!Nul]
      OBVIOUS
    <3>2. u \in [1..m -> Letters]
      BY <1>0, <1>a, <3>1
    <3>3. u \in Seq(Letters) /\ Len(u) = m
      BY <1>0, <3>2
    <3>. QED
      BY <1>0, <2>2, <3>1, <3>3 DEF Text!SplitText, Fits
  <2>. QED
    BY <1>0, <2>1, <2>2
<1>2. Fits(Text!EraseText(t), Len(t))
  <2>1. PICK u : u = [i \in 1..m |-> Text!Nul]
    OBVIOUS
  <2>2. u \in [1..m -> Letters]
    BY <1>a, <2>1
  <2>3. u \in Seq(Letters) /\ Len(u) = m
    BY <1>0, <2>2
  <2>. QED
    BY <1>0, <2>1, <2>3 DEF Text!EraseText, Fits
<1>3. Fits(Text!RsplitText(t, at), Len(t))
  <2>1. CASE at = 0 \/ at > m
    BY <1>0, <2>1 DEF Text!RsplitText, Fits
  <2>2. CASE ~(at = 0 \/ at > m)
    <3>1. PICK B : B = SubSeq(t, at + 1, m)
      OBVIOUS
    <3>2. B \in Seq(Letters) /\ Len(B) = IF at + 1 <= m THEN m - (at + 1) + 1 ELSE 0
      BY <1>0, <3>1, PartFits
    <3>3. Fits(Text!Shown(B), Len(B))
      BY <3>2, ShownFits
    <3>4. Text!RsplitText(t, at) = Text!Shown(B)
      BY <1>0, <2>2, <3>1 DEF Text!RsplitText
    <3>5. PICK C : C = Text!Shown(B)
      OBVIOUS
    <3>6. C \in Seq(Letters) /\ Len(C) <= Len(B)
      BY <3>3, <3>5 DEF Fits
    <3>7. Len(C) <= m
      <4>1. PICK c \in Nat : c = Len(C)
        BY <3>6, LenProperties
      <4>2. PICK l \in Nat : l = Len(B)
        BY <3>2, LenProperties
      <4>3. l = (IF at + 1 <= m THEN m - (at + 1) + 1 ELSE 0) /\ c <= l
        BY <3>2, <3>6, <4>1, <4>2
      <4>4. l <= m
        BY <4>3
      <4>. QED
        BY <4>1, <4>3, <4>4
    <3>. QED
      BY <1>0, <3>4, <3>5, <3>6, <3>7 DEF Fits
  <2>. QED
    BY <2>1, <2>2
<1>. QED
  BY <1>1, <1>2, <1>3

(* fill() lengthens a text to max at most.                                 *)
LEMMA FillFits ==
  ASSUME NEW t \in Seq(Letters), NEW n \in Nat, NEW max \in Nat, Len(t) <= max
  PROVE  Fits(Text!FillText(t, n, max), max)
<1>0. PICK m \in Nat : m = Len(t)
  OBVIOUS
<1>a. m <= max
  BY <1>0
<1>b. (IF n > max - m THEN max - m ELSE n) \in Nat
  BY <1>a
<1>1. PICK k \in Nat : k = (IF n > max - m THEN max - m ELSE n)
  BY <1>b
<1>c. m + k <= max
  BY <1>a, <1>1
<1>2. PICK u : u = [i \in 1..k |-> Text!Space]
  OBVIOUS
<1>3. u \in [1..k -> Letters]
  BY <1>2 DEF Letters
<1>4. u \in Seq(Letters) /\ Len(u) = k
  BY <1>3
<1>5. t \o u \in Seq(Letters) /\ Len(t \o u) = Len(t) + Len(u)
  BY <1>4, JoinFits
<1>6. Text!FillText(t, n, max) = t \o u
  BY <1>0, <1>1, <1>2, Zenon DEF Text!FillText
<1>. QED
  BY <1>0, <1>c, <1>4, <1>5, <1>6 DEF Fits

(* set(offset, text, size) overwrites, and stays within max.               *)
LEMMA OverFits ==
  ASSUME NEW t \in Seq(Letters), NEW at \in Nat, NEW w \in Seq(Letters),
         NEW max \in Nat, Len(t) <= max
  PROVE  Fits(Text!OverText(t, at, w, max), max)
<1>0. PICK m \in Nat : m = Len(t)
  OBVIOUS
<1>1. CASE at >= max \/ at > m
  BY <1>0, <1>1 DEF Text!OverText, Fits
<1>2. CASE ~(at >= max \/ at > m)
  <2>0. PICK r \in Nat : r = max - at /\ r >= 1
    BY <1>0, <1>2
  <2>1. PICK N : N = Text!Fit(w, r)
    OBVIOUS
  <2>2. N \in Seq(Letters) /\ Len(N) <= r
    BY <2>1, FitFits DEF Fits
  <2>3. PICK k \in Nat : k = Len(N)
    BY <2>2, LenProperties
  <2>4. PICK A : A = SubSeq(t, 1, at)
    OBVIOUS
  <2>5. at <= Len(t) /\ at \in Int /\ at <= m
    BY <1>0, <1>2
  <2>6. A \in Seq(Letters) /\ Len(A) = IF 1 <= at THEN at - 1 + 1 ELSE 0
    BY <2>4, <2>5, PartFits
  <2>7. PICK B : B = SubSeq(t, at + k + 1, m)
    OBVIOUS
  <2>8. at + k + 1 \in Nat /\ at + k + 1 >= 1 /\ m \in Int /\ m <= Len(t)
    BY <1>0, <2>3
  <2>9. B \in Seq(Letters) /\ Len(B) = IF at + k + 1 <= m THEN m - (at + k + 1) + 1 ELSE 0
    BY <2>7, <2>8, PartFits
  <2>10. A \o N \in Seq(Letters) /\ Len(A \o N) = Len(A) + Len(N)
    BY <2>2, <2>6, JoinFits
  <2>11. /\ (A \o N) \o B \in Seq(Letters)
         /\ Len((A \o N) \o B) = Len(A \o N) + Len(B)
    BY <2>9, <2>10, JoinFits
  <2>12. Text!OverText(t, at, w, max) = (A \o N) \o B
    <3>1. ~(at >= max \/ at > Len(t))
      BY <1>0, <1>2
    <3>. QED
      BY <1>0, <2>0, <2>1, <2>3, <2>4, <2>7, <3>1, Zenon DEF Text!OverText
  <2>13. PICK x : x = (A \o N) \o B
    OBVIOUS
  <2>14. x \in Seq(Letters) /\ Len(x) = Len(A \o N) + Len(B)
    BY <2>11, <2>13
  <2>15. Len(A) = at /\ Len(N) = k /\ k <= r
    BY <2>2, <2>3, <2>6
  <2>16. Len(A \o N) = at + k
    BY <2>10, <2>15
  <2>17. Len(x) <= max
    <3>1. PICK y \in Nat : y = Len(B)
      BY <2>9, LenProperties
    <3>a. y = IF at + k + 1 <= m THEN m - (at + k + 1) + 1 ELSE 0
      BY <2>9, <3>1
    <3>b. m <= max /\ k <= r
      BY <1>0, <2>15
    <3>2. at + k + y <= max
      BY <2>0, <3>a, <3>b
    <3>. QED
      BY <2>14, <2>16, <3>1, <3>2
  <2>. QED
    BY <2>12, <2>13, <2>14, <2>17 DEF Fits
<1>. QED
  BY <1>1, <1>2

(* The copy that cow() takes is as long as the text.                       *)
LEMMA CopiedFits ==
  ASSUME NEW t \in Seq(Letters)
  PROVE  Text!Copied(t) \in Seq(Letters) /\ Len(Text!Copied(t)) = Len(t)
<1>0. PICK m \in Nat : m = Len(t)
  OBVIOUS
<1>1. t \in [1..m -> Letters] /\ DOMAIN t = 1..m
  BY <1>0
<1>2. Text!Junk \in Letters
  BY DEF Letters
<1>3. PICK u : u = Text!Copied(t)
  OBVIOUS
<1>4. u = [i \in 1..m |-> IF i <= Len(Text!Shown(t)) + 1 THEN t[i] ELSE Text!Junk]
  BY <1>1, <1>3, Zenon DEF Text!Copied
<1>5. u \in [1..m -> Letters]
  BY <1>1, <1>2, <1>4
<1>6. u \in Seq(Letters) /\ Len(u) = m
  BY <1>5
<1>. QED
  BY <1>0, <1>3, <1>6

(* paste() puts one text into another.                                     *)
LEMMA PasteFits ==
  ASSUME NEW x \in Seq(Letters), NEW w \in Seq(Letters), NEW at \in Nat, at < Len(x)
  PROVE  LET p == SubSeq(x, 1, at) \o w \o SubSeq(x, at + 1, Len(x))
         IN p \in Seq(Letters) /\ Len(p) = Len(x) + Len(w)
<1>0. PICK m \in Nat : m = Len(x)
  OBVIOUS
<1>1. PICK A : A = SubSeq(x, 1, at)
  OBVIOUS
<1>2. PICK B : B = SubSeq(x, at + 1, m)
  OBVIOUS
<1>3. at <= Len(x) /\ at \in Int /\ at <= m /\ at + 1 \in Nat /\ at + 1 >= 1 /\ m \in Int /\ m <= Len(x)
  BY <1>0
<1>4. A \in Seq(Letters) /\ Len(A) = IF 1 <= at THEN at - 1 + 1 ELSE 0
  BY <1>1, <1>3, PartFits
<1>5. B \in Seq(Letters) /\ Len(B) = IF at + 1 <= m THEN m - (at + 1) + 1 ELSE 0
  BY <1>2, <1>3, PartFits
<1>6. A \o w \in Seq(Letters) /\ Len(A \o w) = Len(A) + Len(w)
  BY <1>4, JoinFits
<1>7. (A \o w) \o B \in Seq(Letters) /\ Len((A \o w) \o B) = Len(A \o w) + Len(B)
  BY <1>5, <1>6, JoinFits
<1>8. Len(A) = at /\ Len(B) = m - at
  BY <1>0, <1>3, <1>4, <1>5
<1>9. PICK p : p = (A \o w) \o B
  OBVIOUS
<1>10. p \in Seq(Letters) /\ Len(p) = Len(A \o w) + Len(B)
  BY <1>7, <1>9
<1>11. Len(p) = Len(x) + Len(w)
  <2>1. PICK k \in Nat : k = Len(w)
    OBVIOUS
  <2>2. Len(A \o w) = at + k
    BY <1>6, <1>8, <2>1
  <2>3. Len(p) = (at + k) + (m - at)
    BY <1>8, <1>10, <2>2
  <2>4. Len(p) = m + k
    BY <2>3, <1>0, <2>1
  <2>. QED
    BY <1>0, <2>1, <2>4
<1>. QED
  BY <1>0, <1>1, <1>2, <1>9, <1>10, <1>11

Records == [max : Nat, text : Seq(Letters), refs : Nat, live : BOOLEAN, short : {0, 1}]
Users(f, c) == {x \in Strings : f[x] = c}
Uses(f, c) == Cardinality(Users(f, c))

StringTypes ==
  /\ str \in [Strings -> {0} \cup Text!Bufs] /\ buf \in [Text!Bufs -> Records]
  /\ own \in BOOLEAN /\ pasted \in {"no", "memstring"}

(* BuffersRight, and what it takes: a buffer that lives is somebody's, and *)
(* a memstring's was made without a retain().                              *)
Counted ==
  \A c \in Text!Bufs : buf[c].live =>
    buf[c].refs + buf[c].short = Uses(str, c) /\ Uses(str, c) >= 1
Fitting == \A c \in Text!Bufs : buf[c].live => Len(buf[c].text) <= buf[c].max
Hanging == \A x \in Strings : str[x] # 0 /\ ~buf[str[x]].live => buf[str[x]].short = 1
MemsOwn == \A m \in Memstrings : str[m] # 0 /\ buf[str[m]].short = 1
StringRight == StringTypes /\ Counted /\ Fitting /\ Hanging /\ MemsOwn

(* After a paste() into a memstring beyond its size, where all ends.       *)
Beyond(m) == m \in Memstrings /\ Len(buf[str[m]].text) > buf[str[m]].max
Overran ==
  /\ StringTypes /\ Counted /\ Hanging /\ MemsOwn /\ pasted = "memstring"
  /\ \E m \in Strings : Beyond(m) /\
       \A c \in Text!Bufs : buf[c].live /\ c # str[m] => Len(buf[c].text) <= buf[c].max
StringInv == part = "string" => StringRight \/ Overran

(* Cardinality and finiteness are StringRef's.                             *)
LEMMA SameCardinality ==
  \A S : Text!Cardinality(S) = Cardinality(S) /\ (Text!IsFiniteSet(S) <=> IsFiniteSet(S))
BY DEF Text!Cardinality, Cardinality, Text!IsFiniteSet, IsFiniteSet

(* What the constants are, and that there is one buffer more than Strings. *)
LEMMA StringConstants ==
  /\ IsFiniteSet(Strings) /\ Memstrings \subseteq Strings /\ Cardinality(Strings) \in Nat
  /\ MemSize \in Nat /\ Offsets \subseteq Nat /\ \A t \in Texts : t \in Seq(Letters)
  /\ Text!Bufs = 1..(Cardinality(Strings) + 1) /\ 0 \notin Text!Bufs
<1>1. /\ IsFiniteSet(Strings) /\ Memstrings \subseteq Strings
      /\ MemSize \in Nat /\ Offsets \subseteq Nat /\ \A t \in Texts : t \in Seq(Characters)
  BY StringRefAssumption, SameCardinality DEF Text!Assumptions
<1>2. Cardinality(Strings) \in Nat
  BY <1>1, FS_CardinalityType
<1>3. Text!Bufs = 1..(Cardinality(Strings) + 1)
  BY SameCardinality DEF Text!Bufs
<1>4. Characters \subseteq Letters
  BY DEF Letters
<1>5. \A t \in Seq(Characters) : t \in Seq(Letters)
  BY <1>4
<1>. QED
  BY <1>1, <1>2, <1>3, <1>5

(* The Strings that use a buffer: a finite number of them.                 *)
LEMMA UsersFinite ==
  ASSUME NEW f, NEW c
  PROVE  /\ IsFiniteSet(Users(f, c)) /\ Uses(f, c) \in Nat
         /\ (Uses(f, c) = 0 <=> Users(f, c) = {})
<1>1. Users(f, c) \in SUBSET Strings /\ IsFiniteSet(Strings)
  BY StringConstants DEF Users
<1>2. IsFiniteSet(Users(f, c))
  BY <1>1, FS_Subset
<1>. QED
  BY <1>2, FS_CardinalityType, FS_EmptySet DEF Uses

(* One String goes from one buffer to another: what the counts become.     *)
LEMMA UsesChange ==
  ASSUME NEW f, NEW x \in Strings, NEW v, NEW c, NEW g,
         g[x] = v, \A y \in Strings : y # x => g[y] = f[y]
  PROVE  Uses(g, c) = Uses(f, c) + (IF v = c THEN 1 ELSE 0) - (IF f[x] = c THEN 1 ELSE 0)
<1>2. \A y \in Strings : g[y] = IF y = x THEN v ELSE f[y]
  OBVIOUS
<1>3. PICK A, B : A = Users(f, c) /\ B = Users(g, c)
  OBVIOUS
<1>4. IsFiniteSet(A) /\ Cardinality(A) \in Nat
  BY <1>3, UsersFinite DEF Uses
<1>5. (x \in A <=> f[x] = c) /\ (x \in B <=> v = c)
  BY <1>2, <1>3 DEF Users
<1>6. Uses(f, c) = Cardinality(A) /\ Uses(g, c) = Cardinality(B)
  BY <1>3 DEF Uses
<1>7. CASE v = c
  <2>1. B = A \cup {x}
    BY <1>2, <1>3, <1>7 DEF Users
  <2>2. Cardinality(A \cup {x}) = IF x \in A THEN Cardinality(A) ELSE Cardinality(A) + 1
    BY <1>4, FS_AddElement
  <2>. QED
    BY <1>4, <1>5, <1>6, <1>7, <2>1, <2>2
<1>8. CASE v # c
  <2>1. B = A \ {x}
    BY <1>2, <1>3, <1>8 DEF Users
  <2>2. Cardinality(A \ {x}) = IF x \in A THEN Cardinality(A) - 1 ELSE Cardinality(A)
    BY <1>4, FS_RemoveElement
  <2>. QED
    BY <1>4, <1>5, <1>6, <1>8, <2>1, <2>2
<1>. QED
  BY <1>7, <1>8

(* Of two Strings that use a buffer both are counted.                      *)
LEMMA TwoUse ==
  ASSUME NEW f, NEW c, NEW x \in Users(f, c), NEW y \in Users(f, c), x # y
  PROVE  Uses(f, c) >= 2
<1>1. IsFiniteSet(Users(f, c)) /\ Cardinality(Users(f, c)) \in Nat
  BY UsersFinite DEF Uses
<1>2. Cardinality({x}) = 1 /\ IsFiniteSet({x})
  BY FS_Singleton
<1>3. Cardinality({x} \cup {y}) = 2
  BY <1>2, FS_AddElement
<1>4. {x} \cup {y} \in SUBSET Users(f, c)
  OBVIOUS
<1>5. Cardinality({x} \cup {y}) <= Cardinality(Users(f, c))
  BY <1>1, <1>4, FS_Subset
<1>. QED
  BY <1>1, <1>3, <1>5 DEF Uses

(* While no String hangs, a buffer is free, and none uses it: there is one *)
(* more than there are Strings.                                            *)
LEMMA SpareFree ==
  ASSUME StringRight, \A x \in Strings : str[x] # 0 => buf[str[x]].live
  PROVE  /\ Text!Spare \in Text!Bufs /\ ~buf[Text!Spare].live
         /\ \A x \in Strings : str[x] # Text!Spare
<1>1. \E c \in Text!Bufs : ~buf[c].live
  <2>. SUFFICES ASSUME \A c \in Text!Bufs : buf[c].live PROVE FALSE
    OBVIOUS
  <2>1. PICK n \in Nat : n = Cardinality(Strings)
    BY StringConstants
  <2>2. IsFiniteSet(Text!Bufs) /\ Cardinality(Text!Bufs) = n + 1
    <3>1. 1 \in Int /\ n + 1 \in Int /\ ~(1 > n + 1) /\ n + 1 - 1 + 1 = n + 1
      OBVIOUS
    <3>2. IsFiniteSet(1..(n + 1)) /\ Cardinality(1..(n + 1)) = IF 1 > n + 1 THEN 0 ELSE n + 1 - 1 + 1
      BY <3>1, FS_Interval
    <3>. QED
      BY <2>1, <3>1, <3>2, StringConstants
  <2>3. \A c \in Text!Bufs : \E x \in Strings : str[x] = c
    <3>. SUFFICES ASSUME NEW c \in Text!Bufs PROVE Users(str, c) # {}
      BY DEF Users
    <3>1. Uses(str, c) >= 1
      BY DEF StringRight, Counted
    <3>. QED
      BY <3>1, UsersFinite
  <2>4. PICK g : g = [c \in Text!Bufs |-> CHOOSE x \in Strings : str[x] = c]
    OBVIOUS
  <2>5. \A c \in Text!Bufs : g[c] \in Strings /\ str[g[c]] = c
    BY <2>3, <2>4
  <2>6. g \in [Text!Bufs -> Strings]
    BY <2>4, <2>5
  <2>7. Cardinality(Strings) < Cardinality(Text!Bufs)
    BY <2>1, <2>2
  <2>8. \E c, d \in Text!Bufs : c # d /\ g[c] = g[d]
    BY <2>2, <2>6, <2>7, StringConstants, FS_PigeonHole
  <2>. QED
    BY <2>5, <2>8
<1>2. Text!Spare \in Text!Bufs /\ ~buf[Text!Spare].live
  BY <1>1 DEF Text!Spare
<1>. QED
  BY <1>2, StringConstants

NoneHang == \A x \in Strings : str[x] # 0 => buf[str[x]].live

(* What release() leaves of a buffer: another String's stays as it is; the *)
(* String's own loses a count, or is freed under the others' hands.        *)
LEMMA DropLeaves ==
  ASSUME StringRight, NoneHang, NEW s \in Strings, NEW c \in Text!Bufs,
         NEW d, d = Text!Drop(s)[c]
  PROVE  /\ d \in Records
         /\ str[s] # c => d = buf[c]
         /\ str[s] = c /\ buf[c].refs > 1 =>
              d.refs = buf[c].refs - 1 /\ d.live = buf[c].live
         /\ str[s] = c /\ ~(buf[c].refs > 1) => ~d.live
         /\ (\E x \in Strings : x # s /\ str[x] = c) =>
              d.text = buf[c].text /\ d.max = buf[c].max /\ d.short = buf[c].short
         /\ d.live => d.text = buf[c].text /\ d.max = buf[c].max /\ d.short = buf[c].short
<1>0. PICK e : e = buf[c]
  OBVIOUS
<1>1. e \in Records
  BY <1>0 DEF StringRight, StringTypes
<1>2. d = IF c # str[s] THEN e
          ELSE IF e.refs > 1 THEN [e EXCEPT !.refs = @ - 1]
          ELSE IF \E o \in Strings \ {s} : str[o] = c THEN [e EXCEPT !.live = FALSE]
          ELSE Text!NoBuf
  BY <1>0, Zenon DEF Text!Drop
<1>3. CASE c # str[s]
  BY <1>0, <1>1, <1>2, <1>3
<1>4. CASE c = str[s] /\ e.refs > 1
  <2>1. d = [e EXCEPT !.refs = e.refs - 1]
    BY <1>2, <1>4
  <2>2. e.refs - 1 \in Nat
    BY <1>1, <1>4 DEF Records
  <2>3. d \in Records
    BY <1>1, <2>1, <2>2 DEF Records
  <2>. QED
    BY <1>0, <1>1, <1>4, <2>1, <2>3 DEF Records
<1>5. CASE c = str[s] /\ ~(e.refs > 1) /\ \E o \in Strings \ {s} : str[o] = c
  <2>1. d = [e EXCEPT !.live = FALSE]
    BY <1>2, <1>5
  <2>2. d \in Records
    BY <1>1, <2>1 DEF Records
  <2>. QED
    BY <1>0, <1>1, <1>5, <2>1, <2>2 DEF Records
<1>6. CASE c = str[s] /\ ~(e.refs > 1) /\ ~\E o \in Strings \ {s} : str[o] = c
  <2>1. d = Text!NoBuf
    BY <1>2, <1>6
  <2>2. d \in Records /\ ~d.live
    BY <2>1 DEF Text!NoBuf, Records
  <2>. QED
    BY <1>0, <1>6, <2>2
<1>. QED
  BY <1>3, <1>4, <1>5, <1>6

(* A String leaves its buffer for another one, or for none: the counts are *)
(* right again, and what the other Strings show is as it was.              *)
LEMMA StringMoves ==
  ASSUME StringRight, NoneHang, NEW s \in Strings, s \notin Memstrings,
         NEW v \in {0} \cup Text!Bufs, v = 0 \/ v # str[s],
         NEW r,
         v # 0 => /\ r \in Records /\ r.live /\ r.refs + r.short = Uses(str, v) + 1
                  /\ Len(r.text) <= r.max
                  /\ (\E x \in Strings : str[x] = v) => r.text = buf[v].text /\ r.short = buf[v].short,
         str' = [str EXCEPT ![s] = v],
         buf' = [c \in Text!Bufs |-> IF c = v THEN r ELSE Text!Drop(s)[c]],
         own' \in BOOLEAN, pasted' \in {"no", "memstring"}
  PROVE  /\ StringRight'
         /\ \A x \in Strings : x # s => Text!View(x)' = Text!View(x)
<1>0. /\ str \in [Strings -> {0} \cup Text!Bufs] /\ 0 \notin Text!Bufs
      /\ Memstrings \subseteq Strings /\ buf \in [Text!Bufs -> Records]
  BY StringConstants DEF StringRight, StringTypes
<1>1. /\ \A x \in Strings : str'[x] = IF x = s THEN v ELSE str[x]
      /\ str' \in [Strings -> {0} \cup Text!Bufs]
  BY <1>0
<1>2. \A c \in Text!Bufs : buf'[c] = IF c = v THEN r ELSE Text!Drop(s)[c]
  OBVIOUS
<1>3. StringTypes'
  <2>1. \A c \in Text!Bufs : buf'[c] \in Records
    BY <1>0, <1>2, DropLeaves
  <2>2. buf' \in [Text!Bufs -> Records]
    BY <2>1
  <2>. QED
    BY <1>1, <2>2 DEF StringTypes, Text!Bufs
<1>g. PICK g : g = [str EXCEPT ![s] = v] /\ g = str'
  OBVIOUS
<1>a. \A c \in Text!Bufs : Uses(g, c) =
           Uses(str, c) + (IF v = c THEN 1 ELSE 0) - (IF str[s] = c THEN 1 ELSE 0)
  <2>1. PICK f \in [Strings -> {0} \cup Text!Bufs] : f = str
    BY <1>0
  <2>2. g[s] = v /\ \A y \in Strings : y # s => g[y] = f[y]
    BY <1>g, <2>1
  <2>3. \A c : Uses(g, c) = Uses(f, c) + (IF v = c THEN 1 ELSE 0) - (IF f[s] = c THEN 1 ELSE 0)
    BY <2>2, UsesChange, SMTT(40)
  <2>. QED
    BY <2>1, <2>3
<1>b. \A c \in Text!Bufs : Uses(str, c) \in Nat
  BY UsersFinite
<1>4. Counted' /\ Fitting'
  <2>. SUFFICES ASSUME NEW c \in Text!Bufs, buf'[c].live
                PROVE  /\ buf'[c].refs + buf'[c].short = Uses(g, c) /\ Uses(g, c) >= 1
                       /\ Len(buf'[c].text) <= buf'[c].max
    BY <1>g, ZenonT(60) DEF Counted, Fitting, Uses, Users, Text!Bufs
  <2>b. PICK w : w = Uses(g, c)
    OBVIOUS
  <2>c. PICK u \in Nat : u = Uses(str, c)
    BY <1>b
  <2>0. u = Uses(str, c) /\ w = Uses(g, c)
    BY <2>b, <2>c
  <2>a. w = u + (IF v = c THEN 1 ELSE 0) - (IF str[s] = c THEN 1 ELSE 0)
    BY <1>a, <2>0
  <2>1. CASE c = v
    <3>1. v # 0 /\ str[s] # v /\ w = u + 1 /\ buf'[c] = r
      BY <1>0, <1>2, <2>a, <2>1
    <3>. QED
      BY <2>0, <2>1, <3>1
  <2>2. CASE c # v
    <3>1. PICK d, e : d = Text!Drop(s)[c] /\ e = buf[c]
      OBVIOUS
    <3>2. buf'[c] = d /\ d.live
      BY <1>2, <2>2, <3>1
    <3>3. /\ d \in Records
          /\ str[s] # c => d = e
          /\ str[s] = c /\ e.refs > 1 => d.refs = e.refs - 1 /\ d.live = e.live
          /\ str[s] = c /\ ~(e.refs > 1) => ~d.live
          /\ d.live => d.text = e.text /\ d.max = e.max /\ d.short = e.short
      BY <3>1, DropLeaves
    <3>4. e \in Records
      BY <1>0, <3>1
    <3>5. e.live => e.refs + e.short = u /\ u >= 1 /\ Len(e.text) <= e.max
      BY <2>0, <3>1 DEF StringRight, Counted, Fitting
    <3>6. CASE str[s] # c
      <4>1. d = e /\ w = u
        BY <2>a, <2>2, <3>3, <3>6
      <4>. QED
        BY <2>0, <3>2, <3>5, <4>1
    <3>7. CASE str[s] = c
      <4>1. e.refs > 1 /\ d.refs = e.refs - 1 /\ e.live /\ d.short = e.short /\ d.text = e.text /\ d.max = e.max
        BY <3>2, <3>3, <3>7
      <4>2. e.refs \in Nat /\ e.short \in {0, 1}
        BY <3>4 DEF Records
      <4>3. w = u - 1 /\ e.refs + e.short = u /\ Len(e.text) <= e.max
        BY <2>a, <2>2, <3>5, <3>7, <4>1
      <4>4. d.refs + d.short = w /\ w >= 1 /\ Len(d.text) <= d.max
        BY <4>1, <4>2, <4>3
      <4>. QED
        BY <2>0, <3>2, <4>4
    <3>. QED
      BY <3>6, <3>7
  <2>. QED
    BY <2>1, <2>2
<1>5. ASSUME NEW x \in Strings, x # s, str[x] # 0
      PROVE  /\ str'[x] = str[x] /\ buf'[str[x]].text = buf[str[x]].text
             /\ buf'[str[x]].short = buf[str[x]].short
  <2>1. PICK c : c = str[x]
    OBVIOUS
  <2>2. c \in Text!Bufs /\ str'[x] = c
    BY <1>0, <1>1, <1>5, <2>1
  <2>3. CASE c = v
    BY <1>0, <1>2, <2>1, <2>2, <2>3
  <2>4. CASE c # v
    <3>1. PICK d : d = Text!Drop(s)[c]
      OBVIOUS
    <3>2. d.text = buf[c].text /\ d.short = buf[c].short
      BY <1>5, <2>1, <2>2, <3>1, DropLeaves
    <3>. QED
      BY <1>2, <2>1, <2>2, <2>4, <3>1, <3>2
  <2>. QED
    BY <2>3, <2>4
<1>6. Hanging'
  <2>. SUFFICES ASSUME NEW x \in Strings, str'[x] # 0, ~buf'[str'[x]].live
                PROVE  buf'[str'[x]].short = 1
    BY DEF Hanging
  <2>1. CASE x = s
    BY <1>0, <1>1, <1>2, <2>1
  <2>2. CASE x # s
    <3>1. PICK c, e : c = str[x] /\ e = buf[c]
      OBVIOUS
    <3>2. c \in Text!Bufs /\ str'[x] = c
      BY <1>0, <1>1, <2>2, <3>1
    <3>3. e.live /\ buf'[c].short = e.short
      BY <1>1, <1>5, <2>2, <3>1, <3>2 DEF NoneHang
    <3>4. e \in Records /\ e.refs \in Nat /\ e.short \in {0, 1}
      BY <1>0, <3>1, <3>2 DEF Records
    <3>5. PICK d : d = Text!Drop(s)[c]
      OBVIOUS
    <3>6. c # v
      BY <1>0, <1>2, <3>2
    <3>7. ~d.live
      BY <1>2, <3>2, <3>5, <3>6
    <3>8. str[s] = c /\ ~(e.refs > 1)
      <4>1. /\ str[s] # c => d = e
            /\ str[s] = c /\ e.refs > 1 => d.live = e.live
        BY <3>1, <3>2, <3>5, DropLeaves
      <4>. QED
        BY <3>3, <3>7, <4>1
    <3>9. Uses(str, c) >= 2
      <4>1. x \in Users(str, c) /\ s \in Users(str, c)
        BY <3>1, <3>8 DEF Users
      <4>. QED
        BY <2>2, <4>1, TwoUse
    <3>10. e.refs + e.short = Uses(str, c)
      BY <3>1, <3>2, <3>3 DEF StringRight, Counted
    <3>. QED
      BY <1>b, <3>2, <3>3, <3>4, <3>8, <3>9, <3>10
  <2>. QED
    BY <2>1, <2>2
<1>7. MemsOwn'
  <2>. SUFFICES ASSUME NEW m \in Memstrings PROVE str'[m] # 0 /\ buf'[str'[m]].short = 1
    BY DEF MemsOwn
  <2>1. str[m] # 0 /\ buf[str[m]].short = 1 /\ m # s /\ m \in Strings
    BY <1>0 DEF StringRight, MemsOwn
  <2>. QED
    BY <1>5, <2>1
<1>8. ASSUME NEW x \in Strings, x # s PROVE Text!View(x)' = Text!View(x)
  <2>1. str'[x] = str[x]
    BY <1>1, <1>8
  <2>2. str[x] # 0 => buf'[str'[x]].text = buf[str[x]].text
    BY <1>5, <1>8, <2>1
  <2>. QED
    BY <2>1, <2>2 DEF Text!View
<1>. QED
  BY <1>3, <1>4, <1>6, <1>7, <1>8 DEF StringRight

(* A new buffer, counted or not.                                           *)
LEMMA FreshKept ==
  ASSUME StringRight, NoneHang, NEW s \in Strings, s \notin Memstrings,
         NEW max \in Nat, NEW t, Fits(t, max), own' \in BOOLEAN, pasted' \in {"no", "memstring"},
         Text!Fresh(s, max, t) \/ (max = Len(t) /\ Text!FreshUncounted(s, t))
  PROVE  /\ StringRight'
         /\ \A x \in Strings : x # s => Text!View(x)' = Text!View(x)
<1>1. PICK n \in {0, 1} : /\ str' = [str EXCEPT ![s] = Text!Spare]
                          /\ buf' = [Text!Drop(s) EXCEPT ![Text!Spare] = Text!Buf(max, t, n)]
  <2>1. CASE Text!Fresh(s, max, t)
    BY <2>1, Zenon DEF Text!Fresh
  <2>2. CASE max = Len(t) /\ Text!FreshUncounted(s, t)
    BY <2>2, Zenon DEF Text!FreshUncounted
  <2>. QED
    BY <2>1, <2>2
<1>2. PICK r : r = Text!Buf(max, t, n)
  OBVIOUS
<1>3. r \in Records /\ r.live /\ r.refs + r.short = 1 /\ Len(r.text) <= r.max
  BY <1>2 DEF Text!Buf, Records, Fits
<1>4. PICK v : v = Text!Spare
  OBVIOUS
<1>5. v \in Text!Bufs /\ \A x \in Strings : str[x] # v
  BY <1>4, SpareFree DEF NoneHang
<1>6. Uses(str, v) = 0
  BY <1>5, UsersFinite DEF Users
<1>7. DOMAIN Text!Drop(s) = Text!Bufs
  BY DEF Text!Drop
<1>8. buf' = [c \in Text!Bufs |-> IF c = v THEN r ELSE Text!Drop(s)[c]]
  BY <1>1, <1>2, <1>4, <1>7
<1>9. str' = [str EXCEPT ![s] = v]
  BY <1>1, <1>4
<1>10. r.refs + r.short = Uses(str, v) + 1
  BY <1>3, <1>6
<1>. QED
  BY <1>3, <1>5, <1>8, <1>9, <1>10, StringMoves

(* A buffer shared, or left for none.                                      *)
LEMMA ShareKept ==
  ASSUME StringRight, NoneHang, NEW s \in Strings, s \notin Memstrings,
         NEW v \in {0} \cup Text!Bufs, v = 0 \/ v # str[s],
         v # 0 => \E x \in Strings : str[x] = v, own' \in BOOLEAN, pasted' \in {"no", "memstring"},
         NEW r, r = [buf[v] EXCEPT !.refs = @ + 1],
         str' = [str EXCEPT ![s] = v],
         buf' = [c \in Text!Bufs |-> IF c = v THEN r ELSE Text!Drop(s)[c]]
  PROVE  /\ StringRight'
         /\ \A x \in Strings : x # s => Text!View(x)' = Text!View(x)
<1>1. PICK e : e = buf[v] /\ r = [e EXCEPT !.refs = e.refs + 1]
  OBVIOUS
<1>2. ASSUME v # 0
      PROVE  /\ r \in Records /\ r.live /\ r.refs + r.short = Uses(str, v) + 1
             /\ Len(r.text) <= r.max /\ r.text = buf[v].text /\ r.short = buf[v].short
  <2>1. v \in Text!Bufs /\ e.live
    BY <1>1, <1>2 DEF NoneHang
  <2>2. e \in Records
    BY <1>1, <2>1 DEF StringRight, StringTypes
  <2>3. e.refs + e.short = Uses(str, v) /\ Len(e.text) <= e.max
    BY <1>1, <2>1 DEF StringRight, Counted, Fitting
  <2>4. e.refs \in Nat /\ e.short \in {0, 1}
    BY <2>2 DEF Records
  <2>5. /\ r \in Records /\ r.refs = e.refs + 1 /\ r.short = e.short /\ r.live = e.live
        /\ r.text = e.text /\ r.max = e.max
    BY <1>1, <2>2, <2>4 DEF Records
  <2>6. r.refs + r.short = Uses(str, v) + 1
    BY <2>3, <2>4, <2>5
  <2>. QED
    BY <1>1, <2>1, <2>3, <2>5, <2>6
<1>3. v # 0 => /\ r \in Records /\ r.live /\ r.refs + r.short = Uses(str, v) + 1
               /\ Len(r.text) <= r.max
               /\ (\E x \in Strings : str[x] = v) => r.text = buf[v].text /\ r.short = buf[v].short
  BY <1>2
<1>. QED
  BY <1>3, StringMoves, ZenonT(60)

(* A change of the text where it is.                                       *)
LEMMA StoreLeaves ==
  ASSUME StringRight, NoneHang, NEW s \in Strings, str[s] # 0, NEW t,
         t \in Seq(Letters), Text!Store(s, t), own' \in BOOLEAN,
         pasted' \in {"no", "memstring"}
  PROVE  /\ StringTypes' /\ Counted' /\ Hanging' /\ MemsOwn'
         /\ \A d \in Text!Bufs : buf'[d].live = buf[d].live
         /\ \A d \in Text!Bufs : buf'[d].live =>
              IF d = str[s] THEN buf'[d].text = t /\ buf'[d].max = Text!Limit(s)
              ELSE Len(buf'[d].text) <= buf'[d].max
         /\ str' = str
         /\ \A x \in Strings : Text!View(x)' # Text!View(x) => str[x] = str[s]
<1>0. /\ str \in [Strings -> {0} \cup Text!Bufs] /\ 0 \notin Text!Bufs
      /\ Memstrings \subseteq Strings /\ buf \in [Text!Bufs -> Records]
  BY StringConstants DEF StringRight, StringTypes
<1>1. PICK c, e, r : c = str[s] /\ e = buf[c] /\ r = [e EXCEPT !.text = t]
  OBVIOUS
<1>2. c \in Text!Bufs /\ e \in Records
  BY <1>0, <1>1
<1>3. e.max = Text!Limit(s)
  BY <1>1 DEF Text!Limit
<1>4. /\ r \in Records /\ r.refs = e.refs /\ r.short = e.short /\ r.live = e.live
      /\ r.max = e.max /\ r.text = t
  BY <1>1, <1>2, <1>3 DEF Records
<1>5. str' = str /\ buf' = [buf EXCEPT ![c] = r]
  BY <1>1, Zenon DEF Text!Store
<1>6. /\ buf' \in [Text!Bufs -> Records]
      /\ \A d \in Text!Bufs : buf'[d] = IF d = c THEN r ELSE buf[d]
  BY <1>0, <1>2, <1>4, <1>5
<1>7. \A d \in Text!Bufs : /\ buf'[d].refs = buf[d].refs /\ buf'[d].short = buf[d].short
                           /\ buf'[d].live = buf[d].live /\ buf'[d].max = buf[d].max
  BY <1>1, <1>4, <1>6
<1>8. StringTypes'
  BY <1>0, <1>5, <1>6 DEF StringTypes, Text!Bufs
<1>9. Counted'
  <2>. SUFFICES ASSUME NEW d \in Text!Bufs, buf'[d].live
                PROVE  buf'[d].refs + buf'[d].short = Uses(str, d) /\ Uses(str, d) >= 1
    BY <1>5 DEF Counted, Uses, Users, Text!Bufs
  <2>. QED
    BY <1>7 DEF StringRight, Counted
<1>10. ASSUME NEW d \in Text!Bufs, buf'[d].live
       PROVE  IF d = c THEN buf'[d].text = t /\ buf'[d].max = Text!Limit(s)
              ELSE Len(buf'[d].text) <= buf'[d].max
  <2>1. CASE d = c
    BY <1>3, <1>4, <1>6, <2>1
  <2>2. CASE d # c
    BY <1>6, <1>10, <2>2 DEF StringRight, Fitting
  <2>. QED
    BY <2>1, <2>2
<1>11. Hanging' /\ MemsOwn'
  <2>1. \A x \in Strings : str'[x] = str[x] /\ str[x] \in {0} \cup Text!Bufs
    BY <1>0, <1>5
  <2>2. Hanging'
    <3>. SUFFICES ASSUME NEW x \in Strings, str'[x] # 0, ~buf'[str'[x]].live
                  PROVE  buf'[str'[x]].short = 1
      BY DEF Hanging
    <3>. QED
      BY <1>7, <2>1 DEF StringRight, Hanging
  <2>3. MemsOwn'
    <3>. SUFFICES ASSUME NEW m \in Memstrings PROVE str'[m] # 0 /\ buf'[str'[m]].short = 1
      BY DEF MemsOwn
    <3>. QED
      BY <1>0, <1>7, <2>1 DEF StringRight, MemsOwn
  <2>. QED
    BY <2>2, <2>3
<1>12. ASSUME NEW x \in Strings, str[x] # str[s] PROVE Text!View(x)' = Text!View(x)
  <2>1. str'[x] = str[x] /\ (str[x] # 0 => buf'[str'[x]].text = buf[str[x]].text)
    BY <1>0, <1>1, <1>5, <1>6, <1>12
  <2>. QED
    BY <2>1 DEF Text!View
<1>. QED
  BY <1>1, <1>5, <1>7, <1>8, <1>9, <1>10, <1>11, <1>12

(* One that fits.                                                          *)
LEMMA StoreKept ==
  ASSUME StringRight, NoneHang, NEW s \in Strings, str[s] # 0, NEW t,
         Fits(t, Text!Limit(s)), Text!Store(s, t), own' \in BOOLEAN,
         pasted' \in {"no", "memstring"}
  PROVE  /\ StringRight'
         /\ \A x \in Strings : Text!View(x)' # Text!View(x) => str[x] = str[s]
<1>1. t \in Seq(Letters) /\ Len(t) <= Text!Limit(s)
  BY DEF Fits
<1>2. /\ StringTypes' /\ Counted' /\ Hanging' /\ MemsOwn'
      /\ \A d \in Text!Bufs : buf'[d].live =>
           IF d = str[s] THEN buf'[d].text = t /\ buf'[d].max = Text!Limit(s)
           ELSE Len(buf'[d].text) <= buf'[d].max
      /\ \A x \in Strings : Text!View(x)' # Text!View(x) => str[x] = str[s]
  BY <1>1, StoreLeaves
<1>3. Fitting'
  BY <1>1, <1>2 DEF Fitting, Text!Bufs
<1>. QED
  BY <1>2, <1>3 DEF StringRight

(* Two Strings swap their buffers.                                         *)
LEMMA SwapKept ==
  ASSUME StringRight, NoneHang, NEW s \in Strings, NEW o \in Strings, Text!Swap(s, o)
  PROVE  StringRight' /\ own' = FALSE /\ pasted' = "no"
<1>0. /\ str \in [Strings -> {0} \cup Text!Bufs] /\ 0 \notin Text!Bufs
      /\ Memstrings \subseteq Strings /\ buf \in [Text!Bufs -> Records]
  BY StringConstants DEF StringRight, StringTypes
<1>1. /\ str' = [str EXCEPT ![s] = str[o], ![o] = str[s]] /\ buf' = buf /\ own' = FALSE /\ pasted' = "no"
      /\ s # o /\ s \notin Memstrings /\ o \notin Memstrings
  BY DEF Text!Swap, Text!Done
<1>2. PICK f, h, g : f = str /\ h = [str EXCEPT ![s] = str[o]] /\ g = str'
  OBVIOUS
<1>3. /\ h[s] = f[o] /\ \A y \in Strings : y # s => h[y] = f[y]
      /\ g[o] = f[s] /\ \A y \in Strings : y # o => g[y] = h[y]
  BY <1>0, <1>1, <1>2
<1>4. \A c : Uses(h, c) = Uses(f, c) + (IF f[o] = c THEN 1 ELSE 0) - (IF f[s] = c THEN 1 ELSE 0)
  BY <1>3, UsesChange
<1>5. \A c : Uses(g, c) = Uses(h, c) + (IF f[s] = c THEN 1 ELSE 0) - (IF h[o] = c THEN 1 ELSE 0)
  BY <1>3, UsesChange
<1>6. \A c : Uses(g, c) = Uses(f, c)
  <2>. SUFFICES ASSUME NEW c PROVE Uses(g, c) = Uses(f, c)
    OBVIOUS
  <2>1. Uses(f, c) \in Nat /\ Uses(h, c) \in Nat /\ h[o] = f[o]
    BY <1>1, <1>3, UsersFinite
  <2>. QED
    BY <1>4, <1>5, <2>1
<1>7. \A x \in Strings : str'[x] \in {0} \cup Text!Bufs /\ \E y \in Strings : str'[x] = str[y]
  BY <1>0, <1>1
<1>8. StringTypes'
  <2>1. str' \in [Strings -> {0} \cup Text!Bufs]
    BY <1>0, <1>1
  <2>. QED
    BY <1>0, <1>1, <2>1 DEF StringTypes, Text!Bufs
<1>9. Counted' /\ Fitting'
  <2>. SUFFICES ASSUME NEW c \in Text!Bufs, buf[c].live
                PROVE  /\ buf[c].refs + buf[c].short = Uses(g, c) /\ Uses(g, c) >= 1
                       /\ Len(buf[c].text) <= buf[c].max
    BY <1>1, <1>2 DEF Counted, Fitting, Uses, Users, Text!Bufs
  <2>. QED
    BY <1>2, <1>6 DEF StringRight, Counted, Fitting
<1>10. Hanging'
  BY <1>1, <1>7 DEF NoneHang, Hanging
<1>11. MemsOwn'
  <2>1. \A m \in Memstrings : str'[m] = str[m]
    BY <1>0, <1>1
  <2>. QED
    BY <1>1, <2>1 DEF StringRight, MemsOwn
<1>. QED
  BY <1>1, <1>8, <1>9, <1>10, <1>11 DEF StringRight

(* A step after which one String only can show another text.               *)
LEMMA OneChanges ==
  ASSUME NEW s \in Strings, \A x \in Strings : x # s => Text!View(x)' = Text!View(x)
  PROVE  Text!OwnedChangesApart
BY DEF Text!OwnedChangesApart

(* A text of a length is one of a larger length.                           *)
LEMMA FitsMore ==
  ASSUME NEW t, NEW m \in Nat, NEW n \in Nat, Fits(t, m), m <= n
  PROVE  Fits(t, n)
<1>1. t \in Seq(Letters) /\ Len(t) <= m
  BY DEF Fits
<1>2. Len(t) \in Nat
  BY <1>1
<1>. QED
  BY <1>1, <1>2 DEF Fits

(* The text and the size of a String's buffer, while none hangs.           *)
LEMMA BufferOf ==
  ASSUME StringRight, NoneHang, NEW s \in Strings, str[s] # 0
  PROVE  /\ str[s] \in Text!Bufs /\ Text!Text(s) \in Seq(Letters) /\ Text!Limit(s) \in Nat
         /\ Len(Text!Text(s)) <= Text!Limit(s) /\ Text!View(s) \in Seq(Letters)
         /\ buf[str[s]].refs \in Nat /\ buf[str[s]].short \in {0, 1}
         /\ buf[str[s]].refs + buf[str[s]].short = Uses(str, str[s])
<1>1. PICK c, e : c = str[s] /\ e = buf[c]
  OBVIOUS
<1>2. c \in Text!Bufs /\ e \in Records /\ e.live
  BY <1>1 DEF StringRight, StringTypes, NoneHang
<1>3. e.text \in Seq(Letters) /\ e.max \in Nat /\ e.refs \in Nat /\ e.short \in {0, 1}
  BY <1>2 DEF Records
<1>4. Len(e.text) <= e.max /\ e.refs + e.short = Uses(str, c)
  BY <1>1, <1>2 DEF StringRight, Fitting, Counted
<1>5. Text!Shown(e.text) \in Seq(Letters)
  BY <1>3, ShownFits DEF Fits
<1>. QED
  BY <1>1, <1>2, <1>3, <1>4, <1>5 DEF Text!Text, Text!Limit, Text!View

(* An operation that owns the text changes it where it is only in a        *)
(* memstring, or when nobody else is counted.                              *)
LEMMA OwnApart ==
  ASSUME StringRight, NoneHang, NEW s \in Strings, str[s] # 0,
         own' => s \in Memstrings \/ ~(buf[str[s]].refs > 1),
         \A x \in Strings : Text!View(x)' # Text!View(x) => str[x] = str[s]
  PROVE  Text!OwnedChangesApart
<1>2. ASSUME own', NEW x \in Strings, NEW y \in Strings, x # y,
             Text!View(x)' # Text!View(x), Text!View(y)' # Text!View(y)
      PROVE  str[x] # 0 /\ str[x] = str[y] /\ buf[str[x]].short = 1
  <2>1. str[x] = str[s] /\ str[y] = str[s]
    BY <1>2
  <2>2. CASE s \in Memstrings
    BY <2>1, <2>2 DEF StringRight, MemsOwn
  <2>3. CASE ~(buf[str[s]].refs > 1)
    <3>1. Uses(str, str[s]) >= 2
      <4>1. x \in Users(str, str[s]) /\ y \in Users(str, str[s])
        BY <2>1 DEF Users
      <4>. QED
        BY <1>2, <4>1, TwoUse
    <3>2. /\ buf[str[s]].refs \in Nat /\ buf[str[s]].short \in {0, 1}
          /\ buf[str[s]].refs + buf[str[s]].short = Uses(str, str[s])
      BY BufferOf
    <3>3. buf[str[s]].short = 1
      BY <2>3, <3>1, <3>2
    <3>. QED
      BY <2>1, <3>3
  <2>. QED
    BY <1>2, <2>2, <2>3
<1>3. Text!OwnedChangesApart
  <2>. SUFFICES ASSUME own', NEW x \in Strings, NEW y \in Strings, x # y,
                       Text!View(x)' # Text!View(x), Text!View(y)' # Text!View(y)
                PROVE  str[x] # 0 /\ str[x] = str[y] /\ buf[str[x]].short = 1
    BY DEF Text!OwnedChangesApart
  <2>. QED
    BY <1>2
<1>. QED
  BY <1>3

(* And a text that fits keeps all right.                                   *)
LEMMA OwnStore ==
  ASSUME StringRight, NoneHang, NEW s \in Strings, str[s] # 0, NEW t,
         Fits(t, Text!Limit(s)), Text!Store(s, t), own' \in BOOLEAN,
         pasted' \in {"no", "memstring"},
         own' => s \in Memstrings \/ ~(buf[str[s]].refs > 1)
  PROVE  StringRight' /\ Text!OwnedChangesApart
BY StoreKept, OwnApart

(* set(), = of a C string and fill() of a String without a buffer.         *)
LEMMA SetKept ==
  ASSUME StringRight, NoneHang, NEW s \in Strings, NEW t \in Texts,
         Text!Set(s, t) \/ Text!AssignText(s, t)
  PROVE  StringRight' /\ Text!OwnedChangesApart
<1>1. PICK n \in Nat : n = Len(t)
  BY StringConstants
<1>2. t \in Seq(Letters) /\ Fits(t, n)
  BY <1>1, StringConstants DEF Fits
<1>3. s \in Memstrings => str[s] # 0
  BY DEF StringRight, MemsOwn
<1>4. str[s] # 0 => Fits(Text!Fit(t, Text!Limit(s)), Text!Limit(s))
  BY <1>2, BufferOf, FitFits
<1>5. ASSUME Text!Fresh(s, n, t), s \notin Memstrings, own' \in BOOLEAN, pasted' = "no"
      PROVE  StringRight' /\ Text!OwnedChangesApart
  BY <1>2, <1>5, FreshKept, OneChanges
<1>6. ASSUME Text!Store(s, Text!Fit(t, Text!Limit(s))), str[s] # 0, own' \in BOOLEAN,
             pasted' = "no", own' => s \in Memstrings
      PROVE  StringRight' /\ Text!OwnedChangesApart
  BY <1>4, <1>6, OwnStore
<1>7. CASE Text!Set(s, t)
  <2>1. /\ IF str[s] = 0 THEN Text!Fresh(s, n, t) ELSE Text!Store(s, Text!Fit(t, Text!Limit(s)))
        /\ own' = (str[s] = 0) /\ pasted' = "no"
    BY <1>1, <1>7, Zenon DEF Text!Set, Text!SetTo, Text!Done
  <2>. QED
    BY <1>3, <1>5, <1>6, <2>1
<1>8. CASE Text!AssignText(s, t)
  <2>1. /\ IF s \in Memstrings THEN Text!Store(s, Text!Fit(t, Text!Limit(s)))
                               ELSE Text!Fresh(s, n, t)
        /\ own' = TRUE /\ pasted' = "no"
    BY <1>1, <1>8, Zenon DEF Text!AssignText, Text!Done
  <2>. QED
    BY <1>3, <1>5, <1>6, <2>1
<1>. QED
  BY <1>7, <1>8

(* = of a String: share its buffer, or take its text into a memstring's.   *)
LEMMA AssignKept ==
  ASSUME StringRight, NoneHang, NEW s \in Strings, NEW o \in Strings, Text!AssignString(s, o)
  PROVE  StringRight' /\ Text!OwnedChangesApart
<1>1. s # o /\ own' = TRUE /\ pasted' = "no"
  BY DEF Text!AssignString, Text!Done
<1>2. CASE s \in Memstrings
  <2>1. str[s] # 0
    BY <1>2 DEF StringRight, MemsOwn
  <2>2. PICK t : t = Text!View(o)
    OBVIOUS
  <2>3. t \in Seq(Letters)
    BY <2>2, BufferOf DEF Text!View
  <2>4. Fits(Text!Fit(t, Text!Limit(s)), Text!Limit(s))
    BY <2>1, <2>3, BufferOf, FitFits
  <2>5. Text!Store(s, Text!Fit(t, Text!Limit(s)))
    BY <1>2, <2>2, Zenon DEF Text!AssignString
  <2>. QED
    BY <1>1, <1>2, <2>1, <2>4, <2>5, OwnStore
<1>3. CASE s \notin Memstrings /\ str[s] = str[o]
  <2>1. str' = str /\ buf' = buf
    BY <1>3, Zenon DEF Text!AssignString
  <2>2. StringRight'
    BY <1>1, <2>1 DEF StringRight, StringTypes, Counted, Fitting, Hanging, MemsOwn, Uses, Users, Text!Bufs
  <2>3. \A x \in Strings : x # s => Text!View(x)' = Text!View(x)
    BY <2>1 DEF Text!View
  <2>. QED
    BY <2>2, <2>3, OneChanges
<1>4. CASE s \notin Memstrings /\ str[s] # str[o]
  <2>1. PICK v \in {0} \cup Text!Bufs : v = str[o]
    BY DEF StringRight, StringTypes
  <2>2. PICK r : r = [buf[v] EXCEPT !.refs = @ + 1]
    OBVIOUS
  <2>3. str' = [str EXCEPT ![s] = v]
    BY <1>4, <2>1, Zenon DEF Text!AssignString
  <2>a. buf' = [c \in Text!Bufs |-> IF c = v THEN [buf[c] EXCEPT !.refs = @ + 1]
                                     ELSE Text!Drop(s)[c]]
    BY <1>4, <2>1, Zenon DEF Text!AssignString
  <2>4. buf' = [c \in Text!Bufs |-> IF c = v THEN r ELSE Text!Drop(s)[c]]
    BY <2>2, <2>a
  <2>5. /\ StringRight'
        /\ \A x \in Strings : x # s => Text!View(x)' = Text!View(x)
    BY <1>1, <1>4, <2>1, <2>2, <2>3, <2>4, ShareKept
  <2>. QED
    BY <2>5, OneChanges
<1>. QED
  BY <1>2, <1>3, <1>4

(* The copy constructor.                                                   *)
LEMMA CopyKept ==
  ASSUME StringRight, NoneHang, NEW s \in Strings, NEW o \in Strings, Text!CopyString(s, o)
  PROVE  StringRight' /\ Text!OwnedChangesApart
<1>1. s # o /\ own' = TRUE /\ pasted' = "no" /\ s \notin Memstrings /\ str[s] = 0
  BY DEF Text!CopyString, Text!Done
<1>2. CASE o \in Memstrings
  <2>1. str[o] # 0
    BY <1>2 DEF StringRight, MemsOwn
  <2>2. PICK t, n : t = Text!View(o) /\ n = Text!Limit(o)
    OBVIOUS
  <2>3. n \in Nat /\ Fits(t, n)
    <3>1. PICK u : u = Text!Text(o)
      OBVIOUS
    <3>2. u \in Seq(Letters) /\ n \in Nat /\ Len(u) <= n
      BY <2>1, <2>2, <3>1, BufferOf
    <3>3. t = Text!Shown(u)
      BY <2>1, <2>2, <3>1 DEF Text!View, Text!Text
    <3>4. Fits(t, Len(u)) /\ Len(u) \in Nat
      BY <3>2, <3>3, ShownFits
    <3>. QED
      BY <3>2, <3>4, FitsMore
  <2>4. Text!Fresh(s, n, t)
    BY <1>2, <2>2, Zenon DEF Text!CopyString
  <2>5. /\ StringRight'
        /\ \A x \in Strings : x # s => Text!View(x)' = Text!View(x)
    BY <1>1, <2>3, <2>4, FreshKept
  <2>. QED
    BY <2>5, OneChanges
<1>3. CASE o \notin Memstrings
  <2>1. PICK v \in {0} \cup Text!Bufs : v = str[o]
    BY DEF StringRight, StringTypes
  <2>2. PICK r : r = [buf[v] EXCEPT !.refs = @ + 1]
    OBVIOUS
  <2>3. str' = [str EXCEPT ![s] = v]
    BY <1>3, <2>1, Zenon DEF Text!CopyString
  <2>a. buf' = [c \in Text!Bufs |-> IF c = v THEN [buf[c] EXCEPT !.refs = @ + 1]
                                     ELSE buf[c]]
    BY <1>3, <2>1, Zenon DEF Text!CopyString
  <2>4. \A c \in Text!Bufs : Text!Drop(s)[c] = buf[c]
    BY <1>1, StringConstants, DropLeaves
  <2>5. buf' = [c \in Text!Bufs |-> IF c = v THEN r ELSE Text!Drop(s)[c]]
    BY <2>2, <2>a, <2>4
  <2>6. /\ StringRight'
        /\ \A x \in Strings : x # s => Text!View(x)' = Text!View(x)
    BY <1>1, <2>1, <2>2, <2>3, <2>5, ShareKept
  <2>. QED
    BY <2>6, OneChanges
<1>. QED
  BY <1>2, <1>3

(* add(): the text and the one behind it, in a copy or as far as the       *)
(* buffer goes.                                                            *)
LEMMA AddKept ==
  ASSUME StringRight, NoneHang, NEW s \in Strings, NEW t \in Texts, Text!Add(s, t)
  PROVE  StringRight' /\ Text!OwnedChangesApart
<1>1. PICK n \in Nat : n = Len(t)
  BY StringConstants
<1>a. own' = TRUE /\ pasted' = "no"
  BY Zenon DEF Text!Add, Text!Done
<1>2. t \in Seq(Letters) /\ Fits(t, n) /\ own' = TRUE /\ pasted' = "no"
  BY <1>1, <1>a, StringConstants DEF Fits
<1>3. s \in Memstrings => str[s] # 0
  BY DEF StringRight, MemsOwn
<1>4. CASE str[s] = 0
  <2>1. Text!Fresh(s, n, t)
    BY <1>1, <1>4, Zenon DEF Text!Add
  <2>. QED
    BY <1>2, <1>3, <1>4, <2>1, FreshKept, OneChanges
<1>5. CASE str[s] # 0
  <2>1. PICK x, l : x = Text!Text(s) /\ l = Text!Limit(s)
    OBVIOUS
  <2>2. x \in Seq(Letters) /\ l \in Nat /\ Len(x) <= l /\ Len(x) \in Nat
    BY <1>5, <2>1, BufferOf
  <2>3. CASE Text!MustCopy(s, n)
    <3>1. PICK y : y = Text!Copied(x)
      OBVIOUS
    <3>2. PICK z : z = Text!Fit(t, n)
      OBVIOUS
    <3>3. Text!Fresh(s, Len(x) + n, y \o z)
      BY <1>1, <1>5, <2>1, <2>3, <3>1, <3>2, Zenon DEF Text!Add, Text!Owning
    <3>4. y \in Seq(Letters) /\ Len(y) = Len(x)
      BY <2>2, <3>1, CopiedFits
    <3>5. z \in Seq(Letters) /\ Len(z) <= n
      BY <1>2, <3>2, FitFits DEF Fits
    <3>6. y \o z \in Seq(Letters) /\ Len(y \o z) = Len(y) + Len(z)
      BY <3>4, <3>5, JoinFits
    <3>7. Len(x) + n \in Nat /\ Fits(y \o z, Len(x) + n)
      BY <2>2, <3>4, <3>5, <3>6 DEF Fits
    <3>8. s \notin Memstrings
      BY <2>3 DEF Text!MustCopy
    <3>. QED
      BY <1>2, <3>3, <3>7, <3>8, FreshKept, OneChanges
  <2>4. CASE ~Text!MustCopy(s, n)
    <3>1. PICK m \in Nat : m = l - Len(x)
      BY <2>2
    <3>2. PICK z : z = Text!Fit(t, m)
      OBVIOUS
    <3>3. Text!Store(s, x \o z)
      BY <1>1, <1>5, <2>1, <2>4, <3>1, <3>2, Zenon DEF Text!Add, Text!Owning
    <3>5. z \in Seq(Letters) /\ Len(z) <= m
      BY <1>2, <3>2, FitFits DEF Fits
    <3>6. x \o z \in Seq(Letters) /\ Len(x \o z) = Len(x) + Len(z)
      BY <2>2, <3>5, JoinFits
    <3>7. Fits(x \o z, Text!Limit(s))
      BY <2>1, <2>2, <3>1, <3>5, <3>6 DEF Fits
    <3>8. s \in Memstrings \/ ~(buf[str[s]].refs > 1)
      BY <2>4 DEF Text!MustCopy
    <3>. QED
      BY <1>2, <1>5, <3>3, <3>7, <3>8, OwnStore
  <2>. QED
    BY <2>3, <2>4
<1>. QED
  BY <1>4, <1>5

(* | appends in place, as far as the buffer goes.                          *)
LEMMA AppendKept ==
  ASSUME StringRight, NoneHang, NEW s \in Strings, NEW t \in Texts, Text!Append1(s, t)
  PROVE  StringRight' /\ Text!OwnedChangesApart
<1>1. PICK n \in Nat : n = Len(t)
  BY StringConstants
<1>2. t \in Seq(Letters) /\ Fits(t, n)
  BY <1>1, StringConstants DEF Fits
<1>3. s \in Memstrings => str[s] # 0
  BY DEF StringRight, MemsOwn
<1>4. CASE str[s] = 0
  <2>1. Text!Fresh(s, n, t) /\ own' = TRUE /\ pasted' = "no"
    BY <1>1, <1>4, Zenon DEF Text!Append1, Text!Done
  <2>. QED
    BY <1>2, <1>3, <1>4, <2>1, FreshKept, OneChanges
<1>5. CASE str[s] # 0
  <2>1. PICK x, l : x = Text!Text(s) /\ l = Text!Limit(s)
    OBVIOUS
  <2>2. x \in Seq(Letters) /\ l \in Nat /\ Len(x) <= l /\ Len(x) \in Nat
    BY <1>5, <2>1, BufferOf
  <2>3. PICK m \in Nat : m = l - Len(x)
    BY <2>2
  <2>4. PICK z : z = Text!Fit(t, m)
    OBVIOUS
  <2>5. Text!Store(s, x \o z) /\ own' = FALSE /\ pasted' = "no"
    BY <1>5, <2>1, <2>3, <2>4, Zenon DEF Text!Append1, Text!Done
  <2>6. z \in Seq(Letters) /\ Len(z) <= m
    BY <1>2, <2>4, FitFits DEF Fits
  <2>7. x \o z \in Seq(Letters) /\ Len(x \o z) = Len(x) + Len(z)
    BY <2>2, <2>6, JoinFits
  <2>8. Fits(x \o z, Text!Limit(s))
    BY <2>1, <2>2, <2>3, <2>6, <2>7 DEF Fits
  <2>. QED
    BY <1>5, <2>5, <2>8, OwnStore
<1>. QED
  BY <1>4, <1>5

(* paste(): in a copy, or in place where the text has room.                *)
LEMMA PasteKept ==
  ASSUME StringRight, NoneHang, NEW s \in Strings, NEW t \in Texts, NEW at \in Offsets,
         Text!Paste(s, at, t)
  PROVE  (StringRight' \/ Overran') /\ Text!OwnedChangesApart
<1>1. PICK n \in Nat : n = Len(t)
  BY StringConstants
<1>a. own' = TRUE /\ pasted' = IF s \in Memstrings THEN "memstring" ELSE "no"
  BY Zenon DEF Text!Paste
<1>b. own' \in BOOLEAN /\ pasted' \in {"no", "memstring"}
  BY <1>a
<1>2. t \in Seq(Letters) /\ Fits(t, n) /\ at \in Nat
  BY <1>1, StringConstants DEF Fits
<1>3. s \in Memstrings => str[s] # 0
  BY DEF StringRight, MemsOwn
<1>4. CASE str[s] = 0
  <2>1. n = Len(t) /\ Text!FreshUncounted(s, t)
    BY <1>1, <1>4, Zenon DEF Text!Paste
  <2>. QED
    BY <1>b, <1>2, <1>3, <1>4, <2>1, FreshKept, OneChanges
<1>5. CASE str[s] # 0
  <2>1. PICK x, l : x = Text!Text(s) /\ l = Text!Limit(s)
    OBVIOUS
  <2>2. x \in Seq(Letters) /\ l \in Nat /\ Len(x) <= l /\ Len(x) \in Nat
    BY <1>5, <2>1, BufferOf
  <2>3. ASSUME NEW y \in Seq(Letters)
        PROVE  LET p == IF at >= Len(y) THEN y \o t
                        ELSE SubSeq(y, 1, at) \o t \o SubSeq(y, at + 1, Len(y))
               IN p \in Seq(Letters) /\ Len(p) = Len(y) + n
    <3>1. CASE at >= Len(y)
      BY <1>1, <1>2, <3>1, JoinFits
    <3>2. CASE ~(at >= Len(y))
      <4>1. at < Len(y)
        BY <1>2, <3>2
      <4>2. PICK p : p = SubSeq(y, 1, at) \o t \o SubSeq(y, at + 1, Len(y))
        OBVIOUS
      <4>3. p \in Seq(Letters) /\ Len(p) = Len(y) + Len(t)
        BY <1>2, <4>1, <4>2, PasteFits
      <4>. QED
        BY <1>1, <3>2, <4>2, <4>3
    <3>. QED
      BY <3>1, <3>2
  <2>4. CASE Text!MustCopy(s, n)
    <3>1. PICK y : y = Text!Copied(x)
      OBVIOUS
    <3>2. PICK p : p = IF at >= Len(y) THEN y \o t
                       ELSE SubSeq(y, 1, at) \o t \o SubSeq(y, at + 1, Len(y))
      OBVIOUS
    <3>3. Text!Fresh(s, Len(x) + n, p)
      BY <1>1, <1>5, <2>1, <2>4, <3>1, <3>2, Zenon DEF Text!Paste, Text!Owning
    <3>4. y \in Seq(Letters) /\ Len(y) = Len(x)
      BY <2>2, <3>1, CopiedFits
    <3>5. p \in Seq(Letters) /\ Len(p) = Len(y) + n
      BY <2>3, <3>2, <3>4
    <3>6. Len(x) + n \in Nat /\ Fits(p, Len(x) + n)
      BY <2>2, <3>4, <3>5 DEF Fits
    <3>7. s \notin Memstrings
      BY <2>4 DEF Text!MustCopy
    <3>. QED
      BY <1>b, <3>3, <3>6, <3>7, FreshKept, OneChanges
  <2>5. CASE ~Text!MustCopy(s, n)
    <3>2. PICK p : p = IF at >= Len(x) THEN x \o t
                       ELSE SubSeq(x, 1, at) \o t \o SubSeq(x, at + 1, Len(x))
      OBVIOUS
    <3>3. Text!Store(s, p)
      BY <1>1, <1>5, <2>1, <2>5, <3>2, Zenon DEF Text!Paste, Text!Owning
    <3>4. p \in Seq(Letters) /\ Len(p) = Len(x) + n
      BY <2>2, <2>3, <3>2
    <3>5. s \notin Memstrings => Len(x) + n <= l
      <4>1. s \notin Memstrings => ~(Len(x) + n > l)
        BY <2>1, <2>5 DEF Text!MustCopy
      <4>. QED
        BY <1>1, <2>2, <4>1
    <3>6. s \in Memstrings \/ ~(buf[str[s]].refs > 1)
      BY <2>5 DEF Text!MustCopy
    <3>7. CASE Len(x) + n <= l
      <4>1. Fits(p, Text!Limit(s))
        BY <2>1, <3>4, <3>7 DEF Fits
      <4>. QED
        BY <1>b, <1>5, <3>3, <3>6, <4>1, OwnStore
    <3>8. CASE ~(Len(x) + n <= l)
      <4>1. s \in Memstrings /\ pasted' = "memstring"
        BY <1>a, <3>5, <3>8
      <4>2. /\ StringTypes' /\ Counted' /\ Hanging' /\ MemsOwn' /\ str' = str
            /\ \A d \in Text!Bufs : buf'[d].live =>
                 IF d = str[s] THEN buf'[d].text = p /\ buf'[d].max = Text!Limit(s)
                 ELSE Len(buf'[d].text) <= buf'[d].max
            /\ \A d \in Text!Bufs : buf'[d].live = buf[d].live
            /\ \A y \in Strings : Text!View(y)' # Text!View(y) => str[y] = str[s]
        BY <1>b, <1>5, <3>3, <3>4, StoreLeaves
      <4>3. str[s] \in Text!Bufs
        BY <1>5, BufferOf
      <4>4. buf'[str[s]].live
        BY <1>5, <4>2, <4>3 DEF NoneHang
      <4>5. Len(buf'[str[s]].text) > buf'[str[s]].max
        BY <2>1, <2>2, <3>4, <3>8, <4>2, <4>3, <4>4, <1>1
      <4>6. Overran'
        BY <4>1, <4>2, <4>5 DEF Overran, Beyond, Text!Bufs
      <4>. QED
        BY <1>5, <3>6, <4>2, <4>6, OwnApart
    <3>. QED
      BY <3>7, <3>8
  <2>. QED
    BY <2>4, <2>5
<1>. QED
  BY <1>4, <1>5

(* The operations that change the text where it is.                        *)
LEMMA InPlaceKept ==
  ASSUME StringRight, NoneHang, NEW s \in Strings, Text!InPlace(s)
  PROVE  StringRight' /\ Text!OwnedChangesApart
<1>1. str[s] # 0 /\ own' = FALSE /\ pasted' = "no"
  BY Zenon DEF Text!InPlace, Text!Done
<1>2. PICK x, l : x = Text!Text(s) /\ l = Text!Limit(s)
  OBVIOUS
<1>3. x \in Seq(Letters) /\ l \in Nat /\ Len(x) <= l /\ Len(x) \in Nat
  BY <1>1, <1>2, BufferOf
<1>4. \A t : Fits(t, Len(x)) => Fits(t, l)
  BY <1>3, FitsMore
<1>5. Offsets \subseteq Nat /\ \A t \in Texts : t \in Seq(Letters)
  BY StringConstants
<1>6. \A at, n \in Offsets :
        /\ Fits(Text!CutText(x, at, n), l) /\ Fits(Text!ClearText(x, at), l)
        /\ Fits(Text!SplitText(x, at), l) /\ Fits(Text!RsplitText(x, at), l)
        /\ Fits(Text!IncText(x, n), l) /\ Fits(Text!DecText(x, n), l)
        /\ Fits(Text!FillText(x, n, l), l)
  <2>. SUFFICES ASSUME NEW at \in Nat, NEW n \in Nat
                PROVE  /\ Fits(Text!CutText(x, at, n), l) /\ Fits(Text!ClearText(x, at), l)
                       /\ Fits(Text!SplitText(x, at), l) /\ Fits(Text!RsplitText(x, at), l)
                       /\ Fits(Text!IncText(x, n), l) /\ Fits(Text!DecText(x, n), l)
                       /\ Fits(Text!FillText(x, n, l), l)
    BY <1>5
  <2>1. Fits(Text!CutText(x, at, n), l) /\ Fits(Text!ClearText(x, at), l)
    BY <1>3, <1>4, CutFits
  <2>2. Fits(Text!SplitText(x, at), l) /\ Fits(Text!RsplitText(x, at), l)
    BY <1>3, <1>4, SplitFits
  <2>3. Fits(Text!IncText(x, n), l) /\ Fits(Text!DecText(x, n), l)
    BY <1>3, <1>4, IncFits
  <2>4. Fits(Text!FillText(x, n, l), l)
    BY <1>3, FillFits
  <2>. QED
    BY <2>1, <2>2, <2>3, <2>4
<1>7. /\ Fits(Text!ChopText(x), l) /\ Fits(Text!TrimText(x), l) /\ Fits(Text!Shown(x), l)
      /\ Fits(Text!EraseText(x), l)
  <2>1. Fits(Text!ChopText(x), l) /\ Fits(Text!TrimText(x), l)
    BY <1>3, <1>4, ChopFits
  <2>2. Fits(Text!Shown(x), l)
    BY <1>3, <1>4, ShownFits
  <2>3. Fits(Text!EraseText(x), l)
    <3>1. 0 \in Nat
      OBVIOUS
    <3>. QED
      BY <1>3, <1>4, <3>1, SplitFits
  <2>. QED
    BY <2>1, <2>2, <2>3
<1>8. \A at \in Offsets, t \in Texts : Fits(Text!OverText(x, at, t, l), l)
  BY <1>3, <1>5, OverFits
<1>9. PICK t : Fits(t, l) /\ Text!Store(s, t)
  BY <1>2, <1>6, <1>7, <1>8, Zenon DEF Text!InPlace
<1>. QED
  BY <1>1, <1>2, <1>9, OwnStore

(* resize(), and fill() of a String without a buffer.                      *)
LEMMA ResizeKept ==
  ASSUME StringRight, NoneHang, NEW s \in Strings, NEW n \in Offsets,
         Text!FillNew(s, n) \/ Text!Resize(s, n)
  PROVE  StringRight' /\ Text!OwnedChangesApart
<1>0. n \in Nat /\ own' = TRUE /\ pasted' = "no"
  BY StringConstants DEF Text!FillNew, Text!Resize, Text!Done
<1>1. s \in Memstrings => str[s] # 0
  BY DEF StringRight, MemsOwn
<1>2. Fits(<<>>, n) /\ <<>> \in Seq(Letters) /\ Len(<<>>) <= n
  BY <1>0 DEF Fits
<1>3. CASE Text!FillNew(s, n)
  <2>1. PICK t : t = Text!FillText(<<>>, n, n)
    OBVIOUS
  <2>2. str[s] = 0 /\ Text!Fresh(s, n, t)
    BY <1>3, <2>1, Zenon DEF Text!FillNew
  <2>3. Fits(t, n)
    BY <1>0, <1>2, <2>1, FillFits
  <2>. QED
    BY <1>0, <1>1, <2>2, <2>3, FreshKept, OneChanges
<1>4. CASE Text!Resize(s, n) /\ n = 0
  <2>1. /\ str' = [str EXCEPT ![s] = 0] /\ s \notin Memstrings
        /\ buf' = Text!Drop(s)
    BY <1>4, Zenon DEF Text!Resize
  <2>2. PICK v \in {0} \cup Text!Bufs : v = 0
    OBVIOUS
  <2>3. PICK r : r = [buf[v] EXCEPT !.refs = @ + 1]
    OBVIOUS
  <2>4. str' = [str EXCEPT ![s] = v]
    BY <2>1, <2>2
  <2>5. buf' = [c \in Text!Bufs |-> IF c = v THEN r ELSE Text!Drop(s)[c]]
    <3>1. PICK D : D = Text!Drop(s)
      OBVIOUS
    <3>2. D = [c \in Text!Bufs |-> D[c]]
      BY <3>1, Zenon DEF Text!Drop
    <3>. QED
      BY <2>1, <2>2, <3>1, <3>2, StringConstants
  <2>6. s \notin Memstrings
    BY <2>1
  <2>7. /\ StringRight'
        /\ \A x \in Strings : x # s => Text!View(x)' = Text!View(x)
    BY <1>0, <2>2, <2>3, <2>4, <2>5, <2>6, ShareKept
  <2>. QED
    BY <2>7, OneChanges
<1>5. CASE Text!Resize(s, n) /\ n # 0
  <2>1. s \notin Memstrings /\ (Text!Fresh(s, n, <<>>) \/ (str' = str /\ buf' = buf))
    BY <1>5, Zenon DEF Text!Resize
  <2>2. CASE Text!Fresh(s, n, <<>>)
    BY <1>0, <1>2, <2>1, <2>2, FreshKept, OneChanges
  <2>3. CASE str' = str /\ buf' = buf
    <3>1. StringRight'
      BY <1>0, <2>3 DEF StringRight, StringTypes, Counted, Fitting, Hanging, MemsOwn, Uses, Users, Text!Bufs
    <3>2. \A x \in Strings : x # s => Text!View(x)' = Text!View(x)
      BY <2>3 DEF Text!View
    <3>. QED
      BY <3>1, <3>2, OneChanges
  <2>. QED
    BY <2>1, <2>2, <2>3
<1>. QED
  BY <1>3, <1>4, <1>5

(* Every operation keeps the buffers right, and one that owns its text     *)
(* changes no other String's.                                              *)
LEMMA StringStep ==
  ASSUME StringRight, Text!Next
  PROVE  (StringRight' \/ Overran') /\ Text!OwnedChangesApart
<1>1. NoneHang
  BY DEF Text!Next, Text!Dangling, NoneHang
<1>2. PICK s \in Strings :
        \/ \E t \in Texts : \/ Text!Set(s, t) \/ Text!AssignText(s, t)
                            \/ Text!Add(s, t) \/ Text!Append1(s, t)
        \/ \E t \in Texts, at \in Offsets : Text!Paste(s, at, t)
        \/ \E n \in Offsets : Text!FillNew(s, n) \/ Text!Resize(s, n)
        \/ Text!InPlace(s)
        \/ \E o \in Strings : Text!AssignString(s, o) \/ Text!CopyString(s, o) \/ Text!Swap(s, o)
  BY DEF Text!Next
<1>3. ASSUME NEW o \in Strings, Text!Swap(s, o) PROVE StringRight' /\ Text!OwnedChangesApart
  <2>1. StringRight' /\ own' = FALSE /\ pasted' = "no"
    BY <1>1, <1>3, SwapKept
  <2>. QED
    BY <2>1 DEF Text!OwnedChangesApart
<1>. QED
  BY <1>1, <1>2, <1>3, SetKept, AddKept, AppendKept, PasteKept, ResizeKept, InPlaceKept,
     AssignKept, CopyKept

(* Nothing follows a paste() beyond a memstring.                           *)
LEMMA OverranEnds == ~(Overran /\ Text!Next)
<1>. SUFFICES ASSUME Overran, Text!Next PROVE FALSE
  OBVIOUS
<1>1. PICK m \in Strings : Beyond(m)
  BY DEF Overran
<1>2. str[m] # 0
  BY <1>1 DEF Beyond, Overran, MemsOwn
<1>3. Text!Overrun(m)
  BY <1>1, <1>2 DEF Beyond, Text!Overrun, Text!Text, Text!Limit
<1>. QED
  BY <1>3 DEF Text!Next

(* At the start each memstring has a buffer of its own.                    *)
LEMMA StringStart ==
  ASSUME Text!Init
  PROVE  StringRight
<1>1. PICK n \in Nat : n = Cardinality(Memstrings) /\ n <= Cardinality(Strings)
  <2>1. Memstrings \in SUBSET Strings /\ IsFiniteSet(Strings)
    BY StringConstants
  <2>. QED
    BY <2>1, FS_Subset, FS_CardinalityType
<1>2. PICK number \in Text!Bijection(Memstrings, 1..n) :
        /\ str = [s \in Strings |-> IF s \in Memstrings THEN number[s] ELSE 0]
        /\ buf = [c \in Text!Bufs |-> IF c <= n THEN Text!Buf(MemSize, <<>>, 0) ELSE Text!NoBuf]
  BY <1>1, SameCardinality DEF Text!Init
<1>3. /\ number \in [Memstrings -> 1..n]
      /\ \A x, y \in Memstrings : number[x] = number[y] => x = y
      /\ \A c \in 1..n : \E x \in Memstrings : number[x] = c
  BY <1>2 DEF Text!Bijection, Text!Injection, Text!Surjection, Text!IsInjective
<1>4. /\ 1..n \subseteq Text!Bufs /\ 0 \notin Text!Bufs /\ Memstrings \subseteq Strings
      /\ MemSize \in Nat
  BY <1>1, StringConstants
<1>5. PICK e : e = Text!Buf(MemSize, <<>>, 0)
  OBVIOUS
<1>6. /\ e \in Records /\ e.refs = 0 /\ e.short = 1 /\ e.live /\ Len(e.text) = 0
      /\ e.max = MemSize
  BY <1>4, <1>5 DEF Text!Buf, Records
<1>7. PICK z : z = Text!NoBuf
  OBVIOUS
<1>8. z \in Records /\ ~z.live
  BY <1>7 DEF Text!NoBuf, Records
<1>9. \A c \in Text!Bufs : buf[c] = IF c \in 1..n THEN e ELSE z
  <2>1. \A c \in Text!Bufs : c <= n <=> c \in 1..n
    BY StringConstants
  <2>. QED
    BY <1>2, <1>5, <1>7, <2>1
<1>10. \A x \in Strings : str[x] = IF x \in Memstrings THEN number[x] ELSE 0
  BY <1>2
<1>11. StringTypes
  <2>1. buf \in [Text!Bufs -> Records]
    BY <1>2, <1>6, <1>8, <1>9
  <2>2. str \in [Strings -> {0} \cup Text!Bufs]
    BY <1>2, <1>3, <1>4
  <2>3. own \in BOOLEAN /\ pasted \in {"no", "memstring"}
    BY DEF Text!Init
  <2>. QED
    BY <2>1, <2>2, <2>3 DEF StringTypes
<1>12. Counted
  <2>. SUFFICES ASSUME NEW c \in Text!Bufs, buf[c].live
                PROVE  buf[c].refs + buf[c].short = Uses(str, c) /\ Uses(str, c) >= 1
    BY DEF Counted
  <2>1. c \in 1..n /\ buf[c] = e
    BY <1>8, <1>9
  <2>2. PICK x \in Memstrings : number[x] = c
    BY <1>3, <2>1
  <2>3. Users(str, c) = {x}
    <3>1. x \in Strings /\ str[x] = c
      BY <1>4, <1>10, <2>2
    <3>2. ASSUME NEW y \in Strings, str[y] = c PROVE y = x
      <4>1. c # 0
        BY <1>4
      <4>. QED
        BY <1>3, <1>10, <2>2, <3>2, <4>1
    <3>. QED
      BY <3>1, <3>2 DEF Users
  <2>4. Uses(str, c) = 1
    BY <2>3, FS_Singleton DEF Uses
  <2>. QED
    BY <1>6, <2>1, <2>4
<1>13. Fitting
  BY <1>4, <1>6, <1>8, <1>9 DEF Fitting
<1>14. MemsOwn
  <2>. SUFFICES ASSUME NEW m \in Memstrings PROVE str[m] # 0 /\ buf[str[m]].short = 1
    BY DEF MemsOwn
  <2>1. str[m] = number[m] /\ number[m] \in 1..n /\ number[m] \in Text!Bufs
    BY <1>3, <1>4, <1>10
  <2>. QED
    BY <1>4, <1>6, <1>9, <2>1
<1>15. Hanging
  <2>. SUFFICES ASSUME NEW x \in Strings, str[x] # 0 PROVE buf[str[x]].short = 1
    BY DEF Hanging
  <2>. QED
    BY <1>10, <1>14 DEF MemsOwn
<1>. QED
  BY <1>11, <1>12, <1>13, <1>14, <1>15 DEF StringRight

(* The counts of the string buffers hold of every behaviour.               *)
THEOREM StringInvariance == Spec => []StringInv
<1>1. Init => StringInv
  BY StringStart DEF Init, StringInv
<1>2. StringInv /\ [Next]_vars => StringInv'
  <2>1. ASSUME StringInv, Next PROVE StringInv'
    BY <2>1, TextSteps, StringStep, OverranEnds DEF StringInv
  <2>2. ASSUME StringInv, UNCHANGED vars PROVE StringInv'
    <3>1. StringRight /\ UNCHANGED <<str, buf, own, pasted>> => StringRight'
      BY DEF StringRight, StringTypes, Counted, Fitting, Hanging, MemsOwn, Uses, Users, Text!Bufs
    <3>2. Overran /\ UNCHANGED <<str, buf, own, pasted>> => Overran'
      BY DEF Overran, Beyond, StringTypes, Counted, Hanging, MemsOwn, Uses, Users, Text!Bufs
    <3>. QED
      BY <2>2, <3>1, <3>2, TextStutters DEF StringInv
  <2>. QED
    BY <2>1, <2>2
<1>. QED
  BY <1>1, <1>2, PTL DEF Spec

(* However Strings are copied, changed, swapped and dropped, a buffer is   *)
(* counted once for every String that refers to it, lives as long, but for *)
(* one made without a retain(), and holds no text longer than its size,    *)
(* unless it is a memstring's and a paste() was the last call.             *)
THEOREM StringBuffersRight == Spec => []BuffersRight
<1>1. StringInv => BuffersRight
  <2>. SUFFICES ASSUME StringRight \/ Overran PROVE Text!TypeOK /\ Text!BuffersRight
    BY DEF StringInv, BuffersRight
  <2>0. StringTypes /\ Counted /\ Hanging
    BY DEF StringRight, Overran
  <2>1. Text!TypeOK
    BY <2>0 DEF StringTypes, Text!TypeOK
  <2>2. ASSUME NEW c \in Text!Bufs, buf[c].live
        PROVE  Len(buf[c].text) <= buf[c].max
                 \/ (pasted = "memstring" /\ \E m \in Memstrings : str[m] = c)
    BY <2>2 DEF StringRight, Fitting, Overran, Beyond
  <2>3. \A c \in Text!Bufs : buf[c].live =>
          buf[c].refs + buf[c].short = Text!Cardinality({s \in Strings : str[s] = c})
    BY <2>0, SameCardinality DEF Counted, Uses, Users
  <2>4. \A x \in Strings : Text!Dangling(x) => buf[str[x]].short = 1
    BY <2>0 DEF Hanging, Text!Dangling
  <2>. QED
    BY <2>1, <2>2, <2>3, <2>4 DEF Text!BuffersRight
<1>. QED
  BY <1>1, StringInvariance, PTL

(* A Date, Time or DateTime moves by exactly the offset asked for, and     *)
(* back over midnight to the mirror image of where it should arrive; add(),*)
(* paste() and the assignments of a String change no other String, unless  *)
(* they share a buffer made without a retain().                            *)
THEOREM TextChangesExactly == Spec => ChangesExactly
<1>1. ASSUME TimeInv, StringInv, [Next]_vars
      PROVE  [/\ part = "time" => Time!MovesExactly
              /\ part = "string" => Text!OwnedChangesApart]_vars
  <2>1. ASSUME Next PROVE /\ part = "time" => Time!MovesExactly
                          /\ part = "string" => Text!OwnedChangesApart
    BY <1>1, <2>1, TextSteps, TimeStep, StringStep, OverranEnds DEF StringInv
  <2>. QED
    BY <1>1, <2>1
<1>. QED
  BY <1>1, TimeInvariance, StringInvariance, PTL DEF Spec, ChangesExactly
=============================================================================
