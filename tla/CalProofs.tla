------------------------------ MODULE CalProofs ------------------------------
(***************************************************************************)
(* What is proved of tvcal: its arithmetic on dates is the Gregorian       *)
(* calendar from the first day of year 0 on, for as long a walk as one     *)
(* likes (DatesAreRight); for any events, to-dos and requests, requests    *)
(* are asked about and events reminded of once (AskedAndRemindedOnce); and *)
(* whatever others change under it, the panes and the dialogs show what    *)
(* the window has selected and what there was when it was last read        *)
(* (PanesAndDialogsAreTrue).                                               *)
(***************************************************************************)
EXTENDS CalWindow, ListProofs, SequenceTheorems, FiniteSetTheorems

-----------------------------------------------------------------------------
(* Dates                                                                   *)

DateType(t) == /\ t = Ymd(t.y, t.m, t.d)
               /\ t.y \in Int /\ t.m \in Int /\ t.d \in Int /\ IsDate(t)

MarchYear(y, m) == y - (IF m <= 2 THEN 1 ELSE 0)
MarchMonth(m) == m + (IF m > 2 THEN -3 ELSE 9)
Days(y) == 365 * y + y \div 4 - y \div 100 + y \div 400

LEMMA MonthLengths ==
    ASSUME NEW y \in Int, NEW m \in 1 .. 12
    PROVE  /\ m = 1 => ymdMonthLength(y, m) = 31
           /\ m = 2 => ymdMonthLength(y, m) =
                 28 + (IF (y % 4 = 0 /\ y % 100 # 0) \/ y % 400 = 0 THEN 1 ELSE 0)
           /\ m \in {3, 5, 7, 8, 10, 12} => ymdMonthLength(y, m) = 31
           /\ m \in {4, 6, 9, 11} => ymdMonthLength(y, m) = 30
           /\ ymdMonthLength(y, m) \in 28 .. 31
  BY DEF ymdMonthLength

LEMMA DaysOfDate ==
    ASSUME NEW y \in Int, NEW m \in 1 .. 12, NEW d \in 1 .. 31
    PROVE  daysFromCivil(Ymd(y, m, d)) =
             Days(MarchYear(y, m)) + (153 * MarchMonth(m) + 2) \div 5 + d - 1 - 719468
<1>1. PICK Y \in Int : Y = MarchYear(y, m)
  BY DEF MarchYear
<1>2. PICK era \in Int : era = Y \div 400
  OBVIOUS
<1>3. PICK yoe \in Int : yoe = Y - era * 400
  OBVIOUS
<1>4. /\ 0 <= yoe /\ yoe < 400
      /\ era * 146097 + (yoe * 365 + yoe \div 4 - yoe \div 100) = Days(Y)
  BY <1>2, <1>3 DEF Days
<1>5. Trunc(IF Y >= 0 THEN Y ELSE Y - 399, 400) = era
  BY <1>2 DEF Trunc
<1>6. Trunc(yoe, 4) = yoe \div 4 /\ Trunc(yoe, 100) = yoe \div 100
  BY <1>4 DEF Trunc
<1>7. Trunc(153 * MarchMonth(m) + 2, 5) = (153 * MarchMonth(m) + 2) \div 5
  BY DEF Trunc, MarchMonth
<1>0. PICK q \in Int : q = (153 * MarchMonth(m) + 2) \div 5
  BY DEF MarchMonth
<1>8. PICK doy \in Int : doy = q + d - 1
  BY DEF MarchMonth
<1>9. PICK n \in Int : n = yoe * 365 + Trunc(yoe, 4) - Trunc(yoe, 100) + doy
  <2>1. PICK a \in Int, b \in Int : a = Trunc(yoe, 4) /\ b = Trunc(yoe, 100)
    BY <1>6
  <2> QED BY <2>1
<1>10. daysFromCivil(Ymd(y, m, d)) = era * 146097 + (n - 719468)
  BY <1>0, <1>1, <1>3, <1>5, <1>7, <1>8, <1>9 DEF daysFromCivil, Ymd, MarchYear, MarchMonth
<1>11. PICK e \in Int : e = Days(Y)
  BY DEF Days
<1>12. era * 146097 + n = e + doy
  <2>1. PICK a \in Int, b \in Int : a = yoe \div 4 /\ b = yoe \div 100
    OBVIOUS
  <2> QED BY <1>4, <1>6, <1>9, <1>11, <2>1
<1>14. Days(MarchYear(y, m)) = e /\ (153 * MarchMonth(m) + 2) \div 5 = q
  BY <1>0, <1>1, <1>11
<1> QED BY <1>8, <1>10, <1>12, <1>14

Before(m) == (153 * MarchMonth(m) + 2) \div 5

LEMMA DaysBefore ==
    /\ Before(1) = 306 /\ Before(2) = 337 /\ Before(3) = 0 /\ Before(4) = 31
    /\ Before(5) = 61 /\ Before(6) = 92 /\ Before(7) = 122 /\ Before(8) = 153
    /\ Before(9) = 184 /\ Before(10) = 214 /\ Before(11) = 245 /\ Before(12) = 275
  BY DEF Before, MarchMonth

Leap(y) == IF (y % 4 = 0 /\ y % 100 # 0) \/ y % 400 = 0 THEN 1 ELSE 0

LEMMA LeapDay ==
    ASSUME NEW y \in Int
    PROVE  Days(y) \in Int /\ Days(y - 1) \in Int /\ Days(y) = Days(y - 1) + 365 + Leap(y)
<1>1. PICK a \in Int, b \in Int, c \in Int :
        a = y \div 4 /\ b = y \div 100 /\ c = y \div 400
  OBVIOUS
<1>2. PICK e \in Int, f \in Int, g \in Int :
        e = (y - 1) \div 4 /\ f = (y - 1) \div 100 /\ g = (y - 1) \div 400
  OBVIOUS
<1>3. a = e + (IF y % 4 = 0 THEN 1 ELSE 0)
  BY <1>1, <1>2
<1>4. b = f + (IF y % 100 = 0 THEN 1 ELSE 0)
  BY <1>1, <1>2
<1>5. c = g + (IF y % 400 = 0 THEN 1 ELSE 0)
  BY <1>1, <1>2
<1>6. (y % 400 = 0 => y % 100 = 0) /\ (y % 100 = 0 => y % 4 = 0)
  OBVIOUS
<1>7. Days(y) = 365 * y + (a - b) + c /\ Days(y - 1) = 365 * (y - 1) + (e - f) + g
  BY <1>1, <1>2 DEF Days
<1> QED BY <1>3, <1>4, <1>5, <1>6, <1>7 DEF Leap

LEMMA TomorrowIsNext ==
    ASSUME NEW t, DateType(t)
    PROVE  DateType(Tomorrow(t)) /\ daysFromCivil(Tomorrow(t)) = daysFromCivil(t) + 1
<1>1. PICK y \in Int, m \in 1 .. 12, d \in Int :
        t = Ymd(y, m, d) /\ t.y = y /\ t.m = m /\ t.d = d /\ d \in 1 .. ymdMonthLength(y, m)
  BY DEF DateType, IsDate
<1>2. ymdMonthLength(y, m) \in 28 .. 31 /\ d \in 1 .. 31
  BY <1>1, MonthLengths
<1>3. daysFromCivil(t) = Days(MarchYear(y, m)) + Before(m) + d - 1 - 719468
  BY <1>1, <1>2, DaysOfDate DEF Before
<1>4. Days(y) \in Int /\ Days(y - 1) \in Int /\ Days(y) = Days(y - 1) + 365 + Leap(y)
  BY LeapDay
<1>5. Before(m) \in Int
  BY DaysBefore
<1>6. CASE d < ymdMonthLength(y, m)
  <2>1. Tomorrow(t) = Ymd(y, m, d + 1)
    BY <1>1, <1>6 DEF Tomorrow, Ymd
  <2>2. DateType(Ymd(y, m, d + 1))
    BY <1>1, <1>2, <1>6 DEF DateType, Ymd, IsDate
  <2>3. daysFromCivil(Ymd(y, m, d + 1)) = Days(MarchYear(y, m)) + Before(m) + (d + 1) - 1 - 719468
    BY <1>2, <1>6, DaysOfDate DEF Before
  <2>4. Days(MarchYear(y, m)) \in Int
    BY DEF Days, MarchYear
  <2> QED BY <1>3, <1>5, <2>1, <2>2, <2>3, <2>4
<1>7. CASE d = ymdMonthLength(y, m) /\ m < 12
  <2>1. Tomorrow(t) = Ymd(y, m + 1, 1)
    BY <1>1, <1>2, <1>7 DEF Tomorrow, Ymd
  <2>2. ymdMonthLength(y, m + 1) \in 28 .. 31
    BY <1>7, MonthLengths
  <2>3. DateType(Ymd(y, m + 1, 1))
    BY <1>7, <2>2 DEF DateType, Ymd, IsDate
  <2>4. daysFromCivil(Ymd(y, m + 1, 1)) = Days(MarchYear(y, m + 1)) + Before(m + 1) + 1 - 1 - 719468
    BY <1>7, DaysOfDate DEF Before
  <2>5. CASE m = 2
    <3>1. MarchYear(y, m) = y - 1 /\ MarchYear(y, m + 1) = y
      BY <2>5 DEF MarchYear
    <3>2. d = 28 + Leap(y)
      BY <1>7, <2>5, MonthLengths DEF Leap
    <3>3. Before(m) = 337 /\ Before(m + 1) = 0
      BY <2>5, DaysBefore
    <3>4. Leap(y) \in {0, 1}
      BY DEF Leap
    <3> QED BY <1>3, <1>4, <2>1, <2>3, <2>4, <3>1, <3>2, <3>3, <3>4
  <2>6. CASE m # 2
    <3>1. MarchYear(y, m) = MarchYear(y, m + 1)
      BY <1>7, <2>6 DEF MarchYear
    <3>2. Before(m + 1) = Before(m) + d
      <4>1. m \in {1, 3, 4, 5, 6, 7, 8, 9, 10, 11}
        BY <1>7, <2>6
      <4>2. m \in {1, 3, 5, 7, 8, 10} => d = 31
        BY <1>7, MonthLengths
      <4>3. m \in {4, 6, 9, 11} => d = 30
        BY <1>7, MonthLengths
      <4> QED BY <4>1, <4>2, <4>3, DaysBefore
    <3>3. PICK e \in Int : e = Days(MarchYear(y, m))
      BY DEF Days, MarchYear
    <3> QED BY <1>3, <1>5, <2>1, <2>3, <2>4, <3>1, <3>2, <3>3
  <2> QED BY <2>5, <2>6
<1>8. CASE d = ymdMonthLength(y, m) /\ m = 12
  <2>1. Tomorrow(t) = Ymd(y + 1, 1, 1) /\ d = 31
    BY <1>1, <1>8, MonthLengths DEF Tomorrow, Ymd
  <2>2. ymdMonthLength(y + 1, 1) \in 28 .. 31
    BY MonthLengths
  <2>3. DateType(Ymd(y + 1, 1, 1))
    BY <2>2 DEF DateType, Ymd, IsDate
  <2>4. daysFromCivil(Ymd(y + 1, 1, 1)) = Days(MarchYear(y + 1, 1)) + Before(1) + 1 - 1 - 719468
    BY DaysOfDate DEF Before
  <2>5. MarchYear(y + 1, 1) = y /\ MarchYear(y, m) = y
    BY <1>8 DEF MarchYear
  <2> QED BY <1>3, <1>4, <1>8, <2>1, <2>3, <2>4, <2>5, DaysBefore
<1> QED BY <1>1, <1>2, <1>6, <1>7, <1>8

\* A day of a March year, by century, four years and year.
InEra(c, q, r, doy) ==
    /\ c \in 0 .. 3 /\ q \in 0 .. 24 /\ r \in 0 .. 3 /\ doy \in Int /\ 0 <= doy /\ doy <= 365
    /\ doy = 365 => r = 3 /\ (q = 24 => c = 3)
DayOfEra(c, q, r, doy) == 36524 * c + 1461 * q + 365 * r + doy

YearNumber(doe) ==
    Trunc(doe - Trunc(doe, 1460) + Trunc(doe, 36524) - Trunc(doe, 146096), 365)
YearAndDay(doe, yoe, doy, q, c) ==
    /\ doe \in Int /\ 0 <= doe /\ doe < 146097 /\ yoe \in Int /\ 0 <= yoe /\ yoe < 400 /\ YearNumber(doe) = yoe
    /\ yoe \div 4 = 25 * c + q /\ yoe \div 100 = c
    /\ doe = 365 * yoe + (yoe \div 4 - yoe \div 100) + doy

LEMMA YearOfDay ==
    ASSUME NEW c, NEW q, NEW r, NEW doy, InEra(c, q, r, doy)
    PROVE  YearAndDay(DayOfEra(c, q, r, doy), 100 * c + 4 * q + r, doy, q, c)
<1>1. c \in Int /\ q \in Int /\ r \in Int /\ doy \in Int
  BY DEF InEra
<1>2. PICK doe \in Int : doe = DayOfEra(c, q, r, doy)
  BY <1>1 DEF DayOfEra
<1>3. doe = 36524 * c + 1461 * q + 365 * r + doy
  BY <1>2 DEF DayOfEra
<1>4. 0 <= doe /\ doe < 146097
  BY <1>1, <1>3 DEF InEra
<1>5. PICK e \in {0, 1} : e = IF 24 * c + q + 365 * r + doy >= 1460 THEN 1 ELSE 0
  OBVIOUS
<1>6. doe \div 1460 = 25 * c + q + e
  BY <1>1, <1>3, <1>5 DEF InEra
<1>7. PICK f \in {0, 1} : f = IF doe = 146096 THEN 1 ELSE 0
  OBVIOUS
<1>8. doe \div 36524 = c + f
  <2>1. PICK u \in Int : u = 1461 * q + 365 * r + doy
    BY <1>1
  <2>2. 0 <= u /\ u <= 36524 /\ (u = 36524 => c = 3)
    BY <1>1, <2>1, SMTT(60) DEF InEra
  <2>3. doe = 36524 * c + u /\ 0 <= c /\ c <= 3
    BY <1>1, <1>3, <2>1 DEF InEra
  <2>4. f = 1 <=> (u = 36524 /\ c = 3)
    BY <1>1, <1>7, <2>1, <2>2, <2>3, SMTT(60)
  <2> QED BY <1>1, <1>7, <2>1, <2>2, <2>3, <2>4, SMTT(60)
<1>9. doe \div 146096 = f
  BY <1>4, <1>7
<1>10. Trunc(doe, 1460) = 25 * c + q + e /\ Trunc(doe, 36524) = c + f /\ Trunc(doe, 146096) = f
  BY <1>4, <1>6, <1>8, <1>9 DEF Trunc
<1>11. PICK num \in Int : num = doe - Trunc(doe, 1460) + Trunc(doe, 36524) - Trunc(doe, 146096)
  BY <1>1, <1>10
<1>12. num = 365 * (100 * c + 4 * q + r) + (doy - e)
  BY <1>1, <1>3, <1>10, <1>11
<1>13. 0 <= doy - e /\ doy - e < 365
  BY <1>1, <1>5 DEF InEra
<1>14. PICK yoe \in Int : yoe = 100 * c + 4 * q + r
  BY <1>1
<1>15. 0 <= yoe /\ yoe < 400
  BY <1>1, <1>14 DEF InEra
<1>16. num >= 0 /\ num \div 365 = yoe
  <2>1. PICK x \in Int : x = doy - e
    BY <1>1
  <2>2. num = 365 * yoe + x /\ 0 <= x /\ x < 365
    BY <1>12, <1>13, <1>14, <2>1
  <2> QED BY <1>15, <2>2
<1>17. Trunc(num, 365) = yoe
  BY <1>16 DEF Trunc
<1>18. yoe \div 4 = 25 * c + q /\ yoe \div 100 = c
  BY <1>1, <1>14 DEF InEra
<1>19. doe = 365 * yoe + (yoe \div 4 - yoe \div 100) + doy
  BY <1>1, <1>3, <1>14, <1>18
<1>20. YearNumber(doe) = yoe
  BY <1>11, <1>17 DEF YearNumber
<1>21. YearAndDay(doe, yoe, doy, q, c)
  BY <1>4, <1>15, <1>18, <1>19, <1>20 DEF YearAndDay
<1> QED BY <1>2, <1>14, <1>21

\* Every day of an era is in such a year ...
LEMMA DayIsInEra ==
    ASSUME NEW doe \in Int, 0 <= doe, doe < 146097
    PROVE  \E c, q, r, doy \in Int : InEra(c, q, r, doy) /\ doe = DayOfEra(c, q, r, doy)
<1>1. PICK c \in 0 .. 3 : c = IF doe = 146096 THEN 3 ELSE doe \div 36524
  <2>1. CASE doe = 146096
    BY <2>1
  <2>2. CASE doe < 146096
    <3>1. PICK x \in Int : x = doe \div 36524
      OBVIOUS
    <3>2. 0 <= x /\ x <= 3
      BY <2>2, <3>1
    <3> QED BY <2>2, <3>1, <3>2
  <2> QED BY <2>1, <2>2
<1>2. PICK k \in Int : 0 <= k /\ k <= 36524 /\ k = doe - 36524 * c /\ (k = 36524 => c = 3)
  BY <1>1
<1>3. PICK q \in Int : q = k \div 1461
  OBVIOUS
<1>9. 0 <= q /\ q <= 24
  BY <1>2, <1>3
<1>4. PICK l \in Int : 0 <= l /\ l <= 1460 /\ l = k - 1461 * q /\ (l = 1460 /\ q = 24 => c = 3)
  BY <1>2, <1>3, <1>9
<1>5. PICK x \in Int : x = l \div 365
  OBVIOUS
<1>10. PICK r \in Int : r = IF l = 1460 THEN 3 ELSE x
  BY <1>5
<1>11. 0 <= r /\ r <= 3
  BY <1>4, <1>5, <1>10
<1>6. PICK doy \in Int : 0 <= doy /\ doy <= 365 /\ doy = l - 365 * r /\ (doy = 365 => l = 1460)
  BY <1>4, <1>5, <1>10
<1>7. InEra(c, q, r, doy)
  BY <1>4, <1>6, <1>9, <1>10, <1>11 DEF InEra
<1>8. doe = DayOfEra(c, q, r, doy)
  BY <1>2, <1>4, <1>6 DEF DayOfEra
<1> QED BY <1>7, <1>8

\* ... and every year of an era is one.
LEMMA YearIsInEra ==
    ASSUME NEW yoe \in Int, 0 <= yoe, yoe < 400
    PROVE  \E c, q, r \in Int : /\ c \in 0 .. 3 /\ q \in 0 .. 24 /\ r \in 0 .. 3
                                /\ yoe = 100 * c + 4 * q + r
                                /\ yoe \div 4 = 25 * c + q /\ yoe \div 100 = c
<1>1. PICK c \in 0 .. 3 : c = yoe \div 100
  OBVIOUS
<1>2. PICK k \in 0 .. 99 : k = yoe - 100 * c
  BY <1>1
<1>3. PICK q \in 0 .. 24 : q = k \div 4
  OBVIOUS
<1>4. PICK r \in 0 .. 3 : r = k - 4 * q
  BY <1>3
<1>5. yoe = 100 * c + 4 * q + r
  BY <1>2, <1>4
<1>6. yoe \div 4 = 25 * c + q
  BY <1>5
<1> QED BY <1>1, <1>5, <1>6

LEMMA MonthOfDay ==
    ASSUME NEW y \in Int, NEW m \in 1 .. 12, NEW d \in 1 .. ymdMonthLength(y, m)
    PROVE  LET doy == Before(m) + d - 1
           IN  /\ doy \in Int /\ 0 <= doy /\ doy <= 365 /\ (doy = 365 => m = 2 /\ Leap(y) = 1)
               /\ Trunc(5 * doy + 2, 153) = MarchMonth(m)
<1>1. PICK len \in 28 .. 31 : len = ymdMonthLength(y, m)
  BY MonthLengths
<1>2. d \in 1 .. len
  BY <1>1
<1>3. PICK b \in Int : b = Before(m)
  BY DaysBefore
<1>4. PICK doy \in Int : doy = b + d - 1
  BY <1>2
<1>5. PICK k \in 0 .. 11 : k = MarchMonth(m)
  BY DEF MarchMonth
<1>6. \/ k = 0 /\ m = 3 /\ b = 0 /\ len = 31
      \/ k = 1 /\ m = 4 /\ b = 31 /\ len = 30
      \/ k = 2 /\ m = 5 /\ b = 61 /\ len = 31
      \/ k = 3 /\ m = 6 /\ b = 92 /\ len = 30
      \/ k = 4 /\ m = 7 /\ b = 122 /\ len = 31
      \/ k = 5 /\ m = 8 /\ b = 153 /\ len = 31
      \/ k = 6 /\ m = 9 /\ b = 184 /\ len = 30
      \/ k = 7 /\ m = 10 /\ b = 214 /\ len = 31
      \/ k = 8 /\ m = 11 /\ b = 245 /\ len = 30
      \/ k = 9 /\ m = 12 /\ b = 275 /\ len = 31
      \/ k = 10 /\ m = 1 /\ b = 306 /\ len = 31
      \/ k = 11 /\ m = 2 /\ b = 337 /\ len = 28 + Leap(y)
  <2>1. m \in {3, 5, 7, 8, 10, 12} \/ m \in {4, 6, 9, 11} \/ m = 1 \/ m = 2
    OBVIOUS
  <2>2. m = 2 => len = 28 + Leap(y)
    BY <1>1, MonthLengths DEF Leap
  <2>3. /\ m \in {3, 5, 7, 8, 10, 12} \/ m = 1 => len = 31
        /\ m \in {4, 6, 9, 11} => len = 30
    BY <1>1, MonthLengths
  <2>4. k = IF m > 2 THEN m - 3 ELSE m + 9
    BY <1>5 DEF MarchMonth
  <2> QED BY <1>3, <2>1, <2>2, <2>3, <2>4, DaysBefore
<1>7. Leap(y) \in {0, 1}
  BY DEF Leap
<1>8. 0 <= doy /\ doy <= 365 /\ (doy = 365 => m = 2 /\ Leap(y) = 1)
  BY <1>2, <1>4, <1>6, <1>7
<1>9. 153 * k <= 5 * doy + 2 /\ 5 * doy + 2 < 153 * (k + 1)
  BY <1>2, <1>4, <1>6, <1>7
<1>10. (5 * doy + 2) \div 153 = k
  BY <1>9
<1>11. Trunc(5 * doy + 2, 153) = k
  BY <1>8, <1>10 DEF Trunc
<1> QED BY <1>3, <1>4, <1>5, <1>8, <1>11

\* A date is found again from the number of its day.
LEMMA ThereAndBack ==
    ASSUME NEW t, DateType(t)
    PROVE  civilFromDays(daysFromCivil(t)) = t /\ daysFromCivil(t) \in Int
<1>1. PICK y \in Int, m \in 1 .. 12, d \in Int :
        t = Ymd(y, m, d) /\ d \in 1 .. ymdMonthLength(y, m)
  BY DEF DateType, IsDate
<1>2. ymdMonthLength(y, m) \in 28 .. 31 /\ d \in 1 .. 31
  BY <1>1, MonthLengths
<1>3. PICK Y \in Int : Y = MarchYear(y, m)
  BY DEF MarchYear
<1>4. PICK doy \in Int : doy = Before(m) + d - 1
  BY DaysBefore
<1>5. /\ 0 <= doy /\ doy <= 365 /\ (doy = 365 => m = 2 /\ Leap(y) = 1)
      /\ Trunc(5 * doy + 2, 153) = MarchMonth(m)
  BY <1>1, <1>4, MonthOfDay
<1>6. PICK era \in Int : era = Y \div 400
  OBVIOUS
<1>7. PICK yoe \in Int : yoe = Y - era * 400
  OBVIOUS
<1>8. 0 <= yoe /\ yoe < 400
  BY <1>6, <1>7
<1>9. PICK c \in Int, q \in Int, r \in Int :
        /\ c \in 0 .. 3 /\ q \in 0 .. 24 /\ r \in 0 .. 3
        /\ yoe = 100 * c + 4 * q + r
        /\ yoe \div 4 = 25 * c + q /\ yoe \div 100 = c
  BY <1>8, YearIsInEra
<1>10. InEra(c, q, r, doy)
  <2> SUFFICES ASSUME doy = 365 PROVE r = 3 /\ (q = 24 => c = 3)
    BY <1>5, <1>9 DEF InEra
  <2>1. y = Y + 1 /\ Leap(y) = 1
    BY <1>3, <1>5 DEF MarchYear
  <2>2. y = 400 * era + 100 * c + 4 * q + r + 1
    BY <1>7, <1>9, <2>1
  <2>3. y % 4 = 0 /\ (y % 100 # 0 \/ y % 400 = 0)
    BY <2>1 DEF Leap
  <2>4. r = 3
    BY <1>9, <2>2, <2>3
  <2>5. ASSUME q = 24 PROVE c = 3
    BY <1>9, <2>2, <2>3, <2>4, <2>5
  <2> QED BY <2>4, <2>5
<1>11. PICK doe \in Int : doe = DayOfEra(c, q, r, doy)
  BY DEF DayOfEra
<1>12. YearAndDay(doe, yoe, doy, q, c)
  BY <1>9, <1>10, <1>11, YearOfDay
<1>13. Days(Y) = era * 146097 + (365 * yoe + (yoe \div 4 - yoe \div 100))
  BY <1>6, <1>7 DEF Days
<1>14. daysFromCivil(t) + 719468 = era * 146097 + doe
  <2>1. daysFromCivil(t) = Days(Y) + Before(m) + d - 1 - 719468
    BY <1>1, <1>2, <1>3, DaysOfDate DEF Before
  <2>2. doe = (365 * yoe + (yoe \div 4 - yoe \div 100)) + doy
    BY <1>12 DEF YearAndDay
  <2>3. PICK a \in Int, b \in Int : a = yoe \div 4 /\ b = yoe \div 100
    OBVIOUS
  <2>4. Before(m) \in Int
    BY DaysBefore
  <2> QED BY <1>4, <1>13, <2>1, <2>2, <2>3, <2>4
<1>15. PICK n \in Int : n = daysFromCivil(t) /\ n + 719468 = era * 146097 + doe
  <2>1. daysFromCivil(t) \in Int
    <3>1. PICK e \in Int : e = Days(MarchYear(y, m))
      BY DEF Days, MarchYear
    <3>2. PICK b \in Int : b = Before(m)
      BY DaysBefore
    <3>3. daysFromCivil(t) = Days(MarchYear(y, m)) + Before(m) + d - 1 - 719468
      BY <1>1, <1>2, DaysOfDate DEF Before
    <3> QED BY <3>1, <3>2, <3>3
  <2> QED BY <1>14, <2>1
<1>16. PICK z \in Int : z = n + 719468
  OBVIOUS
<1>17. Trunc(IF z >= 0 THEN z ELSE z - 146096, 146097) = era
  <2>1. 0 <= z - era * 146097 /\ z - era * 146097 < 146097
    BY <1>12, <1>15, <1>16 DEF YearAndDay
  <2>2. z \div 146097 = era
    BY <2>1
  <2> QED BY <2>2 DEF Trunc
<1>18. z - era * 146097 = doe /\ YearNumber(doe) = yoe
  BY <1>12, <1>15, <1>16 DEF YearAndDay
<1>19. doe - (365 * yoe + Trunc(yoe, 4) - Trunc(yoe, 100)) = doy
  <2>1. Trunc(yoe, 4) = yoe \div 4 /\ Trunc(yoe, 100) = yoe \div 100
    BY <1>8 DEF Trunc
  <2>2. PICK a \in Int, b \in Int : a = yoe \div 4 /\ b = yoe \div 100
    OBVIOUS
  <2> QED BY <1>12, <2>1, <2>2 DEF YearAndDay
<1>20. PICK k \in 0 .. 11 : k = MarchMonth(m)
  BY DEF MarchMonth
<1>21. Trunc(5 * doy + 2, 153) = k /\ (IF k < 10 THEN k + 3 ELSE k - 9) = m
  BY <1>5, <1>20 DEF MarchMonth
<1>22. doy - Trunc(153 * k + 2, 5) + 1 = d
  <2>1. Trunc(153 * k + 2, 5) = Before(m)
    BY <1>20 DEF Trunc, Before
  <2> QED BY <1>4, <2>1, DaysBefore
<1>23. yoe + era * 400 + (IF m <= 2 THEN 1 ELSE 0) = y
  BY <1>3, <1>7 DEF MarchYear
<1>24. civilFromDays(n) = Ymd(y, m, d)
  BY <1>16, <1>17, <1>18, <1>19, <1>21, <1>22, <1>23 DEF civilFromDays, YearNumber
<1> QED BY <1>1, <1>15, <1>24

\* Every day has a date, and from it the date is found.
LEMMA DayHasDate ==
    ASSUME NEW n \in Int
    PROVE  \E t : DateType(t) /\ daysFromCivil(t) = n
<1>1. PICK z \in Int : z = n + 719468
  OBVIOUS
<1>2. PICK era \in Int : era = z \div 146097
  OBVIOUS
<1>3. PICK doe \in Int : doe = z - era * 146097 /\ 0 <= doe /\ doe < 146097
  BY <1>2
<1>4. PICK c \in Int, q \in Int, r \in Int, doy \in Int :
        InEra(c, q, r, doy) /\ doe = DayOfEra(c, q, r, doy)
  BY <1>3, DayIsInEra
<1>5. PICK yoe \in Int : yoe = 100 * c + 4 * q + r
  OBVIOUS
<1>6. PICK Y \in Int : Y = yoe + era * 400
  OBVIOUS
<1>7. YearAndDay(doe, yoe, doy, q, c)
  BY <1>4, <1>5, YearOfDay
<1>8. PICK k \in Int : k = (5 * doy + 2) \div 153
  OBVIOUS
<1>9. 0 <= doy /\ doy <= 365
  BY <1>4 DEF InEra
<1>10. k \in 0 .. 11
  BY <1>8, <1>9
<1>11. PICK m \in 1 .. 12 : m = IF k < 10 THEN k + 3 ELSE k - 9
  BY <1>10
<1>12. PICK y \in Int : y = IF m <= 2 THEN Y + 1 ELSE Y
  OBVIOUS
<1>13. MarchMonth(m) = k /\ MarchYear(y, m) = Y
  BY <1>10, <1>11, <1>12 DEF MarchMonth, MarchYear
<1>14. PICK b \in Int : b = Before(m)
  BY DaysBefore
<1>15. PICK d \in Int : d = doy - b + 1
  OBVIOUS
<1>16. doy = 365 => Leap(y) = 1
  <2> SUFFICES ASSUME doy = 365 PROVE Leap(y) = 1
    OBVIOUS
  <2>1. k = 11 /\ m = 2 /\ y = Y + 1
    BY <1>8, <1>11, <1>12
  <2>2. r = 3 /\ (q = 24 => c = 3) /\ q \in 0 .. 24 /\ c \in 0 .. 3
    BY <1>4 DEF InEra
  <2>3. y = 400 * era + 100 * c + 4 * q + 4
    BY <1>5, <1>6, <2>1, <2>2
  <2>4. y % 4 = 0
    BY <2>3
  <2>5. CASE q = 24
    <3>1. y = 400 * (era + 1)
      BY <2>2, <2>3, <2>5
    <3>2. y % 400 = 0
      BY <3>1
    <3> QED BY <3>2 DEF Leap
  <2>6. CASE q < 24
    <3>1. y % 100 # 0
      BY <2>2, <2>3, <2>6
    <3> QED BY <2>4, <3>1 DEF Leap
  <2> QED BY <2>2, <2>5, <2>6
<1>17. PICK len \in 28 .. 31 : len = ymdMonthLength(y, m)
  BY MonthLengths
<1>18. d \in 1 .. len
  <2>1. m \in {3, 5, 7, 8, 10, 12} \/ m \in {4, 6, 9, 11} \/ m = 1 \/ m = 2
    OBVIOUS
  <2>2. m = 2 => len = 28 + Leap(y)
    BY <1>17, MonthLengths DEF Leap
  <2>3. /\ m \in {3, 5, 7, 8, 10, 12} \/ m = 1 => len = 31
        /\ m \in {4, 6, 9, 11} => len = 30
    BY <1>17, MonthLengths
  <2>4. 153 * k <= 5 * doy + 2 /\ 5 * doy + 2 < 153 * (k + 1)
    BY <1>8
  <2>5. \/ k = 0 /\ m = 3 /\ b = 0 /\ len = 31
        \/ k = 1 /\ m = 4 /\ b = 31 /\ len = 30
        \/ k = 2 /\ m = 5 /\ b = 61 /\ len = 31
        \/ k = 3 /\ m = 6 /\ b = 92 /\ len = 30
        \/ k = 4 /\ m = 7 /\ b = 122 /\ len = 31
        \/ k = 5 /\ m = 8 /\ b = 153 /\ len = 31
        \/ k = 6 /\ m = 9 /\ b = 184 /\ len = 30
        \/ k = 7 /\ m = 10 /\ b = 214 /\ len = 31
        \/ k = 8 /\ m = 11 /\ b = 245 /\ len = 30
        \/ k = 9 /\ m = 12 /\ b = 275 /\ len = 31
        \/ k = 10 /\ m = 1 /\ b = 306 /\ len = 31
        \/ k = 11 /\ m = 2 /\ b = 337 /\ len = 28 + Leap(y)
    BY <1>10, <1>11, <1>14, <2>1, <2>2, <2>3, DaysBefore
  <2>6. Leap(y) \in {0, 1}
    BY DEF Leap
  <2> QED BY <1>9, <1>15, <1>16, <1>17, <2>4, <2>5, <2>6
<1>19. d \in 1 .. 31
  BY <1>17, <1>18
<1>20. DateType(Ymd(y, m, d))
  BY <1>17, <1>18 DEF DateType, Ymd, IsDate
<1>21. daysFromCivil(Ymd(y, m, d)) = n
  <2>1. daysFromCivil(Ymd(y, m, d)) = Days(Y) + b + d - 1 - 719468
    BY <1>13, <1>14, <1>19, DaysOfDate DEF Before
  <2>2. era = Y \div 400
    BY <1>5, <1>6, <1>7 DEF YearAndDay
  <2>3. Days(Y) = era * 146097 + (365 * yoe + (yoe \div 4 - yoe \div 100))
    BY <1>6, <2>2 DEF Days
  <2>4. doe = (365 * yoe + (yoe \div 4 - yoe \div 100)) + doy
    BY <1>7 DEF YearAndDay
  <2>5. PICK a1 \in Int, b1 \in Int : a1 = yoe \div 4 /\ b1 = yoe \div 100
    OBVIOUS
  <2> QED BY <1>1, <1>3, <1>15, <2>1, <2>3, <2>4, <2>5
<1> QED BY <1>20, <1>21

LEMMA BackAndThere ==
    ASSUME NEW n \in Int
    PROVE  DateType(civilFromDays(n)) /\ daysFromCivil(civilFromDays(n)) = n
<1>1. PICK t : DateType(t) /\ daysFromCivil(t) = n
  BY DayHasDate
<1>2. civilFromDays(n) = t
  BY <1>1, ThereAndBack
<1> QED BY <1>1, <1>2

\* Months further: the month meant, on a day that it has.
LEMMA MonthsFurther ==
    ASSUME NEW t, DateType(t), NEW n \in Int, t.y * 12 + (t.m - 1) + n >= 0
    PROVE  LET s == ymdAddMonths(t, n)
           IN  /\ IsDate(s) /\ s.d <= t.d /\ s.y * 12 + s.m = t.y * 12 + t.m + n
               /\ s.d < t.d => s.d = ymdMonthLength(s.y, s.m)
<1>1. PICK y \in Int, m \in 1 .. 12, d \in Int :
        t = Ymd(y, m, d) /\ t.y = y /\ t.m = m /\ t.d = d /\ d \in 1 .. ymdMonthLength(y, m)
  BY DEF DateType, IsDate
<1>2. ymdMonthLength(y, m) \in 28 .. 31 /\ d \in 1 .. 31
  BY <1>1, MonthLengths
<1>3. PICK mi \in Int : mi = y * 12 + (m - 1) + n /\ mi >= 0
  BY <1>1
<1>4. PICK yy \in Int : yy = mi \div 12
  OBVIOUS
<1>5. Trunc(mi, 12) = yy
  BY <1>3, <1>4 DEF Trunc
<1>6. PICK mm \in 1 .. 12 : mm = mi - yy * 12 + 1
  BY <1>4
<1>7. PICK len \in 28 .. 31 : len = ymdMonthLength(yy, mm)
  BY MonthLengths
<1>8. PICK dd \in 1 .. 31 : dd = IF d < len THEN d ELSE len
  BY <1>2
<1>9. ymdAddMonths(t, n) = Ymd(yy, mm, dd)
  BY <1>1, <1>3, <1>5, <1>6, <1>7, <1>8 DEF ymdAddMonths
<1>10. PICK s : s = Ymd(yy, mm, dd) /\ s.y = yy /\ s.m = mm /\ s.d = dd
  <2>1. Ymd(yy, mm, dd).y = yy /\ Ymd(yy, mm, dd).m = mm /\ Ymd(yy, mm, dd).d = dd
    BY DEF Ymd
  <2> QED BY <2>1
<1>11. IsDate(s)
  BY <1>7, <1>8, <1>10 DEF IsDate
<1>12. s.d <= t.d /\ (s.d < t.d => s.d = ymdMonthLength(s.y, s.m))
  BY <1>1, <1>2, <1>7, <1>8, <1>10
<1>13. s.y * 12 + s.m = t.y * 12 + t.m + n
  BY <1>1, <1>3, <1>6, <1>10
<1> QED BY <1>9, <1>10, <1>11, <1>12, <1>13

\* The grid starts on its weekday, less than a week before the month.
LEMMA GridHoldsMonth ==
    ASSUME NEW t, DateType(t), NEW mondayFirst \in BOOLEAN
    PROVE  LET g == gridStart(t, mondayFirst)
           IN  /\ ymdWeekday(g) = IF mondayFirst THEN 0 ELSE 6
               /\ ymdDiff(Ymd(t.y, t.m, 1), g) \in 0 .. 6
               /\ ymdDiff(Ymd(t.y, t.m, ymdMonthLength(t.y, t.m)), g) <= 41
<1>1. PICK y \in Int, m \in 1 .. 12 : t.y = y /\ t.m = m
  BY DEF DateType, IsDate
<1>2. PICK len \in 28 .. 31 : len = ymdMonthLength(y, m)
  BY MonthLengths
<1>3. PICK e \in Int : e = Days(MarchYear(y, m)) + Before(m) - 719468
  <2>1. PICK a \in Int : a = Days(MarchYear(y, m))
    BY DEF Days, MarchYear
  <2>2. PICK b \in Int : b = Before(m)
    BY DaysBefore
  <2> QED BY <2>1, <2>2
<1>4. ASSUME NEW d \in 1 .. 31
      PROVE  daysFromCivil(Ymd(y, m, d)) = e + d - 1
  <2>1. daysFromCivil(Ymd(y, m, d)) = Days(MarchYear(y, m)) + Before(m) + d - 1 - 719468
    BY DaysOfDate DEF Before
  <2>2. PICK a \in Int : a = Days(MarchYear(y, m))
    BY DEF Days, MarchYear
  <2>3. PICK b \in Int : b = Before(m)
    BY DaysBefore
  <2> QED BY <1>3, <2>1, <2>2, <2>3
<1>5. PICK first : first = Ymd(y, m, 1)
  OBVIOUS
<1>6. daysFromCivil(first) = e
  BY <1>4, <1>5
<1>7. PICK wd \in 0 .. 6 : wd = ((e % 7) + 7 + 3) % 7 /\ wd = ymdWeekday(first)
  BY <1>6 DEF ymdWeekday
<1>8. PICK k \in 0 .. 6 : k = IF mondayFirst THEN wd ELSE (wd + 1) % 7
  OBVIOUS
<1>9. gridStart(t, mondayFirst) = civilFromDays(e + (-k))
  BY <1>1, <1>5, <1>6, <1>7, <1>8 DEF gridStart, ymdAdd
<1>10. PICK g : g = civilFromDays(e + (-k))
  OBVIOUS
<1>11. daysFromCivil(g) = e - k
  <2>1. PICK n \in Int : n = e + (-k)
    OBVIOUS
  <2>2. daysFromCivil(civilFromDays(n)) = n
    BY BackAndThere
  <2> QED BY <1>10, <2>1, <2>2
<1>12. ymdWeekday(g) = IF mondayFirst THEN 0 ELSE 6
  <2>1. ymdWeekday(g) = (((e - k) % 7) + 7 + 3) % 7
    BY <1>11 DEF ymdWeekday
  <2>2. CASE mondayFirst
    BY <1>7, <1>8, <2>1, <2>2
  <2>3. CASE ~mondayFirst
    <3>1. PICK u \in Int, a \in 0 .. 6 : e = 7 * u + a /\ a = e % 7
      OBVIOUS
    <3>2. k = (a + 4) % 7
      <4>1. wd = (a + 3) % 7 /\ k = (wd + 1) % 7
        BY <1>7, <1>8, <2>3, <3>1
      <4> QED BY <4>1
    <3>3. (e - k) % 7 = 3
      <4>1. a + 4 = k \/ a + 4 = k + 7
        BY <3>2
      <4> QED BY <3>1, <4>1
    <3> QED BY <2>1, <2>3, <3>3
  <2> QED BY <2>2, <2>3
<1>13. ymdDiff(first, g) \in 0 .. 6
  BY <1>6, <1>11 DEF ymdDiff
<1>14. ymdDiff(Ymd(y, m, len), g) <= 41
  BY <1>2, <1>4, <1>11 DEF ymdDiff
<1> QED BY <1>1, <1>2, <1>5, <1>9, <1>10, <1>12, <1>13, <1>14

-----------------------------------------------------------------------------
(* The walk                                                                *)

WalkInv ==
    /\ DateType(wDate) /\ wDate.y > 1
    /\ walk = daysFromCivil(wDate) /\ wDay = ymdWeekday(wDate)

LEMMA WalkStarts == WalkInit => WalkInv
  BY AlmanacAssumption DEF WalkInit, WalkInv, DateType

LEMMA WalkStep == WalkInv /\ [WalkOn]_walkVars => WalkInv'
<1> SUFFICES ASSUME WalkInv, [WalkOn]_walkVars PROVE WalkInv'
  OBVIOUS
<1>1. CASE WalkOn
  <2>1. PICK t : t = wDate /\ DateType(t) /\ t.y > 1
    BY DEF WalkInv
  <2>2. PICK s : s = Tomorrow(t) /\ wDate' = s
    BY <1>1, <2>1 DEF WalkOn
  <2>3. DateType(s) /\ daysFromCivil(s) = daysFromCivil(t) + 1
    BY <2>1, <2>2, TomorrowIsNext
  <2>4. s.y > 1
    <3>1. s.y \in {t.y, t.y + 1}
      BY <2>1, <2>2 DEF Tomorrow, Ymd, DateType
    <3> QED BY <2>1, <3>1 DEF DateType
  <2>5. walk' = daysFromCivil(s)
    BY <1>1, <2>1, <2>3 DEF WalkOn, WalkInv
  <2>6. wDay' = ymdWeekday(s)
    <3>1. PICK n \in Int : n = daysFromCivil(t)
      BY <2>1, ThereAndBack
    <3>2. wDay = ((n % 7) + 7 + 3) % 7 /\ ymdWeekday(s) = (((n + 1) % 7) + 7 + 3) % 7
      BY <2>1, <2>3, <3>1 DEF WalkInv, ymdWeekday
    <3>3. PICK u \in Int, a \in 0 .. 6 : n = 7 * u + a /\ a = n % 7
      BY <3>1
    <3>4. (n + 1) % 7 = (a + 1) % 7
      <4>1. n + 1 = 7 * u + (a + 1) /\ (a = 6 => n + 1 = 7 * (u + 1))
        BY <3>3
      <4> QED BY <4>1
    <3> QED BY <1>1, <3>2, <3>3, <3>4 DEF WalkOn
  <2> QED BY <2>2, <2>3, <2>4, <2>5, <2>6 DEF WalkInv
<1>2. CASE UNCHANGED walkVars
  BY <1>2 DEF walkVars, WalkInv
<1> QED BY <1>1, <1>2

\* However far the walk goes, days and dates convert into one another, months
\* are added as the calendar has them and the grid holds the month: DatesAreRight.
THEOREM DatesAlwaysRight == WalkSpec => []DatesAreRight
<1>1. WalkInv => DatesAreRight
  <2> SUFFICES ASSUME WalkInv PROVE DatesAreRight
    OBVIOUS
  <2>1. PICK t : t = wDate /\ DateType(t) /\ t.y > 1
    BY DEF WalkInv
  <2>2. daysFromCivil(t) = walk /\ civilFromDays(walk) = t /\ ymdWeekday(t) = wDay /\ IsDate(t)
    BY <2>1, ThereAndBack DEF WalkInv, DateType
  <2>3. ASSUME NEW n \in {-13, -1, 1, 12}
        PROVE  LET s == ymdAddMonths(t, n)
               IN /\ IsDate(s) /\ s.d <= t.d /\ s.y * 12 + s.m = t.y * 12 + t.m + n
                  /\ s.d < t.d => s.d = ymdMonthLength(s.y, s.m)
    <3>1. t.y * 12 + (t.m - 1) + n >= 0
      BY <2>1 DEF DateType, IsDate
    <3> QED BY <2>1, <3>1, MonthsFurther
  <2>4. ASSUME NEW mondayFirst \in BOOLEAN
        PROVE  LET g == gridStart(t, mondayFirst)
               IN /\ ymdWeekday(g) = IF mondayFirst THEN 0 ELSE 6
                  /\ ymdDiff(Ymd(t.y, t.m, 1), g) \in 0 .. 6
                  /\ ymdDiff(Ymd(t.y, t.m, ymdMonthLength(t.y, t.m)), g) <= 41
    BY <2>1, GridHoldsMonth
  <2> QED BY <2>1, <2>2, <2>3, <2>4 DEF DatesAreRight
<1> QED BY <1>1, WalkStarts, WalkStep, PTL DEF WalkSpec

-----------------------------------------------------------------------------
(* A finite set of numbers in its order                                    *)

Rank(x, S) == Cardinality({y \in S : y < x})

LEMMA RankIsPlace ==
    ASSUME NEW S, S \subseteq Int, IsFiniteSet(S)
    PROVE  /\ Cardinality(S) \in Nat
           /\ \A x \in S : Rank(x, S) \in 0 .. Cardinality(S) - 1
           /\ \A x, y \in S : x < y => Rank(x, S) < Rank(y, S)
<1>1. Cardinality(S) \in Nat
  BY FS_CardinalityType
<1>2. ASSUME NEW x \in S
      PROVE  IsFiniteSet({y \in S : y < x}) /\ Rank(x, S) \in 0 .. Cardinality(S) - 1
  <2>1. PICK T : T = {y \in S : y < x}
    OBVIOUS
  <2>2. T \subseteq S /\ T # S
    BY <2>1
  <2>3. /\ IsFiniteSet(T) /\ Cardinality(T) <= Cardinality(S)
        /\ Cardinality(S) = Cardinality(T) => S = T
    BY <2>2, FS_Subset
  <2>4. Cardinality(T) \in Nat
    BY <2>3, FS_CardinalityType
  <2>5. Cardinality(T) < Cardinality(S)
    BY <1>1, <2>2, <2>3, <2>4
  <2> QED BY <1>1, <2>1, <2>3, <2>4, <2>5 DEF Rank
<1>3. ASSUME NEW x \in S, NEW y \in S, x < y PROVE Rank(x, S) < Rank(y, S)
  <2>1. PICK T, U : T = {z \in S : z < x} /\ U = {z \in S : z < y}
    OBVIOUS
  <2>2. T \subseteq U
    <3>1. \A z \in S : z < x => z < y
      BY <1>3
    <3> QED BY <2>1, <3>1
  <2>3. x \in U /\ x \notin T
    BY <1>3, <2>1
  <2>4. IsFiniteSet(T) /\ IsFiniteSet(U)
    BY <1>2, <2>1
  <2>5. Cardinality(T) \in Nat /\ Cardinality(U) \in Nat
    BY <2>4, FS_CardinalityType
  <2>6. Cardinality(T) <= Cardinality(U) /\ (Cardinality(U) = Cardinality(T) => U = T)
    BY <2>2, <2>4, FS_Subset
  <2>7. Cardinality(T) < Cardinality(U)
    BY <2>3, <2>5, <2>6
  <2> QED BY <2>1, <2>7 DEF Rank
<1> QED BY <1>1, <1>2, <1>3

LEMMA RankReached ==
    ASSUME NEW S, S \subseteq Int, IsFiniteSet(S), NEW i \in 0 .. Cardinality(S) - 1
    PROVE  \E x \in S : Rank(x, S) = i
<1> DEFINE f == [x \in S |-> Rank(x, S)]
<1>1. PICK n \in Nat : n = Cardinality(S)
  BY FS_CardinalityType
<1>2. PICK T : T = 0 .. n - 1
  OBVIOUS
<1>3. IsFiniteSet(T) /\ Cardinality(T) = n
  <2>1. IsFiniteSet(0 .. n - 1) /\ Cardinality(0 .. n - 1) = IF 0 > n - 1 THEN 0 ELSE (n - 1) - 0 + 1
    BY FS_Interval
  <2> QED BY <1>2, <2>1
<1>4. f \in Injection(S, T)
  <2>1. f \in [S -> T]
    BY <1>1, <1>2, RankIsPlace
  <2>2. ASSUME NEW x \in S, NEW y \in S, f[x] = f[y] PROVE x = y
    <3>1. Rank(x, S) = Rank(y, S) /\ x \in Int /\ y \in Int
      BY <2>2
    <3>2. \A v, w \in S : v < w => Rank(v, S) < Rank(w, S)
      BY RankIsPlace
    <3>3. Rank(x, S) \in Int
      <4>1. Rank(x, S) \in 0 .. Cardinality(S) - 1
        BY RankIsPlace
      <4> QED BY <1>1, <4>1
    <3>4. ~(x < y) /\ ~(y < x)
      BY <3>1, <3>2, <3>3
    <3> QED BY <3>1, <3>4
  <2> HIDE DEF f
  <2> QED BY <2>1, <2>2 DEF Injection, IsInjective
<1>5. f \in Surjection(S, T)
  <2> HIDE DEF f
  <2> QED BY <1>1, <1>3, <1>4, FS_Injection
<1> QED BY <1>1, <1>2, <1>5 DEF Surjection

\* Sorted() lists the members of the set, and all of them.
LEMMA SortedLists ==
    ASSUME NEW S, S \subseteq Int, IsFiniteSet(S)
    PROVE  /\ Sorted(S) \in Seq(S)
           /\ \A x \in S : \E i \in DOMAIN Sorted(S) : Sorted(S)[i] = x
<1>1. PICK n \in Nat : n = Cardinality(S)
  BY FS_CardinalityType
<1>2. PICK q : q = Sorted(S)
  OBVIOUS
<1>3. DOMAIN q = 1 .. n /\ q = [i \in 1 .. n |-> q[i]]
  <2>1. q = [i \in 1 .. n |-> CHOOSE x \in S : Cardinality({y \in S : y < x}) = i - 1]
    BY <1>1, <1>2, Zenon DEF Sorted
  <2> DEFINE P(i) == CHOOSE x \in S : Cardinality({y \in S : y < x}) = i - 1
  <2>2. q = [i \in 1 .. n |-> P(i)]
    BY <2>1
  <2> HIDE DEF P
  <2> QED BY <2>2
<1>4. ASSUME NEW i \in 1 .. n
      PROVE  q[i] \in S /\ Rank(q[i], S) = i - 1
  <2>1. \E x \in S : Rank(x, S) = i - 1
    <3>1. PICK j : j = i - 1
      OBVIOUS
    <3>2. j \in 0 .. Cardinality(S) - 1
      BY <1>1, <3>1
    <3>3. \E x \in S : Rank(x, S) = j
      BY <3>2, RankReached
    <3> QED BY <3>1, <3>3
  <2>2. q[i] = CHOOSE x \in S : Rank(x, S) = i - 1
    BY <1>1, <1>2, Zenon DEF Sorted, Rank
  <2> QED BY <2>1, <2>2
<1>5. q \in Seq(S)
  BY <1>3, <1>4
<1>6. ASSUME NEW x \in S PROVE \E i \in DOMAIN q : q[i] = x
  <2>1. PICK i \in 1 .. n : Rank(x, S) = i - 1
    <3>1. Rank(x, S) \in 0 .. n - 1
      BY <1>1, RankIsPlace
    <3>2. PICK j \in Int : j = Rank(x, S) + 1
      BY <3>1
    <3> QED BY <3>1, <3>2
  <2>2. \A v, w \in S : v < w => Rank(v, S) < Rank(w, S)
    BY RankIsPlace
  <2>3. q[i] = x
    <3>1. PICK z \in S : z = q[i] /\ Rank(z, S) = Rank(x, S)
      BY <1>4, <2>1
    <3>2. Rank(x, S) \in Int /\ z \in Int /\ x \in Int
      BY <2>1
    <3>3. ~(z < x) /\ ~(x < z)
      BY <2>2, <3>1, <3>2
    <3> QED BY <3>1, <3>2, <3>3
  <2> QED BY <1>3, <2>3
<1> QED BY <1>2, <1>5, <1>6

\* The least of some positive numbers is one of them.
LEMMA LeastIsOne ==
    ASSUME NEW S, S \subseteq Nat, S # {}
    PROVE  Min(S) \in S
<1>1. PICK x \in S : \A y \in S : x <= y
  <2> DEFINE T == {n \in Nat : \A m \in 0 .. n : m \notin S}
  <2>1. CASE 0 \in S
    BY <2>1
  <2>2. CASE 0 \notin S
    <3>1. 0 \in T
      BY <2>2
    <3>2. PICK z \in S : z \notin T
      <4>1. PICK z : z \in S /\ z \in Nat
        OBVIOUS
      <4>2. z \in 0 .. z
        BY <4>1
      <4> QED BY <4>1, <4>2
    <3>3. PICK n \in Nat : n \in T /\ n + 1 \notin T
      <4> HIDE DEF T
      <4>1. ASSUME \A n \in Nat : n \in T => n + 1 \in T PROVE FALSE
        <5>1. \A n \in Nat : n \in T
          BY <3>1, <4>1, SetInduction
        <5> QED BY <3>2, <5>1
      <4> QED BY <4>1
    <3>4. n + 1 \in S
      BY <3>3
    <3>5. \A y \in S : n + 1 <= y
      BY <3>3
    <3> QED BY <3>4, <3>5
  <2> QED BY <2>1, <2>2
<1> QED BY <1>1 DEF Min

-----------------------------------------------------------------------------
(* What the agenda shows                                                   *)

AnyRow == [kind : {"head", "none", "event"}, date : Int, uid : Nat]

LEMMA DayShown ==
    ASSUME NEW occ, NEW d \in Int
    PROVE  LET q == agendaDay(occ, d)
           IN  /\ q \in Seq(AnyRow) /\ 1 \in DOMAIN q /\ q[1] = Row("head", d, None)
               /\ \A k \in DOMAIN q : q[k].date = d
<1>1. PICK S : S = {u \in Uids : <<d, u>> \in occ}
  OBVIOUS
<1>2. S \subseteq Uids /\ Uids \subseteq Nat /\ IsFiniteSet(Uids)
  BY <1>1, ConstantsOK
<1>3. IsFiniteSet(S) /\ S \subseteq Int
  <2>1. S \in SUBSET Uids
    BY <1>2
  <2>2. IsFiniteSet(S)
    BY <1>2, <2>1, FS_Subset
  <2> QED BY <1>2, <2>2
<1>4. PICK on : on = Sorted(S) /\ on \in Seq(S)
  BY <1>3, SortedLists
<1>5. PICK h : h = <<Row("head", d, None)>>
  OBVIOUS
<1>6. h \in Seq(AnyRow) /\ Len(h) = 1 /\ h[1] = Row("head", d, None) /\ h[1].date = d
  BY <1>5 DEF AnyRow, Row, None
<1>7. PICK b : b = IF on = <<>> THEN <<Row("none", d, None)>>
                   ELSE [i \in DOMAIN on |-> Row("event", d, on[i])]
  OBVIOUS
<1>8. b \in Seq(AnyRow) /\ \A k \in DOMAIN b : b[k].date = d
  <2>1. CASE on = <<>>
    <3>1. b = <<Row("none", d, None)>>
      BY <1>7, <2>1
    <3> QED BY <3>1 DEF AnyRow, Row, None
  <2>2. CASE on # <<>>
    <3>1. b = [i \in DOMAIN on |-> Row("event", d, on[i])]
      BY <1>7, <2>2
    <3>2. PICK n \in Nat : DOMAIN on = 1 .. n
      BY <1>4
    <3>3. ASSUME NEW i \in 1 .. n PROVE Row("event", d, on[i]) \in AnyRow /\ Row("event", d, on[i]).date = d
      <4>1. on[i] \in S
        BY <1>4, <3>2
      <4>2. on[i] \in Nat
        BY <1>2, <4>1
      <4> QED BY <4>2 DEF AnyRow, Row
    <3>4. b = [i \in 1 .. n |-> Row("event", d, on[i])]
      BY <3>1, <3>2
    <3> QED BY <3>3, <3>4
  <2> QED BY <2>1, <2>2
<1>9. agendaDay(occ, d) = h \o b
  BY <1>1, <1>4, <1>5, <1>7 DEF agendaDay
<1>10. PICK q : q = h \o b
  OBVIOUS
<1>11. /\ q \in Seq(AnyRow) /\ DOMAIN q = 1 .. 1 + Len(b) /\ Len(b) \in Nat
       /\ q[1] = h[1] /\ \A k \in 2 .. 1 + Len(b) : q[k] = b[k - 1]
  <2>1. PICK m \in Nat : m = Len(b)
    BY <1>8
  <2>2. /\ q \in Seq(AnyRow) /\ Len(q) = 1 + m
        /\ \A i \in 1 .. 1 + m : q[i] = IF i <= 1 THEN h[i] ELSE b[i - 1]
    <3>1. b \in Seq(AnyRow) /\ h \in Seq(AnyRow)
      BY <1>6, <1>8
    <3>2. /\ h \o b \in Seq(AnyRow) /\ Len(h \o b) = Len(h) + Len(b)
          /\ \A i \in 1 .. Len(h) + Len(b) : (h \o b)[i] =
                IF i <= Len(h) THEN h[i] ELSE b[i - Len(h)]
      BY <3>1, ConcatProperties
    <3>3. Len(h) = 1 /\ Len(b) = m
      BY <1>6, <2>1
    <3> QED BY <1>10, <3>2, <3>3
  <2>3. DOMAIN q = 1 .. 1 + m
    BY <2>1, <2>2
  <2>4. q[1] = h[1] /\ \A k \in 2 .. 1 + m : q[k] = b[k - 1]
    BY <2>1, <2>2
  <2> QED BY <2>1, <2>2, <2>3, <2>4
<1>12. ASSUME NEW k \in DOMAIN q PROVE q[k].date = d
  <2>1. CASE k = 1
    BY <1>6, <1>11, <2>1
  <2>2. CASE k # 1
    <3>1. PICK j : j = k - 1
      OBVIOUS
    <3>2. k \in 2 .. 1 + Len(b) /\ j \in DOMAIN b
      BY <1>8, <1>11, <2>2, <3>1
    <3> QED BY <1>8, <1>11, <3>1, <3>2
  <2> QED BY <2>1, <2>2
<1> QED BY <1>6, <1>9, <1>10, <1>11, <1>12

\* The function in agendaRows, up to n
WithDay(q, occ, d) == q \o agendaDay(occ, d)
Made(f, occ, days, n) ==
    f = [i \in 0 .. n |-> IF i = 0 THEN <<>> ELSE WithDay(f[i - 1], occ, days[i])]

LEMMA MadeStep ==
    ASSUME NEW occ, NEW days, NEW n \in Nat, NEW f, Made(f, occ, days, n)
    PROVE  \A i \in 1 .. n : f[i] = WithDay(f[i - 1], occ, days[i])
<1>1. \A i \in 1 .. n : i \in 0 .. n /\ i # 0
  OBVIOUS
<1> QED BY <1>1, Zenon DEF Made

LEMMA MadeExists ==
    ASSUME NEW occ, NEW days
    PROVE  \A n \in Nat : \E f : Made(f, occ, days, n)
<1> DEFINE T == {n \in Nat : \E f : Made(f, occ, days, n)}
<1>1. 0 \in T
  <2>1. Made([i \in {0} |-> <<>>], occ, days, 0)
    BY DEF Made
  <2> QED BY <2>1
<1>2. ASSUME NEW n \in Nat, n \in T PROVE n + 1 \in T
  <2>1. PICK f : Made(f, occ, days, n)
    BY <1>2
  <2>5. \A j \in 1 .. n : f[j] = WithDay(f[j - 1], occ, days[j])
    BY <2>1, MadeStep
  <2> DEFINE last == WithDay(f[n], occ, days[n + 1])
             g == [i \in 0 .. n + 1 |-> IF i = n + 1 THEN last ELSE f[i]]
  <2>2. ASSUME NEW i \in 0 .. n + 1
        PROVE  g[i] = IF i = 0 THEN <<>> ELSE WithDay(g[i - 1], occ, days[i])
    <3>1. CASE i = n + 1
      <4>1. g[i] = last /\ n \in 0 .. n + 1 /\ g[n] = f[n] /\ i - 1 = n /\ i # 0
        BY <3>1
      <4>2. days[i] = days[n + 1] /\ g[i - 1] = f[n]
        BY <3>1, <4>1
      <4> HIDE DEF g
      <4> QED BY <4>1, <4>2
    <3>2. CASE i = 0
      BY <2>1, <3>2 DEF Made
    <3>3. CASE i \in 1 .. n
      <4>1. f[i] = WithDay(f[i - 1], occ, days[i])
        BY <2>5, <3>3, Zenon
      <4>2. g[i] = f[i] /\ g[i - 1] = f[i - 1] /\ i # 0
        BY <3>3
      <4> HIDE DEF g
      <4> QED BY <4>1, <4>2, Zenon
    <3> QED BY <3>1, <3>2, <3>3
  <2>3. g = [i \in 0 .. n + 1 |-> g[i]]
    OBVIOUS
  <2>4. Made(g, occ, days, n + 1)
    <3> HIDE DEF g
    <3> QED BY <2>2, <2>3 DEF Made
  <2> QED BY <2>4
<1> HIDE DEF T
<1>3. \A n \in Nat : n \in T
  BY <1>1, <1>2, SetInduction
<1> QED BY <1>3 DEF T

\* Rows of the first n of some days: a heading for each, and no other date.
RowsOf(q, days, n) ==
    /\ q \in Seq(AnyRow)
    /\ \A k \in DOMAIN q : \E j \in 1 .. n : q[k].date = days[j]
    /\ \A j \in 1 .. n : \E k \in DOMAIN q : q[k] = Row("head", days[j], None)

LEMMA RowsGrow ==
    ASSUME NEW occ, NEW days, NEW n \in Nat, days[n + 1] \in Int, NEW q, RowsOf(q, days, n)
    PROVE  RowsOf(q \o agendaDay(occ, days[n + 1]), days, n + 1)
<1>1. PICK d \in Int : d = days[n + 1]
  OBVIOUS
<1>2. PICK b : b = agendaDay(occ, d)
  OBVIOUS
<1>3. /\ b \in Seq(AnyRow) /\ 1 \in DOMAIN b /\ b[1] = Row("head", d, None)
      /\ \A k \in DOMAIN b : b[k].date = d
  BY <1>2, DayShown
<1>4. q \in Seq(AnyRow)
  BY DEF RowsOf
<1>5. PICK z : z = q \o b
  OBVIOUS
<1>6. PICK l \in Nat, m \in Nat : l = Len(q) /\ m = Len(b) /\ DOMAIN q = 1 .. l /\ DOMAIN b = 1 .. m
  BY <1>3, <1>4
<1>7. /\ z \in Seq(AnyRow) /\ DOMAIN z = 1 .. l + m
      /\ \A k \in 1 .. l : z[k] = q[k]
      /\ \A k \in 1 .. m : z[l + k] = b[k]
  <2>1. /\ z \in Seq(AnyRow) /\ Len(z) = l + m
        /\ \A i \in 1 .. l + m : z[i] = IF i <= l THEN q[i] ELSE b[i - l]
    BY <1>3, <1>4, <1>5, <1>6, ConcatProperties
  <2>2. DOMAIN z = 1 .. l + m
    BY <2>1
  <2>3. \A k \in 1 .. l : z[k] = q[k]
    BY <2>1
  <2>4. ASSUME NEW k \in 1 .. m PROVE z[l + k] = b[k]
    <3>1. PICK i \in Int : i = l + k
      OBVIOUS
    <3>2. i \in 1 .. l + m /\ ~(i <= l) /\ i - l = k
      BY <3>1
    <3> QED BY <2>1, <3>1, <3>2
  <2> QED BY <2>1, <2>2, <2>3, <2>4
<1>8. ASSUME NEW k \in DOMAIN z PROVE \E j \in 1 .. n + 1 : z[k].date = days[j]
  <2>1. CASE k \in 1 .. l
    <3>1. PICK j \in 1 .. n : q[k].date = days[j]
      BY <1>6, <2>1 DEF RowsOf
    <3> QED BY <1>7, <2>1, <3>1
  <2>2. CASE k \notin 1 .. l
    <3>1. PICK i \in 1 .. m : k = l + i
      <4>0. k \in 1 .. l + m
        BY <1>7
      <4>1. PICK x \in Int : x = k - l
        BY <4>0
      <4>2. x \in 1 .. m /\ k = l + x
        BY <2>2, <4>0, <4>1
      <4> QED BY <4>2
    <3>2. z[k] = b[i]
      <4>1. z[l + i] = b[i]
        BY <1>7, Zenon
      <4> QED BY <3>1, <4>1
    <3>3. i \in DOMAIN b
      BY <1>6
    <3>4. b[i].date = d
      BY <1>3, <3>3, Zenon
    <3>5. z[k].date = days[n + 1]
      BY <1>1, <3>2, <3>4, Zenon
    <3>6. n + 1 \in 1 .. n + 1
      OBVIOUS
    <3> QED BY <3>5, <3>6, Zenon
  <2> QED BY <2>1, <2>2
<1>9. ASSUME NEW j \in 1 .. n + 1 PROVE \E k \in DOMAIN z : z[k] = Row("head", days[j], None)
  <2>1. CASE j \in 1 .. n
    <3>1. PICK k \in DOMAIN q : q[k] = Row("head", days[j], None)
      BY <2>1 DEF RowsOf
    <3>2. k \in 1 .. l /\ k \in DOMAIN z
      BY <1>6, <1>7, <3>1
    <3> QED BY <1>7, <3>1, <3>2
  <2>2. CASE j = n + 1
    <3>1. 1 \in 1 .. m /\ l + 1 \in DOMAIN z
      BY <1>3, <1>6, <1>7
    <3>2. z[l + 1] = Row("head", d, None)
      BY <1>3, <1>7, <3>1
    <3> QED BY <1>1, <2>2, <3>1, <3>2
  <2> QED BY <2>1, <2>2
<1>10. RowsOf(z, days, n + 1)
  BY <1>7, <1>8, <1>9 DEF RowsOf
<1> QED BY <1>1, <1>2, <1>5, <1>10

LEMMA AgendaShown ==
    ASSUME NEW occ, NEW days \in Seq(Int)
    PROVE  RowsOf(agendaRows(occ, days), days, Len(days))
<1> DEFINE f == CHOOSE f : Made(f, occ, days, Len(days))
<1>1. PICK l \in Nat : l = Len(days)
  OBVIOUS
<1>2. Made(f, occ, days, Len(days))
  BY <1>1, MadeExists
<1>3. agendaRows(occ, days) = f[Len(days)]
  BY DEF agendaRows, Made, WithDay
<1> HIDE DEF f
<1>7. \A i \in 1 .. l : f[i] = WithDay(f[i - 1], occ, days[i])
  <2>1. Made(f, occ, days, l)
    BY <1>1, <1>2
  <2> QED BY <2>1, MadeStep
<1> DEFINE Good == {n \in Nat : n <= Len(days) => RowsOf(f[n], days, n)}
<1>4. 0 \in Good
  <2>1. f[0] = <<>>
    BY <1>1, <1>2 DEF Made
  <2>2. RowsOf(<<>>, days, 0)
    BY DEF RowsOf
  <2> QED BY <2>1, <2>2
<1>5. ASSUME NEW n \in Nat, n \in Good PROVE n + 1 \in Good
  <2> SUFFICES ASSUME n + 1 <= Len(days) PROVE RowsOf(f[n + 1], days, n + 1)
    OBVIOUS
  <2>1. RowsOf(f[n], days, n)
    BY <1>1, <1>5
  <2>2. n + 1 \in 1 .. Len(days) /\ (n + 1) - 1 = n
    BY <1>1
  <2>3. f[n + 1] = WithDay(f[n], occ, days[n + 1])
    <3>1. PICK m \in 1 .. l : m = n + 1 /\ m - 1 = n
      BY <1>1, <2>2
    <3>2. f[m] = WithDay(f[m - 1], occ, days[m])
      BY <1>7
    <3> QED BY <3>1, <3>2
  <2>4. days[n + 1] \in Int
    BY <2>2
  <2>5. RowsOf(WithDay(f[n], occ, days[n + 1]), days, n + 1)
    BY <2>1, <2>4, RowsGrow DEF WithDay
  <2> QED BY <2>3, <2>5
<1> HIDE DEF Good
<1>6. \A n \in Nat : n \in Good
  BY <1>4, <1>5, SetInduction
<1> QED BY <1>1, <1>3, <1>6 DEF Good

-----------------------------------------------------------------------------
(* Reminders                                                               *)

RemindInv == RemindedOnce /\ DOMAIN told \subseteq fired

\* Only the poll reminds.
LEMMA WhoReminds ==
    ASSUME [CalNext]_calVars
    PROVE  UNCHANGED reminding \/ \E heard \in BOOLEAN : reminders(heard)
<1>1. CASE UNCHANGED calVars
  BY <1>1 DEF calVars, reminding
<1>2. CASE calPoll
  <2>1. reminders(TRUE) \/ reminders(FALSE) \/ UNCHANGED reminding
    <3>1. PICK times, what : IF "due" \in times THEN reminders(what # "due") ELSE UNCHANGED reminding
      BY <1>2 DEF calPoll
    <3>2. CASE "due" \in times /\ what = "due"
      <4>1. reminders(FALSE)
        BY <3>1, <3>2
      <4> QED BY <4>1
    <3>3. CASE "due" \in times /\ what # "due"
      <4>1. reminders(TRUE)
        BY <3>1, <3>3
      <4> QED BY <4>1
    <3>4. CASE "due" \notin times
      BY <3>1, <3>4
    <3> QED BY <3>2, <3>3, <3>4
  <2> QED BY <2>1
<1>3. CASE moveDays \/ moveMonths \/ goToday \/ clicked \/ gotoDate
  BY <1>3 DEF moveDays, moveMonths, goToday, clicked, gotoDate, Picks
<1>4. CASE AgendaMoved \/ TodoMoved \/ focusPane \/ setShowDone
  BY <1>4 DEF AgendaMoved, TodoMoved, focusPane, setShowDone
<1>5. CASE newEvent \/ newTodo \/ editEvent \/ deleteEvent \/ editTodo \/ deleteTodo \/ mailInvite
  BY <1>5 DEF newEvent, newTodo, editEvent, deleteEvent, editTodo, deleteTodo, mailInvite, Asks
<1>6. CASE shareInChat \/ toggleTodo \/ ImportOrFloyd
  BY <1>6 DEF shareInChat, toggleTodo, ImportOrFloyd
<1>7. CASE AnswerNew \/ AnswerEdit \/ AnswerEditWithDelete \/ AnswerRemove
  BY <1>7 DEF AnswerNew, AnswerEdit, AnswerEditWithDelete, AnswerRemove
<1>8. CASE AnswerNewTodo \/ AnswerRemoveTodo \/ AnswerOther \/ AnswerNo
  BY <1>8 DEF AnswerNewTodo, AnswerRemoveTodo, AnswerOther, AnswerNo
<1>9. CASE OthersChange \/ Midnight \/ OtherAsks \/ AnotherAnswers
  BY <1>9 DEF OthersChange, Midnight, OtherAsks, AnotherAnswers
<1>10. CASE \/ incoming \/ IncomingGone \/ IncomingAdded \/ IncomingUnheard \/ IncomingKept
           \/ IncomingDiscarded \/ IncomingEnds
  BY <1>10 DEF incoming, IncomingGone, IncomingAdded, IncomingUnheard, IncomingKept,
               IncomingDiscarded, IncomingEnds
<1> QED BY <1>1, <1>2, <1>3, <1>4, <1>5, <1>6, <1>7, <1>8, <1>9, <1>10 DEF CalNext

LEMMA RemindStarts == CalInit => RemindInv
  BY DEF CalInit, RemindInv, RemindedOnce

LEMMA RemindStep ==
    ASSUME RemindInv, [CalNext]_calVars
    PROVE  RemindInv'
<1>1. CASE UNCHANGED reminding
  BY <1>1 DEF RemindInv, RemindedOnce, reminding
<1>2. ASSUME NEW heard \in BOOLEAN, reminders(heard) PROVE RemindInv'
  <2>1. PICK new : new = Due \ fired
    OBVIOUS
  <2>2. fired' = fired \cup new /\ new \cap fired = {}
    BY <1>2, <2>1 DEF reminders
  <2>3. CASE heard
    <3>1. /\ told' = [k \in DOMAIN told \cup new |->
                        (IF k \in DOMAIN told THEN told[k] ELSE 0) + (IF k \in new THEN 1 ELSE 0)]
          /\ missed' = missed
      BY <1>2, <2>1, <2>3 DEF reminders
    <3>2. DOMAIN told' = DOMAIN told \cup new
      BY <3>1
    <3>3. ASSUME NEW k \in DOMAIN told \cup new PROVE told'[k] = 1
      <4>1. told'[k] = (IF k \in DOMAIN told THEN told[k] ELSE 0) + (IF k \in new THEN 1 ELSE 0)
        BY <3>1
      <4>2. k \in new => k \notin DOMAIN told
        BY <2>2 DEF RemindInv
      <4>3. k \in DOMAIN told => told[k] = 1
        BY DEF RemindInv, RemindedOnce
      <4> QED BY <4>1, <4>2, <4>3
    <3> QED BY <2>2, <3>1, <3>2, <3>3 DEF RemindInv, RemindedOnce
  <2>4. CASE ~heard
    <3>1. told' = told /\ missed' = missed \cup new
      BY <1>2, <2>1, <2>4 DEF reminders
    <3> QED BY <2>2, <3>1 DEF RemindInv, RemindedOnce
  <2> QED BY <2>3, <2>4
<1> QED BY <1>1, <1>2, WhoReminds

-----------------------------------------------------------------------------
(* Requests of other programs                                              *)

AskedInv ==
    /\ pend \in Seq(Reqs) /\ files \subseteq Reqs /\ IsFiniteSet(files)
    /\ files \cup ToSet(pend) \subseteq asked /\ files \cap ToSet(pend) = {}
    /\ added \in [Reqs -> Nat] /\ unheard \in [Reqs -> Nat]
    /\ \A r \in Reqs : unheard[r] <= added[r]
    /\ \A r \in Reqs \ excused : added[r] > unheard[r] => r \in asked
    /\ NoRequestLostOrTwice

\* Who has to do with requests at all
LEMMA WhoAsks ==
    ASSUME [CalNext]_calVars
    PROVE  \/ UNCHANGED <<files, pend, asked, added, unheard, settled, excused>>
           \/ OtherAsks \/ AnotherAnswers \/ IncomingAdded \/ IncomingUnheard
           \/ IncomingDiscarded \/ calPoll
<1>1. CASE UNCHANGED calVars
  BY <1>1 DEF calVars, asking
<1>3. CASE moveDays \/ moveMonths \/ goToday \/ clicked \/ gotoDate
  BY <1>3 DEF moveDays, moveMonths, goToday, clicked, gotoDate, Picks, asking
<1>4. CASE AgendaMoved \/ TodoMoved \/ focusPane \/ setShowDone
  BY <1>4 DEF AgendaMoved, TodoMoved, focusPane, setShowDone, asking
<1>5. CASE newEvent \/ newTodo \/ editEvent \/ deleteEvent \/ editTodo \/ deleteTodo \/ mailInvite
  BY <1>5 DEF newEvent, newTodo, editEvent, deleteEvent, editTodo, deleteTodo, mailInvite, Asks, asking
<1>6. CASE shareInChat \/ toggleTodo \/ ImportOrFloyd
  BY <1>6 DEF shareInChat, toggleTodo, ImportOrFloyd, asking
<1>7. CASE AnswerNew \/ AnswerEdit \/ AnswerEditWithDelete \/ AnswerRemove
  BY <1>7 DEF AnswerNew, AnswerEdit, AnswerEditWithDelete, AnswerRemove, asking
<1>8. CASE AnswerNewTodo \/ AnswerRemoveTodo \/ AnswerOther \/ AnswerNo
  BY <1>8 DEF AnswerNewTodo, AnswerRemoveTodo, AnswerOther, AnswerNo, asking
<1>9. CASE OthersChange \/ Midnight
  BY <1>9 DEF OthersChange, Midnight, asking
<1>10. CASE incoming \/ IncomingGone \/ IncomingKept \/ IncomingEnds
  BY <1>10 DEF incoming, IncomingGone, IncomingKept, IncomingEnds
<1> QED BY <1>1, <1>3, <1>4, <1>5, <1>6, <1>7, <1>8, <1>9, <1>10 DEF CalNext

LEMMA AskedStarts == CalInit => AskedInv
<1> SUFFICES ASSUME CalInit PROVE AskedInv
  OBVIOUS
<1>1. /\ files = {} /\ pend = <<>> /\ asked = {} /\ added = [r \in Reqs |-> 0]
      /\ unheard = [r \in Reqs |-> 0]
  BY DEF CalInit
<1>2. IsFiniteSet(files)
  BY <1>1, FS_EmptySet
<1>3. ToSet(pend) = {} /\ pend \in Seq(Reqs)
  BY <1>1 DEF ToSet
<1> QED BY <1>1, <1>2, <1>3 DEF AskedInv, NoRequestLostOrTwice

\* One request taken off the list
LEMMA OneDropped ==
    ASSUME NEW q \in Seq(Reqs), NEW r
    PROVE  Keep(q, Reqs \ {r}) \in Seq(Reqs) /\ ToSet(Keep(q, Reqs \ {r})) = ToSet(q) \ {r}
<1>1. PICK S : S = Reqs \ {r}
  OBVIOUS
<1>2. PICK k : k = Keep(q, S)
  OBVIOUS
<1>3. /\ k \in Seq(Reqs \cap S)
      /\ \A i \in DOMAIN k : \E j \in DOMAIN q : k[i] = q[j]
      /\ \A j \in DOMAIN q : q[j] \in S => \E i \in DOMAIN k : k[i] = q[j]
  BY <1>2, KeepMembers
<1>4. k \in Seq(Reqs) /\ \A i \in DOMAIN k : k[i] # r
  BY <1>1, <1>3
<1>5. \A j \in DOMAIN q : q[j] \in Reqs
  OBVIOUS
<1>6. ToSet(k) \subseteq ToSet(q) \ {r}
  BY <1>3, <1>4 DEF ToSet
<1>7. ToSet(q) \ {r} \subseteq ToSet(k)
  BY <1>1, <1>3, <1>5 DEF ToSet
<1> QED BY <1>1, <1>2, <1>4, <1>6, <1>7

\* What is taken in joins the list, and was in the files.
LEMMA TakenIn ==
    ASSUME AskedInv, TakesIn
    PROVE  /\ pend' \in Seq(Reqs) /\ files' = {} /\ excused' = excused
           /\ ToSet(pend) \subseteq ToSet(pend') /\ settled \subseteq settled'
           /\ ToSet(pend') \subseteq ToSet(pend) \cup files
           /\ files \subseteq ToSet(pend') \cup settled'
<1>1. PICK new : new = Sorted(files)
  OBVIOUS
<1>2. new \in Seq(files)
  <2>1. files \subseteq Int /\ IsFiniteSet(files)
    BY ConstantsOK DEF AskedInv
  <2> QED BY <1>1, <2>1, SortedLists
<1>3. pend \in Seq(Reqs) /\ files \subseteq Reqs
  BY DEF AskedInv
<1>4. PICK l \in Nat, p \in Nat : l = Len(new) /\ p = Len(pend)
  BY <1>2, <1>3
<1>0. PICK room \in Int : room = PendingMax - p
  <2>1. PendingMax \in Int
    BY ConstantsOK
  <2> QED BY <2>1
<1>5. PICK n \in Int : n = IF room < l THEN room ELSE l
  OBVIOUS
<1>6. PICK fit : fit = SubSeq(new, 1, n)
  OBVIOUS
<1>7. fit \in Seq(files)
  <2>1. n <= l
    BY <1>5
  <2>2. \A i \in 1 .. n : new[i] \in files
    BY <1>2, <1>4, <2>1
  <2>3. SubSeq(new, 1, n) \in Seq(files)
    BY <2>2, SubSeqProperties
  <2> QED BY <1>6, <2>3
<1>8. /\ pend' = pend \o fit /\ settled' = settled \cup (files \ ToSet(fit))
      /\ files' = {} /\ excused' = excused
  BY <1>0, <1>1, <1>4, <1>5, <1>6 DEF TakesIn
<1>9. fit \in Seq(Reqs)
  BY <1>3, <1>7
<1>10. ToSet(fit) \subseteq files
  BY <1>7 DEF ToSet
<1>11. pend \o fit \in Seq(Reqs) /\ ToSet(pend \o fit) = ToSet(pend) \cup ToSet(fit)
  <2>1. /\ pend \o fit \in Seq(Reqs) /\ Len(pend \o fit) = Len(pend) + Len(fit)
        /\ \A i \in 1 .. Len(pend) + Len(fit) : (pend \o fit)[i] =
              IF i <= Len(pend) THEN pend[i] ELSE fit[i - Len(pend)]
    BY <1>3, <1>9, ConcatProperties
  <2>2. PICK q : q = pend \o fit
    OBVIOUS
  <2>3. PICK m \in Nat : m = Len(fit)
    BY <1>9
  <2>4. /\ DOMAIN q = 1 .. p + m /\ DOMAIN pend = 1 .. p /\ DOMAIN fit = 1 .. m
        /\ \A i \in 1 .. p + m : q[i] = IF i <= p THEN pend[i] ELSE fit[i - p]
    BY <1>3, <1>4, <1>9, <2>1, <2>2, <2>3
  <2>5. \A i \in 1 .. p : i \in 1 .. p + m /\ q[i] = pend[i]
    BY <2>4
  <2>6. ASSUME NEW i \in 1 .. m PROVE p + i \in 1 .. p + m /\ q[p + i] = fit[i]
    <3>1. PICK x \in Int : x = p + i /\ x - p = i
      OBVIOUS
    <3>2. x \in 1 .. p + m /\ ~(x <= p)
      BY <3>1
    <3> QED BY <2>4, <3>1, <3>2
  <2>7. ASSUME NEW i \in 1 .. p + m PROVE q[i] \in ToSet(pend) \cup ToSet(fit)
    <3>1. CASE i <= p
      <4>1. i \in 1 .. p
        BY <3>1
      <4> QED BY <2>4, <2>5, <4>1 DEF ToSet
    <3>2. CASE ~(i <= p)
      <4>1. PICK x \in 1 .. m : x = i - p
        BY <3>2
      <4> QED BY <2>4, <3>2, <4>1 DEF ToSet
    <3> QED BY <3>1, <3>2
  <2>8. ToSet(q) \subseteq ToSet(pend) \cup ToSet(fit)
    BY <2>4, <2>7 DEF ToSet
  <2>9. ToSet(pend) \subseteq ToSet(q) /\ ToSet(fit) \subseteq ToSet(q)
    <3>1. \A i \in 1 .. p : pend[i] \in {q[j] : j \in 1 .. p + m}
      BY <2>5
    <3>2. \A i \in 1 .. m : fit[i] \in {q[j] : j \in 1 .. p + m}
      BY <2>6
    <3> QED BY <2>4, <3>1, <3>2 DEF ToSet
  <2> QED BY <2>1, <2>2, <2>8, <2>9
<1> QED BY <1>8, <1>10, <1>11

LEMMA AskedStep ==
    ASSUME AskedInv, [CalNext]_calVars
    PROVE  AskedInv'
<1>1. CASE UNCHANGED <<files, pend, asked, added, unheard, settled, excused>>
  BY <1>1 DEF AskedInv, NoRequestLostOrTwice
<1>0. /\ pend \in Seq(Reqs) /\ files \subseteq Reqs /\ IsFiniteSet(files)
      /\ files \cup ToSet(pend) \subseteq asked /\ files \cap ToSet(pend) = {}
      /\ added \in [Reqs -> Nat] /\ unheard \in [Reqs -> Nat]
      /\ \A r \in Reqs : unheard[r] <= added[r]
      /\ \A r \in Reqs \ excused : added[r] > unheard[r] => r \in asked
  BY DEF AskedInv
<1>9. \A r \in Reqs \ excused :
        /\ added[r] <= unheard[r] + 1
        /\ added[r] > unheard[r] => r \notin ToSet(pend) \cup files
        /\ r \in asked => r \in files \cup ToSet(pend) \cup settled \/ added[r] > unheard[r]
  BY DEF AskedInv, NoRequestLostOrTwice
<1>2. CASE OtherAsks
  <2>1. PICK r \in Reqs \ asked : files' = files \cup {r} /\ asked' = asked \cup {r}
    BY <1>2 DEF OtherAsks
  <2>2. /\ pend' = pend /\ added' = added /\ unheard' = unheard /\ settled' = settled
        /\ excused' = excused
    BY <1>2 DEF OtherAsks
  <2>3. IsFiniteSet(files')
    BY <1>0, <2>1, FS_AddElement
  <2> QED BY <1>0, <1>9, <2>1, <2>2, <2>3 DEF AskedInv, NoRequestLostOrTwice
<1>3. CASE AnotherAnswers
  <2>1. PICK r \in ToSet(pend) : pend' = Keep(pend, Reqs \ {r}) /\ excused' = excused \cup {r}
    BY <1>3 DEF AnotherAnswers
  <2>2. files' = files /\ asked' = asked /\ added' = added /\ unheard' = unheard /\ settled' = settled
    BY <1>3 DEF AnotherAnswers
  <2>3. pend' \in Seq(Reqs) /\ ToSet(pend') = ToSet(pend) \ {r}
    BY <1>0, <2>1, OneDropped
  <2> QED BY <1>0, <1>9, <2>1, <2>2, <2>3 DEF AskedInv, NoRequestLostOrTwice
<1>4. CASE IncomingAdded
  <2>1. PICK n \in {1, 2}, ok \in BOOLEAN :
           /\ Dropped(ok) /\ excused' = IF ok THEN excused ELSE excused \cup {Req}
           /\ added' = [added EXCEPT ![Req] = @ + n]
           /\ unheard' = [unheard EXCEPT ![Req] = @ + (n - 1)]
    BY <1>4 DEF IncomingAdded
  <2>2. files' = files /\ asked' = asked /\ settled' = settled /\ Req \in ToSet(pend)
    BY <1>4 DEF IncomingAdded, Open
  <2>3. PICK r \in Reqs : r = Req
    BY <1>0, <2>2 DEF ToSet
  <2>4. /\ added' \in [Reqs -> Nat] /\ added'[r] = added[r] + n
        /\ unheard' \in [Reqs -> Nat] /\ unheard'[r] = unheard[r] + (n - 1)
        /\ \A s \in Reqs \ {r} : added'[s] = added[s] /\ unheard'[s] = unheard[s]
    BY <1>0, <2>1, <2>3
  <2>7. \A s \in Reqs : unheard'[s] <= added'[s]
    <3>1. unheard[r] \in Nat /\ added[r] \in Nat /\ unheard[r] <= added[r]
      BY <1>0
    <3>2. unheard'[r] <= added'[r]
      BY <2>4, <3>1
    <3> QED BY <1>0, <2>4, <3>2
  <2>5. CASE ok
    <3>1. pend' \in Seq(Reqs) /\ ToSet(pend') = ToSet(pend) \ {r} /\ excused' = excused
      BY <1>0, <2>1, <2>3, <2>5, OneDropped DEF Dropped
    <3>2. r \in asked /\ r \in ToSet(pend) /\ r \notin files
      BY <1>0, <2>2, <2>3
    <3>3. r \notin excused => added'[r] <= unheard'[r] + 1
      <4>1. r \notin excused => added[r] <= unheard[r]
        BY <1>0, <1>9, <3>2
      <4>2. added[r] \in Nat /\ unheard[r] \in Nat
        BY <1>0
      <4> QED BY <2>4, <4>1, <4>2
    <3>4. ASSUME NEW s \in Reqs \ excused
          PROVE  /\ added'[s] <= unheard'[s] + 1
                 /\ added'[s] > unheard'[s] => s \notin ToSet(pend') \cup files'
                 /\ s \in asked' => \/ s \in files' \cup ToSet(pend') \cup settled'
                                   \/ added'[s] > unheard'[s]
      <4>1. CASE s = r
        <5>1. r \in Reqs \ excused
          BY <3>4, <4>1
        <5>2. added'[r] > unheard'[r]
          <6>1. added[r] >= unheard[r] /\ added[r] \in Nat /\ unheard[r] \in Nat
            BY <1>0
          <6> QED BY <2>4, <6>1
        <5> QED BY <3>1, <3>2, <3>3, <2>2, <4>1, <5>1, <5>2
      <4>2. CASE s # r
        BY <1>9, <2>2, <2>4, <3>1, <4>2
      <4> QED BY <4>1, <4>2
    <3>5. \A s \in Reqs \ excused' : added'[s] > unheard'[s] => s \in asked'
      BY <1>0, <2>2, <2>4, <3>1, <3>2
    <3>6. NoRequestLostOrTwice'
      BY <3>1, <3>4 DEF NoRequestLostOrTwice
    <3>7. /\ pend' \in Seq(Reqs) /\ files' \subseteq Reqs /\ IsFiniteSet(files')
          /\ files' \cup ToSet(pend') \subseteq asked' /\ files' \cap ToSet(pend') = {}
      BY <1>0, <2>2, <3>1
    <3> QED BY <2>4, <2>7, <3>5, <3>6, <3>7 DEF AskedInv
  <2>6. CASE ~ok
    <3>1. pend' = pend /\ excused' = excused \cup {r}
      BY <2>1, <2>3, <2>6 DEF Dropped
    <3>2. \A s \in Reqs \ excused' : /\ s \in Reqs \ excused /\ s # r
                                     /\ added'[s] = added[s] /\ unheard'[s] = unheard[s]
      BY <2>4, <3>1
    <3>3. NoRequestLostOrTwice'
      BY <1>9, <2>2, <3>1, <3>2 DEF NoRequestLostOrTwice
    <3>4. \A s \in Reqs \ excused' : added'[s] > unheard'[s] => s \in asked'
      BY <1>0, <2>2, <3>2
    <3> QED BY <1>0, <2>2, <2>4, <2>7, <3>1, <3>3, <3>4 DEF AskedInv
  <2> QED BY <2>5, <2>6
<1>7. CASE IncomingUnheard
  <2>1. PICK n \in {1, 2} : /\ added' = [added EXCEPT ![Req] = @ + n]
                            /\ unheard' = [unheard EXCEPT ![Req] = @ + n]
    BY <1>7 DEF IncomingUnheard
  <2>2. /\ files' = files /\ asked' = asked /\ settled' = settled /\ pend' = pend
        /\ excused' = excused /\ Req \in ToSet(pend)
    BY <1>7 DEF IncomingUnheard, Open
  <2>3. PICK r \in Reqs : r = Req
    BY <1>0, <2>2 DEF ToSet
  <2>4. /\ added' \in [Reqs -> Nat] /\ added'[r] = added[r] + n
        /\ unheard' \in [Reqs -> Nat] /\ unheard'[r] = unheard[r] + n
        /\ \A s \in Reqs \ {r} : added'[s] = added[s] /\ unheard'[s] = unheard[s]
    BY <1>0, <2>1, <2>3
  <2>5. \A s \in Reqs : /\ added'[s] > unheard'[s] <=> added[s] > unheard[s]
                        /\ added[s] <= unheard[s] + 1 => added'[s] <= unheard'[s] + 1
                        /\ unheard'[s] <= added'[s]
    BY <1>0, <2>4
  <2>6. NoRequestLostOrTwice'
    BY <1>9, <2>2, <2>5 DEF NoRequestLostOrTwice
  <2>7. \A s \in Reqs \ excused' : added'[s] > unheard'[s] => s \in asked'
    BY <1>0, <2>2, <2>5
  <2> QED BY <1>0, <2>2, <2>4, <2>5, <2>6, <2>7 DEF AskedInv
<1>5. CASE IncomingDiscarded
  <2>1. PICK ok \in BOOLEAN : Dropped(ok)
    BY <1>5 DEF IncomingDiscarded
  <2>2. /\ files' = files /\ asked' = asked /\ settled' = settled \cup {Req}
        /\ added' = added /\ unheard' = unheard /\ excused' = excused
    BY <1>5 DEF IncomingDiscarded
  <2>3. PICK r : r = Req
    OBVIOUS
  <2>4. /\ pend' \in Seq(Reqs) /\ ToSet(pend') \subseteq ToSet(pend)
        /\ ToSet(pend) \subseteq ToSet(pend') \cup {r}
    <3>1. CASE ok
      BY <1>0, <2>1, <2>3, <3>1, OneDropped DEF Dropped
    <3>2. CASE ~ok
      BY <1>0, <2>1, <2>3, <3>2 DEF Dropped
    <3> QED BY <3>1, <3>2
  <2> QED BY <1>0, <1>9, <2>2, <2>3, <2>4 DEF AskedInv, NoRequestLostOrTwice
<1>6. CASE calPoll
  <2>1. asked' = asked /\ added' = added /\ unheard' = unheard
    BY <1>6 DEF calPoll
  <2>2. \/ UNCHANGED <<files, pend, settled, excused>> \/ CrashesTakingIn \/ TakesIn
    BY <1>6 DEF calPoll
  <2>3. CASE UNCHANGED <<files, pend, settled, excused>>
    BY <1>1, <2>1, <2>3
  <2>4. CASE CrashesTakingIn
    <3>1. files' = {} /\ excused' = excused \cup files /\ pend' = pend /\ settled' = settled
      BY <2>4 DEF CrashesTakingIn
    <3>2. IsFiniteSet(files')
      BY <3>1, FS_EmptySet
    <3> QED BY <1>0, <1>9, <2>1, <3>1, <3>2 DEF AskedInv, NoRequestLostOrTwice
  <2>5. CASE TakesIn
    <3>1. /\ pend' \in Seq(Reqs) /\ files' = {} /\ excused' = excused
          /\ ToSet(pend) \subseteq ToSet(pend') /\ settled \subseteq settled'
          /\ ToSet(pend') \subseteq ToSet(pend) \cup files
          /\ files \subseteq ToSet(pend') \cup settled'
      BY <2>5, TakenIn
    <3>2. IsFiniteSet(files')
      BY <3>1, FS_EmptySet
    <3>3. PICK P : P = ToSet(pend')
      OBVIOUS
    <3>4. ASSUME NEW r \in Reqs \ excused
          PROVE  /\ added[r] <= unheard[r] + 1
                 /\ added[r] > unheard[r] => r \notin P
                 /\ r \in asked => r \in P \cup settled' \/ added[r] > unheard[r]
      BY <1>9, <3>1, <3>3
    <3>5. NoRequestLostOrTwice'
      BY <2>1, <3>1, <3>3, <3>4 DEF NoRequestLostOrTwice
    <3> QED BY <1>0, <2>1, <3>1, <3>2, <3>5 DEF AskedInv
  <2> QED BY <2>2, <2>3, <2>4, <2>5
<1> QED BY <1>1, <1>2, <1>3, <1>4, <1>5, <1>6, <1>7, WhoAsks

\* What others ask and what time brings is put to the user, once - and added once
\* more for each reply to an Add that is lost: whatever the user, the other
\* programs and the backend's faults do.
THEOREM AlwaysAskedAndRemindedOnce == CalSpec => []AskedAndRemindedOnce
<1> DEFINE Inv == RemindInv /\ AskedInv
<1>1. CalInit => Inv
  BY RemindStarts, AskedStarts
<1>2. Inv /\ [CalNext]_calVars => Inv'
  BY RemindStep, AskedStep
<1>3. Inv => AskedAndRemindedOnce
  BY DEF RemindInv, AskedInv, AskedAndRemindedOnce
<1> QED BY <1>1, <1>2, <1>3, PTL DEF CalSpec

-----------------------------------------------------------------------------
(* The panes                                                               *)

\* A window, with days for what are days ...
Window(w) ==
    /\ w = [sel |-> w.sel, today |-> w.today, lo |-> w.lo, occ |-> w.occ, rows |-> w.rows,
            at |-> w.at, items |-> w.items, tat |-> w.tat, showDone |-> w.showDone,
            grid |-> w.grid]
    /\ w.sel \in Int /\ w.today \in Int /\ w.lo \in Int
    /\ \A o \in w.occ : o[1] \in Int
\* ... whose agenda begins where its events were fetched from ...
RowsFrom(w) == \A k \in DOMAIN w.rows : w.rows[k].date \in Int /\ w.rows[k].date >= w.lo
\* ... and has the highlight on the day picked
Shows(w) == w.at \in DOMAIN w.rows /\ w.rows[w.at].date = w.sel
Events(e) == e \in [Uids -> SUBSET Int]

LEMMA Fetched ==
    ASSUME NEW w, Window(w), NEW from \in Int, NEW e, Events(e), NEW up
    PROVE  LET v == fetchAgenda(w, from, e, up)
           IN  /\ Window(v) /\ v.lo = from /\ v.sel = w.sel /\ v.grid = w.grid
               /\ v.items = w.items /\ v.tat = w.tat /\ v.showDone = w.showDone
               /\ v.today = w.today
<1>1. PICK occ : occ = IF "agenda" \notin up THEN {}
                       ELSE UNION {{<<d, u>> : d \in {x \in e[u] : from <= x /\ x <= from + FetchDays}}
                                   : u \in Uids}
  OBVIOUS
<1>2. \A o \in occ : o[1] \in Int
  BY <1>1 DEF Events
<1>3. PICK v : v = [w EXCEPT !.lo = from, !.occ = occ]
  OBVIOUS
<1>4. fetchAgenda(w, from, e, up) = v
  BY <1>1, <1>3 DEF fetchAgenda
<1>5. v = [sel |-> w.sel, today |-> w.today, lo |-> from, occ |-> occ, rows |-> w.rows,
           at |-> w.at, items |-> w.items, tat |-> w.tat, showDone |-> w.showDone,
           grid |-> w.grid]
  BY <1>3 DEF Window
<1>6. Window(v)
  BY <1>2, <1>5 DEF Window
<1> QED BY <1>4, <1>5, <1>6

LEMMA Built ==
    ASSUME NEW w, Window(w), NEW from \in Int, w.lo <= from, NEW keep
    PROVE  LET v == buildAgenda(w, from, keep)
           IN  /\ Window(v) /\ RowsFrom(v)
               /\ v.lo = w.lo /\ v.sel = w.sel /\ v.grid = w.grid /\ v.today = w.today
               /\ v.items = w.items /\ v.tat = w.tat /\ v.showDone = w.showDone
               /\ from <= w.sel /\ w.sel <= w.lo + FetchDays /\ w.sel <= from + ShowDays => Shows(v)
<1> DEFINE last == IF w.lo + FetchDays < from + ShowDays THEN w.lo + FetchDays
                   ELSE from + ShowDays
           shown == {d \in {o[1] : o \in w.occ} \cup {w.sel, w.today} : from <= d /\ d <= last}
           list == Sorted(shown)
           rows == agendaRows(w.occ, list)
           kept == {k \in DOMAIN rows : rows[k] = Row("event", w.sel, keep)}
           heads == {k \in DOMAIN rows : rows[k] = Row("head", w.sel, None)}
           at == IF kept # {} THEN Min(kept) ELSE IF heads # {} THEN Min(heads) ELSE 1
           v == [w EXCEPT !.rows = rows, !.at = at]
<1>15. buildAgenda(w, from, keep) = v
  BY DEF buildAgenda
<1>14. v = [w EXCEPT !.rows = rows, !.at = at]
  OBVIOUS
<1> HIDE DEF v
<1>13. at = IF kept # {} THEN Min(kept) ELSE IF heads # {} THEN Min(heads) ELSE 1
  OBVIOUS
<1> HIDE DEF at
<1>11. kept = {k \in DOMAIN rows : rows[k] = Row("event", w.sel, keep)}
  OBVIOUS
<1>12. heads = {k \in DOMAIN rows : rows[k] = Row("head", w.sel, None)}
  OBVIOUS
<1> HIDE DEF kept, heads
<1>9. rows = agendaRows(w.occ, list)
  OBVIOUS
<1> HIDE DEF rows
<1>20. list = Sorted(shown)
  OBVIOUS
<1> HIDE DEF list
<1>1. w.sel \in Int /\ w.today \in Int /\ w.lo \in Int /\ \A o \in w.occ : o[1] \in Int
  BY DEF Window
<1>2. last \in Int /\ last = IF w.lo + FetchDays < from + ShowDays THEN w.lo + FetchDays
                            ELSE from + ShowDays
  BY <1>1 DEF FetchDays, ShowDays
<1> HIDE DEF last
<1>3. PICK days : days = {o[1] : o \in w.occ} \cup {w.sel, w.today}
  OBVIOUS
<1>4. days \subseteq Int /\ w.sel \in days
  BY <1>1, <1>3
<1>5. shown = {d \in days : from <= d /\ d <= last}
  BY <1>3
<1> HIDE DEF shown
<1>6. shown \subseteq Int /\ IsFiniteSet(shown) /\ \A d \in shown : from <= d
  <2>1. IsFiniteSet(from .. last)
    BY <1>2, FS_Interval
  <2>2. shown \in SUBSET (from .. last)
    <3>1. ASSUME NEW d \in shown PROVE d \in from .. last
      BY <1>2, <1>4, <1>5
    <3> QED BY <3>1
  <2>3. IsFiniteSet(shown)
    BY <2>1, <2>2, FS_Subset
  <2> QED BY <1>4, <1>5, <2>3
<1>7. list \in Seq(shown) /\ \A x \in shown : \E i \in DOMAIN list : list[i] = x
  BY <1>6, <1>20, SortedLists
<1>8. list \in Seq(Int)
  <2>1. PICK n \in Nat : list \in [1 .. n -> shown] /\ n = Len(list)
    BY <1>7
  <2>2. list \in [1 .. n -> Int]
    BY <1>6, <2>1
  <2> QED BY <2>2
<1>10. RowsOf(rows, list, Len(list))
  BY <1>8, <1>9, AgendaShown
<1>16. v = [sel |-> w.sel, today |-> w.today, lo |-> w.lo, occ |-> w.occ, rows |-> rows,
            at |-> at, items |-> w.items, tat |-> w.tat, showDone |-> w.showDone,
            grid |-> w.grid]
  BY <1>14 DEF Window
<1>17. Window(v)
  BY <1>1, <1>16 DEF Window
<1>18. RowsFrom(v)
  <2>1. ASSUME NEW k \in DOMAIN rows PROVE rows[k].date \in shown
    <3>1. PICK j \in 1 .. Len(list) : rows[k].date = list[j]
      BY <1>10 DEF RowsOf
    <3>2. list[j] \in shown
      BY <1>7
    <3> QED BY <3>1, <3>2
  <2>2. \A d \in shown : d \in Int /\ d >= w.lo
    BY <1>1, <1>6
  <2> QED BY <1>16, <2>1, <2>2 DEF RowsFrom
<1>19. ASSUME from <= w.sel, w.sel <= w.lo + FetchDays, w.sel <= from + ShowDays
       PROVE  Shows(v)
  <2>1. w.sel \in shown
    BY <1>1, <1>2, <1>4, <1>5, <1>19
  <2>2. PICK j \in DOMAIN list : list[j] = w.sel
    BY <1>7, <2>1
  <2>3. j \in 1 .. Len(list)
    BY <1>8, <2>2
  <2>4. PICK k \in DOMAIN rows : rows[k] = Row("head", w.sel, None)
    BY <1>10, <2>2, <2>3 DEF RowsOf
  <2>5. k \in heads
    BY <1>12, <2>4
  <2>6. DOMAIN rows \subseteq Nat
    <3>1. rows \in Seq(AnyRow)
      BY <1>10 DEF RowsOf
    <3>2. DOMAIN rows = 1 .. Len(rows) /\ Len(rows) \in Nat
      BY <3>1
    <3> QED BY <3>2
  <2>7. at \in kept \cup heads
    <3>1. CASE kept # {}
      <4>1. kept \subseteq Nat
        BY <1>11, <2>6
      <4>2. Min(kept) \in kept
        BY <3>1, <4>1, LeastIsOne
      <4> QED BY <1>13, <3>1, <4>2
    <3>2. CASE kept = {}
      <4>1. heads \subseteq Nat /\ heads # {}
        BY <1>12, <2>5, <2>6
      <4>2. Min(heads) \in heads
        BY <4>1, LeastIsOne
      <4> QED BY <1>13, <3>2, <4>1, <4>2
    <3> QED BY <3>1, <3>2
  <2>8. at \in DOMAIN rows /\ rows[at].date = w.sel
    BY <1>11, <1>12, <2>7 DEF Row
  <2> QED BY <1>16, <2>8 DEF Shows
<1> QED BY <1>15, <1>16, <1>17, <1>18, <1>19

LEMMA TodosRefreshed ==
    ASSUME NEW w, Window(w), NEW t, NEW up
    PROVE  LET v == refreshTodos(w, t, up)
           IN  /\ Window(v) /\ v.lo = w.lo /\ v.sel = w.sel /\ v.grid = w.grid
               /\ v.rows = w.rows /\ v.at = w.at
<1>1. PICK v : v = refreshTodos(w, t, up)
  OBVIOUS
<1>2. PICK i, a : v = [w EXCEPT !.items = i, !.tat = a]
  BY <1>1, Zenon DEF refreshTodos
<1>3. v = [sel |-> w.sel, today |-> w.today, lo |-> w.lo, occ |-> w.occ, rows |-> w.rows,
           at |-> w.at, items |-> i, tat |-> a, showDone |-> w.showDone, grid |-> w.grid]
  BY <1>2 DEF Window
<1>4. Window(v)
  BY <1>3 DEF Window
<1> QED BY <1>1, <1>3, <1>4

LEMMA GridRefreshed ==
    ASSUME NEW w, Window(w)
    PROVE  LET v == refreshGrid(w)
           IN  /\ Window(v) /\ v.lo = w.lo /\ v.sel = w.sel /\ v.grid = Month(v.sel)
               /\ v.rows = w.rows /\ v.at = w.at
<1>1. PICK v : v = refreshGrid(w)
  OBVIOUS
<1>2. PICK g : g = Month(w.sel)
  OBVIOUS
<1>3. v = [sel |-> w.sel, today |-> w.today, lo |-> w.lo, occ |-> w.occ, rows |-> w.rows,
           at |-> w.at, items |-> w.items, tat |-> w.tat, showDone |-> w.showDone, grid |-> g]
  BY <1>1, <1>2 DEF Window, refreshGrid
<1>4. Window(v)
  BY <1>3 DEF Window
<1> QED BY <1>1, <1>2, <1>3, <1>4

\* The three panes about one day; and, unless the user has gone further in the
\* agenda than it shows, that day in it
Agree(w) == Window(w) /\ RowsFrom(w) /\ w.grid = Month(w.sel)
Held(w) == Shows(w) /\ w.lo <= w.sel /\ w.sel <= w.lo + ShowDays

\* refreshAll(), from some day on
RefreshFrom(w, from, e, t, up) ==
    LET fetched == fetchAgenda([w EXCEPT !.today = day], from, e, up)
    IN  refreshTodos(refreshGrid(buildAgenda(fetched, from, eventShown(w))), t, up)

LEMMA AllRefreshed ==
    ASSUME NEW w, Window(w), NEW from \in Int, NEW e, Events(e), NEW t, NEW up, day \in Int
    PROVE  LET v == RefreshFrom(w, from, e, t, up)
           IN  /\ Agree(v)
               /\ from <= w.sel /\ w.sel <= from + ShowDays => Held(v)
<1>0. PICK now \in Int : now = day
  OBVIOUS
<1>1. PICK a : a = [w EXCEPT !.today = now]
  OBVIOUS
<1>2. Window(a) /\ a.sel = w.sel
  <2>1. a = [sel |-> w.sel, today |-> now, lo |-> w.lo, occ |-> w.occ, rows |-> w.rows,
             at |-> w.at, items |-> w.items, tat |-> w.tat, showDone |-> w.showDone,
             grid |-> w.grid]
    BY <1>1 DEF Window
  <2> QED BY <1>0, <2>1 DEF Window
<1>3. PICK f : f = fetchAgenda(a, from, e, up)
  OBVIOUS
<1>4. Window(f) /\ f.lo = from /\ f.sel = w.sel
  BY <1>2, <1>3, Fetched
<1>5. PICK keep : keep = eventShown(w)
  OBVIOUS
<1>6. PICK b : b = buildAgenda(f, from, keep)
  OBVIOUS
<1>7. /\ Window(b) /\ RowsFrom(b) /\ b.lo = from /\ b.sel = w.sel
      /\ from <= w.sel /\ w.sel <= from + ShowDays => Shows(b)
  <2>1. PICK lo \in Int, sel \in Int : lo = f.lo /\ sel = w.sel
    BY <1>4 DEF Window
  <2>2. /\ Window(b) /\ RowsFrom(b) /\ b.lo = f.lo /\ b.sel = f.sel
        /\ from <= f.sel /\ f.sel <= f.lo + FetchDays /\ f.sel <= from + ShowDays => Shows(b)
    BY <1>4, <1>6, <2>1, Built
  <2>3. from <= sel /\ sel <= from + ShowDays => sel <= from + FetchDays
    BY DEF FetchDays, ShowDays
  <2> QED BY <1>4, <2>1, <2>2, <2>3
<1>8. PICK g : g = refreshGrid(b)
  OBVIOUS
<1>9. /\ Window(g) /\ g.lo = b.lo /\ g.sel = b.sel /\ g.grid = Month(g.sel)
      /\ g.rows = b.rows /\ g.at = b.at
  BY <1>7, <1>8, GridRefreshed
<1>10. PICK v : v = refreshTodos(g, t, up)
  OBVIOUS
<1>11. /\ Window(v) /\ v.lo = g.lo /\ v.sel = g.sel /\ v.grid = g.grid
       /\ v.rows = g.rows /\ v.at = g.at
  BY <1>9, <1>10, TodosRefreshed
<1>12. RefreshFrom(w, from, e, t, up) = v
  BY <1>0, <1>1, <1>3, <1>5, <1>6, <1>8, <1>10 DEF RefreshFrom
<1>13. Agree(v)
  BY <1>7, <1>9, <1>11 DEF Agree, RowsFrom
<1>14. from <= w.sel /\ w.sel <= from + ShowDays => Held(v)
  BY <1>7, <1>9, <1>11 DEF Held, Shows
<1> QED BY <1>12, <1>13, <1>14

\* The grid after setSel(): told when the month is another one
GridFollows(w, made, d) == IF Month(d) # Month(w.sel) THEN refreshGrid(made) ELSE made

LEMMA GridIsRight ==
    ASSUME NEW w, NEW made, NEW d, w.grid = Month(w.sel),
           Window(made), RowsFrom(made), made.sel = d, made.grid = w.grid
    PROVE  LET v == GridFollows(w, made, d)
           IN  Agree(v) /\ v.sel = d /\ v.lo = made.lo /\ v.rows = made.rows /\ v.at = made.at
<1>1. CASE Month(d) = Month(w.sel)
  BY <1>1 DEF GridFollows, Agree
<1>2. CASE Month(d) # Month(w.sel)
  <2>1. PICK g : g = refreshGrid(made)
    OBVIOUS
  <2>2. /\ Window(g) /\ g.lo = made.lo /\ g.sel = made.sel /\ g.grid = Month(g.sel)
        /\ g.rows = made.rows /\ g.at = made.at
    BY <2>1, GridRefreshed
  <2>3. RowsFrom(g)
    BY <2>2 DEF RowsFrom
  <2> QED BY <1>2, <2>1, <2>2, <2>3 DEF GridFollows, Agree
<1> QED BY <1>1, <1>2

LEMMA DayPicked ==
    ASSUME NEW w, Agree(w), NEW d \in Int, NEW up, day \in Int, Events(ev)
    PROVE  Agree(setSel(w, d, FALSE, up)) /\ Held(setSel(w, d, FALSE, up))
<1>0. PICK now \in Int : now = day
  OBVIOUS
<1>e. PICK e : e = ev /\ Events(e)
  OBVIOUS
<1>1. PICK to : to = [w EXCEPT !.sel = d, !.today = now]
  OBVIOUS
<1>2. /\ Window(to) /\ to.sel = d /\ to.lo = w.lo /\ to.grid = w.grid
  <2>1. to = [sel |-> d, today |-> now, lo |-> w.lo, occ |-> w.occ, rows |-> w.rows,
              at |-> w.at, items |-> w.items, tat |-> w.tat, showDone |-> w.showDone,
              grid |-> w.grid]
    BY <1>1 DEF Agree, Window
  <2> QED BY <2>1 DEF Agree, Window
<1>3. PICK have : have = IF d < w.lo \/ w.lo + FetchDays < d + Margin
                         THEN fetchAgenda(to, d, e, up) ELSE to
  OBVIOUS
<1>4. /\ Window(have) /\ have.sel = d /\ have.grid = w.grid
      /\ have.lo \in Int /\ have.lo <= d /\ d + Margin <= have.lo + FetchDays
  <2>1. PICK lo \in Int : lo = w.lo
    BY DEF Agree, Window
  <2>2. CASE d < lo \/ lo + FetchDays < d + Margin
    <3>1. have = fetchAgenda(to, d, e, up)
      BY <1>3, <2>1, <2>2
    <3>2. Window(have) /\ have.lo = d /\ have.sel = d /\ have.grid = w.grid
      BY <1>e, <1>2, <3>1, Fetched
    <3> QED BY <3>2 DEF FetchDays, Margin
  <2>3. CASE ~(d < lo \/ lo + FetchDays < d + Margin)
    <3>1. have = to
      BY <1>3, <2>1, <2>3
    <3> QED BY <1>2, <2>1, <2>3, <3>1 DEF FetchDays, Margin
  <2> QED BY <2>2, <2>3
<1>5. PICK made : made = buildAgenda(have, d, None)
  OBVIOUS
<1>6. /\ Window(made) /\ RowsFrom(made) /\ made.lo = have.lo /\ made.sel = d
      /\ made.grid = w.grid /\ Shows(made)
  <2>1. d <= have.sel /\ have.sel <= have.lo + FetchDays /\ have.sel <= d + ShowDays
    BY <1>4 DEF FetchDays, ShowDays, Margin
  <2>2. /\ Window(made) /\ RowsFrom(made) /\ made.lo = have.lo /\ made.sel = have.sel
        /\ made.grid = have.grid
        /\ d <= have.sel /\ have.sel <= have.lo + FetchDays /\ have.sel <= d + ShowDays => Shows(made)
    BY <1>4, <1>5, Built
  <2> QED BY <1>4, <2>1, <2>2
<1>7. PICK v : v = GridFollows(w, made, d)
  OBVIOUS
<1>8. Agree(v) /\ v.sel = d /\ v.lo = made.lo /\ v.rows = made.rows /\ v.at = made.at
  BY <1>6, <1>7, GridIsRight DEF Agree
<1>9. Held(v)
  BY <1>4, <1>6, <1>8 DEF Held, Shows, FetchDays, Margin, ShowDays
<1>10. setSel(w, d, FALSE, up) = v
  BY <1>0, <1>e, <1>1, <1>3, <1>5, <1>7 DEF setSel, GridFollows
<1> QED BY <1>8, <1>9, <1>10

\* Moving in the agenda itself: nothing is built, and the day is the row's.
LEMMA RowPicked ==
    ASSUME NEW w, Agree(w), NEW k \in DOMAIN w.rows, NEW up, day \in Int
    PROVE  LET d == w.rows[k].date
               v == setSel([w EXCEPT !.at = k], d, TRUE, up)
           IN  Agree(v) /\ (d <= w.lo + ShowDays => Held(v))
<1>0. PICK now \in Int : now = day
  OBVIOUS
<1>1. PICK d \in Int : d = w.rows[k].date /\ w.lo <= d /\ w.lo \in Int
  BY DEF Agree, RowsFrom, Window
<1>2. PICK z : z = [w EXCEPT !.at = k]
  OBVIOUS
<1>3. z = [sel |-> w.sel, today |-> w.today, lo |-> w.lo, occ |-> w.occ, rows |-> w.rows,
           at |-> k, items |-> w.items, tat |-> w.tat, showDone |-> w.showDone,
           grid |-> w.grid]
  BY <1>2 DEF Agree, Window
<1>4. PICK to : to = [z EXCEPT !.sel = d, !.today = now]
  OBVIOUS
<1>5. to = [sel |-> d, today |-> now, lo |-> w.lo, occ |-> w.occ, rows |-> w.rows,
            at |-> k, items |-> w.items, tat |-> w.tat, showDone |-> w.showDone,
            grid |-> w.grid]
  BY <1>3, <1>4
<1>6. Window(to) /\ RowsFrom(to)
  BY <1>5 DEF Agree, Window, RowsFrom
<1>7. z.grid = Month(z.sel)
  BY <1>3 DEF Agree
<1>8. PICK v : v = GridFollows(z, to, d)
  OBVIOUS
<1>9. Agree(v) /\ v.sel = d /\ v.lo = to.lo /\ v.rows = to.rows /\ v.at = to.at
  BY <1>3, <1>5, <1>6, <1>7, <1>8, GridIsRight
<1>10. d <= w.lo + ShowDays => Held(v)
  BY <1>1, <1>5, <1>9 DEF Held, Shows
<1>11. setSel(z, d, TRUE, up) = v
  BY <1>0, <1>4, <1>8 DEF setSel, GridFollows
<1> QED BY <1>1, <1>2, <1>9, <1>10, <1>11

LEMMA DayOfDate ==
    ASSUME NEW t, DateType(t)
    PROVE  daysFromCivil(t) \in Int
<1>1. PICK y \in Int, m \in 1 .. 12, d \in 1 .. 31 : t = Ymd(y, m, d)
  <2>1. t = Ymd(t.y, t.m, t.d) /\ t.y \in Int /\ t.m \in 1 .. 12 /\ t.d \in Int
        /\ t.d \in 1 .. ymdMonthLength(t.y, t.m)
    BY DEF DateType, IsDate
  <2>2. ymdMonthLength(t.y, t.m) \in 28 .. 31
    BY <2>1, MonthLengths
  <2>3. t.d \in 1 .. 31
    BY <2>1, <2>2
  <2> QED BY <2>1, <2>3
<1>2. daysFromCivil(Ymd(y, m, d)) =
        Days(MarchYear(y, m)) + (153 * MarchMonth(m) + 2) \div 5 + d - 1 - 719468
  BY DaysOfDate
<1>3. PICK a \in Int : a = Days(MarchYear(y, m))
  <2>1. PICK Y \in Int : Y = MarchYear(y, m)
    BY DEF MarchYear
  <2> QED BY <2>1 DEF Days
<1>4. PICK b \in Int : b = (153 * MarchMonth(m) + 2) \div 5
  BY DEF MarchMonth
<1> QED BY <1>1, <1>2, <1>3, <1>4

LEMMA MonthFurtherIsDay ==
    ASSUME NEW d \in Int, NEW n \in Int,
           civilFromDays(d).y * 12 + (civilFromDays(d).m - 1) + n >= 0
    PROVE  daysFromCivil(ymdAddMonths(civilFromDays(d), n)) \in Int
<1>1. PICK t : t = civilFromDays(d) /\ DateType(t)
  BY BackAndThere
<1>2. PICK s : s = ymdAddMonths(t, n)
  OBVIOUS
<1>3. /\ IsDate(s) /\ s.d <= t.d /\ s.y * 12 + s.m = t.y * 12 + t.m + n
      /\ s.d < t.d => s.d = ymdMonthLength(s.y, s.m)
  BY <1>1, <1>2, MonthsFurther
<1>4. s = Ymd(s.y, s.m, s.d)
  BY <1>2 DEF ymdAddMonths, Ymd
<1>5. s.m \in 1 .. 12 /\ s.d \in Int
  BY <1>3 DEF IsDate
<1>6. s.y \in Int
  <2>1. t.y \in Int /\ t.m \in Int
    BY <1>1 DEF DateType
  <2>2. PICK mi \in Int : mi = t.y * 12 + (t.m - 1) + n
    BY <2>1
  <2>3. s.y = Trunc(mi, 12)
    BY <1>2, <2>2 DEF ymdAddMonths, Ymd
  <2> QED BY <2>2, <2>3 DEF Trunc
<1>7. DateType(s)
  BY <1>3, <1>4, <1>5, <1>6 DEF DateType
<1> QED BY <1>1, <1>2, <1>7, DayOfDate

WindowInv ==
    /\ day \in Int /\ Events(ev)
    /\ Agree(win) /\ (~scrolled => Held(win))

LEMMA WindowStarts == CalInit => WindowInv
<1> SUFFICES ASSUME CalInit PROVE WindowInv
  OBVIOUS
<1>1. day \in Int /\ scrolled = FALSE
  BY ConstantsOK DEF CalInit
<1>2. Events(ev)
  <2>1. PICK p \in Placements : ev = [u \in Uids |-> IF u = Min(Uids) THEN p ELSE {}]
    BY DEF CalInit
  <2>2. p \subseteq Int
    BY ConstantsOK
  <2> QED BY <2>1, <2>2 DEF Events
<1>3. PICK w : w = [sel |-> day, today |-> day, lo |-> day, occ |-> {}, rows |-> <<>>,
                    at |-> 1, items |-> <<>>, tat |-> 1, showDone |-> FALSE, grid |-> <<0, 0>>]
  OBVIOUS
<1>4. Window(w) /\ w.sel = day
  BY <1>1, <1>3 DEF Window
<1>5. PICK e, t, d, up : e = ev /\ t = todos /\ d = w.sel /\ up = Calls
  OBVIOUS
<1>6. win = RefreshFrom(w, d, e, t, up)
  BY <1>3, <1>5 DEF CalInit, refreshAll, RefreshFrom
<1>7. d \in Int /\ Events(e)
  BY <1>1, <1>2, <1>4, <1>5
<1>8. PICK v : v = RefreshFrom(w, d, e, t, up)
  OBVIOUS
<1>9. Agree(v) /\ (d <= w.sel /\ w.sel <= d + ShowDays => Held(v))
  BY <1>1, <1>4, <1>7, <1>8, AllRefreshed
<1>10. d <= w.sel /\ w.sel <= d + ShowDays
  BY <1>5, <1>7 DEF ShowDays
<1> QED BY <1>1, <1>2, <1>6, <1>8, <1>9, <1>10 DEF WindowInv

\* The window read again without being moved
Reread == \E e, t, up : Events(e) /\ ev' = e /\ win' = RefreshFrom(win, win.lo, e, t, up)

LEMMA RereadStep ==
    ASSUME WindowInv, Reread, day' = day, scrolled' = scrolled
    PROVE  WindowInv'
<1>1. PICK e, t, up : Events(e) /\ ev' = e /\ win' = RefreshFrom(win, win.lo, e, t, up)
  BY DEF Reread
<1>0. PICK w : w = win /\ Window(w)
  BY DEF WindowInv, Agree
<1>2. PICK lo \in Int : w = win /\ lo = w.lo /\ Window(w)
  BY <1>0 DEF Window
<1>3. day \in Int /\ (~scrolled => lo <= w.sel /\ w.sel <= lo + ShowDays)
  BY <1>2 DEF WindowInv, Held
<1>4. PICK v : v = RefreshFrom(w, lo, e, t, up)
  OBVIOUS
<1>5. Agree(v) /\ (lo <= w.sel /\ w.sel <= lo + ShowDays => Held(v))
  BY <1>1, <1>2, <1>3, <1>4, AllRefreshed
<1>6. win' = v
  BY <1>1, <1>2, <1>4
<1>7. Agree(win') /\ (~scrolled => Held(win'))
  BY <1>3, <1>5, <1>6
<1> QED BY <1>1, <1>3, <1>7 DEF WindowInv

\* refreshTodos() and refreshGrid() leave the agenda alone.
LEMMA TodosStep ==
    ASSUME WindowInv, NEW w, NEW t, NEW up,
           Agree(w), Held(win) => Held(w),
           win' = refreshTodos(w, t, up), day' = day, scrolled' = scrolled, ev' = ev
    PROVE  WindowInv'
<1>1. PICK v : v = refreshTodos(w, t, up)
  OBVIOUS
<1>2. /\ Window(v) /\ v.lo = w.lo /\ v.sel = w.sel /\ v.grid = w.grid
      /\ v.rows = w.rows /\ v.at = w.at
  BY <1>1, TodosRefreshed DEF Agree
<1>3. Agree(v) /\ (Held(w) => Held(v))
  BY <1>2 DEF Agree, RowsFrom, Held, Shows
<1>4. Agree(win') /\ (~scrolled => Held(win'))
  BY <1>1, <1>3 DEF WindowInv
<1> QED BY <1>4 DEF WindowInv

LEMMA PicksStep ==
    ASSUME WindowInv, NEW d \in Int, Picks(d)
    PROVE  WindowInv'
<1>1. PICK up : win' = setSel(win, d, FALSE, up)
  BY DEF Picks
<1>2. day' = day /\ ev' = ev /\ scrolled' = FALSE
  BY DEF Picks, store
<1>3. PICK w : w = win /\ Agree(w)
  BY DEF WindowInv
<1>4. day \in Int /\ Events(ev)
  BY DEF WindowInv
<1>5. Agree(setSel(w, d, FALSE, up)) /\ Held(setSel(w, d, FALSE, up))
  BY <1>3, <1>4, DayPicked
<1>6. PICK v : v = setSel(w, d, FALSE, up)
  OBVIOUS
<1>7. Agree(v) /\ Held(v)
  BY <1>5, <1>6
<1>8. win' = v
  BY <1>1, <1>3, <1>6
<1>9. Agree(win') /\ Held(win')
  BY <1>7, <1>8
<1> QED BY <1>2, <1>4, <1>9 DEF WindowInv

LEMMA MovesStep ==
    ASSUME WindowInv, moveDays \/ moveMonths \/ goToday \/ clicked \/ gotoDate
    PROVE  WindowInv'
<1>1. win.sel \in Int /\ day \in Int /\ Targets \subseteq Int
  BY ConstantsOK DEF WindowInv, Agree, Window
<1>2. CASE moveDays
  <2>1. PICK n \in {-7, -1, 1, 7} : Picks(win.sel + n)
    BY <1>2 DEF moveDays
  <2>2. PICK d \in Int : d = win.sel + n
    BY <1>1
  <2>3. Picks(d)
    BY <2>1, <2>2
  <2> QED BY <2>3, PicksStep
<1>3. CASE moveMonths
  <2>1. PICK n \in {-1, 1} : /\ civilFromDays(win.sel).y * 12 + (civilFromDays(win.sel).m - 1) + n >= 0
                             /\ Picks(daysFromCivil(ymdAddMonths(civilFromDays(win.sel), n)))
    BY <1>3 DEF moveMonths
  <2>2. PICK s \in Int : s = win.sel
    BY <1>1
  <2>3. daysFromCivil(ymdAddMonths(civilFromDays(s), n)) \in Int
    BY <2>1, <2>2, MonthFurtherIsDay
  <2>4. PICK d \in Int : d = daysFromCivil(ymdAddMonths(civilFromDays(s), n))
    BY <2>3
  <2>5. Picks(d)
    BY <2>1, <2>2, <2>4
  <2> QED BY <2>5, PicksStep
<1>4. CASE goToday
  <2>1. PICK d \in Int : d = day
    BY <1>1
  <2>2. Picks(d)
    BY <1>4, <2>1 DEF goToday
  <2> QED BY <2>2, PicksStep
<1>5. CASE clicked \/ gotoDate
  <2>1. PICK d \in Targets : Picks(d)
    BY <1>5 DEF clicked, gotoDate
  <2>2. d \in Int
    BY <1>1
  <2> QED BY <2>1, <2>2, PicksStep
<1> QED BY <1>2, <1>3, <1>4, <1>5

LEMMA AgendaMovedStep ==
    ASSUME WindowInv, AgendaMoved
    PROVE  WindowInv'
<1>1. PICK k \in DOMAIN win.rows :
        /\ win' = setSel([win EXCEPT !.at = k], win.rows[k].date, TRUE, Calls)
        /\ scrolled' = (win.rows[k].date > win.lo + ShowDays)
  BY DEF AgendaMoved
<1>2. day' = day /\ ev' = ev
  BY DEF AgendaMoved, store
<1>3. PICK w : w = win /\ Agree(w)
  BY DEF WindowInv
<1>4. PICK up : up = Calls
  OBVIOUS
<1>5. day \in Int
  BY DEF WindowInv
<1>6. k \in DOMAIN w.rows
  BY <1>1, <1>3
<1>7. PICK d \in Int : d = w.rows[k].date
  BY <1>3, <1>6 DEF Agree, RowsFrom
<1>8. PICK v : v = setSel([w EXCEPT !.at = k], d, TRUE, up)
  OBVIOUS
<1>9. Agree(v) /\ (d <= w.lo + ShowDays => Held(v))
  BY <1>3, <1>5, <1>6, <1>7, <1>8, RowPicked
<1>10. win' = v /\ scrolled' = (d > w.lo + ShowDays)
  BY <1>1, <1>3, <1>4, <1>7, <1>8
<1>11. ~scrolled' => d <= w.lo + ShowDays
  <2>1. PICK m \in Int : m = w.lo + ShowDays
    BY <1>3 DEF Agree, Window, ShowDays
  <2>2. scrolled' = (d > m)
    BY <1>10, <2>1
  <2>3. d <= m \/ d > m
    OBVIOUS
  <2>4. ~scrolled' => d <= m
    BY <2>2, <2>3, Zenon
  <2> QED BY <2>1, <2>4
<1>12. Agree(win') /\ (~scrolled' => Held(win'))
  BY <1>9, <1>10, <1>11
<1> QED BY <1>2, <1>5, <1>12 DEF WindowInv

LEMMA TodoPaneStep ==
    ASSUME WindowInv,
           TodoMoved \/ setShowDone \/ toggleTodo \/ AnswerNewTodo \/ AnswerRemoveTodo \/ AnswerOther
    PROVE  WindowInv'
<1>0. PICK w : w = win /\ Agree(w)
  BY DEF WindowInv
<1>1. CASE TodoMoved
  <2>1. PICK k : win' = [w EXCEPT !.tat = k]
    BY <1>0, <1>1 DEF TodoMoved
  <2>2. PICK v : v = [w EXCEPT !.tat = k]
    OBVIOUS
  <2>3. v = [sel |-> w.sel, today |-> w.today, lo |-> w.lo, occ |-> w.occ, rows |-> w.rows,
             at |-> w.at, items |-> w.items, tat |-> k, showDone |-> w.showDone,
             grid |-> w.grid]
    BY <1>0, <2>2 DEF Agree, Window
  <2>4. Agree(v) /\ (Held(w) => Held(v))
    BY <1>0, <2>3 DEF Agree, Window, RowsFrom, Held, Shows
  <2>5. Agree(win') /\ (~scrolled => Held(win'))
    BY <1>0, <2>1, <2>2, <2>4 DEF WindowInv
  <2>6. day' = day /\ ev' = ev /\ scrolled' = scrolled
    BY <1>1 DEF TodoMoved, store
  <2> QED BY <2>5, <2>6 DEF WindowInv
<1>2. CASE setShowDone
  <2>1. PICK up : win' = refreshTodos([win EXCEPT !.showDone = ~@], todos, up)
    BY <1>2 DEF setShowDone
  <2>2. PICK v, s, t : v = [w EXCEPT !.showDone = s] /\ s = ~w.showDone /\ t = todos
    OBVIOUS
  <2>3. v = [sel |-> w.sel, today |-> w.today, lo |-> w.lo, occ |-> w.occ, rows |-> w.rows,
             at |-> w.at, items |-> w.items, tat |-> w.tat, showDone |-> s,
             grid |-> w.grid]
    BY <1>0, <2>2 DEF Agree, Window
  <2>4. Agree(v) /\ (Held(w) => Held(v))
    BY <1>0, <2>3 DEF Agree, Window, RowsFrom, Held, Shows
  <2>5. win' = refreshTodos(v, t, up)
    <3>1. [win EXCEPT !.showDone = ~@] = v
      BY <1>0, <2>2
    <3> QED BY <2>1, <2>2, <3>1
  <2>6. day' = day /\ ev' = ev /\ scrolled' = scrolled
    BY <1>2 DEF setShowDone, store
  <2>7. Held(win) => Held(v)
    BY <1>0, <2>4
  <2> QED BY <2>4, <2>5, <2>6, <2>7, TodosStep
<1>3. CASE toggleTodo \/ AnswerRemoveTodo \/ (AnswerOther /\ dlg.op # "mail")
  <2>1. PICK t, up : t = todos' /\ up = Calls
    OBVIOUS
  <2>2. win' = refreshTodos(win, todos', Calls)
    BY <1>3 DEF toggleTodo, AnswerRemoveTodo, AnswerOther, store
  <2>3. win' = refreshTodos(w, t, up)
    BY <1>0, <2>1, <2>2
  <2>4. day' = day /\ ev' = ev /\ scrolled' = scrolled
    BY <1>3 DEF toggleTodo, AnswerRemoveTodo, AnswerOther, store
  <2>5. Held(win) => Held(w)
    BY <1>0
  <2> QED BY <1>0, <2>3, <2>4, <2>5, TodosStep
<1>4. CASE AnswerOther /\ dlg.op = "mail"
  <2>1. win' = win /\ day' = day /\ ev' = ev /\ scrolled' = scrolled
    BY <1>4 DEF AnswerOther, store
  <2> QED BY <2>1 DEF WindowInv
<1>5. CASE AnswerNewTodo
  <2>1. PICK t, up : t = todos' /\ up = Calls
    OBVIOUS
  <2>2. PICK b : b = refreshTodos(w, t, up)
    OBVIOUS
  <2>3. /\ Window(b) /\ b.lo = w.lo /\ b.sel = w.sel /\ b.grid = w.grid
        /\ b.rows = w.rows /\ b.at = w.at
    BY <1>0, <2>2, TodosRefreshed DEF Agree
  <2>4. PICK v : v = refreshGrid(b)
    OBVIOUS
  <2>5. /\ Window(v) /\ v.lo = b.lo /\ v.sel = b.sel /\ v.grid = Month(v.sel)
        /\ v.rows = b.rows /\ v.at = b.at
    BY <2>3, <2>4, GridRefreshed
  <2>6. Agree(v) /\ (Held(w) => Held(v))
    BY <1>0, <2>3, <2>5 DEF Agree, RowsFrom, Held, Shows
  <2>7. win' = v
    <3>1. win' = refreshGrid(refreshTodos(win, todos', Calls))
      BY <1>5 DEF AnswerNewTodo
    <3> QED BY <1>0, <2>1, <2>2, <2>4, <3>1
  <2>8. Agree(win') /\ (~scrolled => Held(win'))
    BY <1>0, <2>6, <2>7 DEF WindowInv
  <2>9. day' = day /\ ev' = ev /\ scrolled' = scrolled
    BY <1>5 DEF AnswerNewTodo
  <2> QED BY <2>8, <2>9 DEF WindowInv
<1> QED BY <1>1, <1>2, <1>3, <1>4, <1>5

\* Who changes events, changes them into days
LEMMA EventsChanged ==
    ASSUME Events(ev), NEW u, NEW p \in SUBSET Targets
    PROVE  Events([ev EXCEPT ![u] = p])
<1>1. p \subseteq Int
  BY ConstantsOK
<1> QED BY <1>1 DEF Events

LEMMA EventsAdded ==
    ASSUME Events(ev), NEW n, NEW days \in SUBSET Targets, AddsEvents(n, days)
    PROVE  Events(ev')
<1>1. days \subseteq Int
  BY ConstantsOK
<1>2. PICK us : ev' = [u \in Uids |-> IF u \in us THEN days ELSE ev[u]]
  BY DEF AddsEvents
<1> QED BY <1>1, <1>2 DEF Events

LEMMA ChangesEvents ==
    ASSUME Events(ev), Changes
    PROVE  Events(ev')
<1>1. CASE ev' = ev
  BY <1>1 DEF Events
<1>2. ASSUME NEW u \in Uids, NEW p \in Placements \cup {{}}, ev' = [ev EXCEPT ![u] = p]
      PROVE  Events(ev')
  <2>1. p \in SUBSET Targets
    BY ConstantsOK
  <2>2. PICK e : e = [ev EXCEPT ![u] = p] /\ Events(e)
    BY <2>1, EventsChanged
  <2> QED BY <1>2, <2>2 DEF Events
<1> QED BY <1>1, <1>2 DEF Changes

LEMMA ReadAgainStep ==
    ASSUME WindowInv, ImportOrFloyd \/ AnswerEdit \/ AnswerRemove \/ IncomingEnds \/ calPoll
    PROVE  WindowInv'
<1>0. Events(ev)
  BY DEF WindowInv
<1>1. CASE ImportOrFloyd
  <2>1. PICK up : win' = refreshAll(win, FALSE, ev', todos', up)
    BY <1>1 DEF ImportOrFloyd
  <2>2. Events(ev')
    BY <1>0, <1>1, ChangesEvents DEF ImportOrFloyd
  <2>3. PICK e, t : e = ev' /\ t = todos' /\ Events(e)
    BY <2>2 DEF Events
  <2>4. win' = RefreshFrom(win, win.lo, e, t, up)
    BY <2>1, <2>3 DEF refreshAll, RefreshFrom
  <2>5. day' = day /\ scrolled' = scrolled
    BY <1>1 DEF ImportOrFloyd
  <2>6. Reread
    BY <2>3, <2>4 DEF Reread
  <2> QED BY <2>5, <2>6, RereadStep
<1>2. CASE AnswerEdit \/ AnswerRemove
  <2>1. PICK up : win' = refreshAll(win, FALSE, ev', todos, up)
    BY <1>2 DEF AnswerEdit, AnswerRemove, Refreshed
  <2>2. PICK e, t : e = ev' /\ t = todos /\ Events(e)
    <3>1. PICK p \in Placements \cup {{}} : ev' = [ev EXCEPT ![Target] = p]
      BY <1>2 DEF AnswerEdit, AnswerRemove
    <3>2. p \in SUBSET Targets
      BY ConstantsOK
    <3>3. PICK u, e : u = Target /\ e = [ev EXCEPT ![u] = p]
      OBVIOUS
    <3>4. Events(e)
      BY <1>0, <3>2, <3>3, EventsChanged
    <3> QED BY <3>1, <3>3, <3>4
  <2>3. win' = RefreshFrom(win, win.lo, e, t, up)
    BY <2>1, <2>2 DEF refreshAll, RefreshFrom
  <2>4. day' = day /\ scrolled' = scrolled
    BY <1>2 DEF AnswerEdit, AnswerRemove
  <2>5. Reread
    BY <2>2, <2>3 DEF Reread
  <2> QED BY <2>4, <2>5, RereadStep
<1>3. CASE IncomingEnds
  <2>1. PICK up : win' = refreshAll(win, FALSE, ev, todos, up)
    BY <1>3 DEF IncomingEnds, Refreshed
  <2>2. PICK e, t : e = ev /\ t = todos /\ Events(e)
    BY <1>0
  <2>3. win' = RefreshFrom(win, win.lo, e, t, up)
    BY <2>1, <2>2 DEF refreshAll, RefreshFrom
  <2>4. day' = day /\ scrolled' = scrolled /\ ev' = ev
    BY <1>3 DEF IncomingEnds, store
  <2>5. Reread
    BY <2>2, <2>3, <2>4 DEF Reread
  <2> QED BY <2>4, <2>5, RereadStep
<1>4. CASE calPoll
  <2>1. PICK times, up : win' = IF "refresh" \in times THEN refreshAll(win, FALSE, ev, todos, up) ELSE win
    BY <1>4 DEF calPoll
  <2>2. PICK e, t : e = ev /\ t = todos /\ Events(e)
    BY <1>0
  <2>4. day' = day /\ scrolled' = scrolled /\ ev' = ev
    BY <1>4 DEF calPoll, store
  <2>3. CASE "refresh" \in times
    <3>1. win' = RefreshFrom(win, win.lo, e, t, up)
      BY <2>1, <2>2, <2>3 DEF refreshAll, RefreshFrom
    <3>2. Reread
      BY <2>2, <2>4, <3>1 DEF Reread
    <3> QED BY <2>4, <3>2, RereadStep
  <2>5. CASE "refresh" \notin times
    <3>1. win' = win
      BY <2>1, <2>5
    <3> QED BY <2>4, <3>1 DEF WindowInv
  <2> QED BY <2>3, <2>5
<1> QED BY <1>1, <1>2, <1>3, <1>4

\* A new event: the window goes to its day.
LEMMA NewEventStep ==
    ASSUME WindowInv, AnswerNew
    PROVE  WindowInv'
<1>0. PICK n \in {1, 2}, d \in Targets : \E up :
        AddsEvents(n, {d}) /\ win' = refreshAll([win EXCEPT !.sel = d], TRUE, ev', todos, up)
  BY DEF AnswerNew
<1>1. PICK up :
        AddsEvents(n, {d}) /\ win' = refreshAll([win EXCEPT !.sel = d], TRUE, ev', todos, up)
  BY <1>0
<1>2. day' = day /\ scrolled' = FALSE
  BY DEF AnswerNew
<1>3. PICK e, t : e = ev' /\ t = todos
  OBVIOUS
<1>4. Events(e)
  <2>1. Events(ev) /\ {d} \in SUBSET Targets
    BY DEF WindowInv
  <2>2. PICK p \in SUBSET Targets : p = {d}
    BY <2>1
  <2>3. AddsEvents(n, p)
    BY <1>1, <2>2
  <2> QED BY <1>3, <2>1, <2>3, EventsAdded
<1>5. PICK w : w = [win EXCEPT !.sel = d]
  OBVIOUS
<1>6. d \in Int /\ day \in Int
  BY ConstantsOK DEF WindowInv
<1>7. Window(w) /\ w.sel = d
  <2>1. w = [sel |-> d, today |-> win.today, lo |-> win.lo, occ |-> win.occ, rows |-> win.rows,
             at |-> win.at, items |-> win.items, tat |-> win.tat, showDone |-> win.showDone,
             grid |-> win.grid]
    BY <1>5 DEF WindowInv, Agree, Window
  <2> QED BY <1>6, <2>1 DEF WindowInv, Agree, Window
<1>8. PICK v : v = RefreshFrom(w, d, e, t, up)
  OBVIOUS
<1>9. Agree(v) /\ (d <= w.sel /\ w.sel <= d + ShowDays => Held(v))
  BY <1>4, <1>6, <1>7, <1>8, AllRefreshed
<1>10. d <= w.sel /\ w.sel <= d + ShowDays
  BY <1>6, <1>7 DEF ShowDays
<1>11. win' = v
  <2>1. win' = RefreshFrom(w, w.sel, e, t, up)
    BY <1>1, <1>3, <1>5 DEF refreshAll, RefreshFrom
  <2> QED BY <1>7, <1>8, <2>1
<1>12. Agree(win') /\ Held(win')
  BY <1>9, <1>10, <1>11
<1>13. Events(ev')
  BY <1>3, <1>4
<1> QED BY <1>2, <1>6, <1>12, <1>13 DEF WindowInv

LEMMA WindowStep ==
    ASSUME WindowInv, [CalNext]_calVars
    PROVE  WindowInv'
<1>0. Events(ev)
  BY DEF WindowInv
<1>1. CASE UNCHANGED calVars
  BY <1>1 DEF calVars, store, WindowInv
<1>2. CASE moveDays \/ moveMonths \/ goToday \/ clicked \/ gotoDate
  BY <1>2, MovesStep
<1>3. CASE AgendaMoved
  BY <1>3, AgendaMovedStep
<1>4. CASE TodoMoved \/ setShowDone \/ toggleTodo \/ AnswerNewTodo \/ AnswerRemoveTodo \/ AnswerOther
  BY <1>4, TodoPaneStep
<1>5. CASE ImportOrFloyd \/ AnswerEdit \/ AnswerRemove \/ IncomingEnds \/ calPoll
  BY <1>5, ReadAgainStep
<1>6. CASE AnswerNew
  BY <1>6, NewEventStep
<1>7. CASE newEvent \/ newTodo \/ editEvent \/ deleteEvent \/ editTodo \/ deleteTodo \/ mailInvite
  BY <1>7 DEF newEvent, newTodo, editEvent, deleteEvent, editTodo, deleteTodo, mailInvite, Asks,
              store, WindowInv
<1>8. CASE focusPane \/ shareInChat \/ AnswerEditWithDelete \/ AnswerNo
  BY <1>8 DEF focusPane, shareInChat, AnswerEditWithDelete, AnswerNo, store, WindowInv
<1>9. CASE OtherAsks \/ AnotherAnswers \/ incoming \/ IncomingGone \/ IncomingKept \/ IncomingDiscarded
  BY <1>9 DEF OtherAsks, AnotherAnswers, incoming, IncomingGone, IncomingKept, IncomingDiscarded,
              store, WindowInv
<1>10. CASE OthersChange
  <2>1. Events(ev')
    BY <1>0, <1>10, ChangesEvents DEF OthersChange
  <2> QED BY <1>10, <2>1 DEF OthersChange, WindowInv
<1>11. CASE IncomingAdded \/ IncomingUnheard
  <2>1. PICK n \in {1, 2}, p \in Placements : AddsEvents(n, p)
    BY <1>11 DEF IncomingAdded, IncomingUnheard
  <2>2. p \in SUBSET Targets
    BY ConstantsOK
  <2>3. Events(ev')
    BY <1>0, <2>1, <2>2, EventsAdded
  <2> QED BY <1>11, <2>3 DEF IncomingAdded, IncomingUnheard, WindowInv
<1>12. CASE Midnight
  <2>1. day' = day + 1 /\ ev' = ev /\ win' = win /\ scrolled' = scrolled
    BY <1>12 DEF Midnight
  <2>2. day' \in Int
    BY <2>1 DEF WindowInv
  <2> QED BY <2>1, <2>2 DEF WindowInv
<1> QED BY <1>1, <1>2, <1>3, <1>4, <1>5, <1>6, <1>7, <1>8, <1>9, <1>10, <1>11, <1>12 DEF CalNext

-----------------------------------------------------------------------------
(* The dialogs                                                             *)

\* What a dialog acts on is what it named: deleteTodo()'s, because nothing
\* moves its list's highlight while it is up.
DialogInv ==
    /\ dlg = NoDialog \/ inbox = NoInbox
    /\ dlg.op # "rm to-do" => dlg.uid = dlg.named
    /\ dlg.op = "rm to-do" => dlg.named = todoShown(win)
    /\ RightItem

LEMMA DialogStarts == CalInit => DialogInv
  BY DEF CalInit, DialogInv, RightItem, NoDialog

LEMMA NoDialogIsRight ==
    ASSUME dlg' = NoDialog, RightItem'
    PROVE  DialogInv'
<1>1. dlg'.op = "none" /\ dlg'.uid = dlg'.named
  BY DEF NoDialog
<1> QED BY <1>1 DEF DialogInv

LEMMA DialogStep ==
    ASSUME DialogInv, [CalNext]_calVars
    PROVE  DialogInv'
<1>0. Target = dlg.named
  BY DEF DialogInv, Target
<1>1. CASE UNCHANGED <<win, dlg, inbox, acted>>
  BY <1>1 DEF DialogInv, RightItem, todoShown
<1>2. CASE UNCHANGED calVars \/ OthersChange \/ Midnight \/ OtherAsks \/ AnotherAnswers
  <2>1. UNCHANGED <<win, dlg, inbox, acted>>
    BY <1>2 DEF calVars, asking, OthersChange, Midnight, OtherAsks, AnotherAnswers
  <2> QED BY <1>1, <2>1
<1>3. CASE dlg = NoDialog /\ dlg' = dlg /\ acted' = acted
  BY <1>3, NoDialogIsRight DEF DialogInv, RightItem
<1>4. CASE moveDays \/ moveMonths \/ goToday \/ clicked \/ gotoDate
  <2>1. dlg = NoDialog /\ dlg' = dlg /\ acted' = acted
    BY <1>4 DEF moveDays, moveMonths, goToday, clicked, gotoDate, Picks, Idle
  <2> QED BY <1>3, <2>1
<1>5. CASE AgendaMoved \/ TodoMoved \/ focusPane \/ setShowDone \/ toggleTodo \/ ImportOrFloyd
           \/ incoming \/ calPoll
  <2>1. dlg = NoDialog /\ dlg' = dlg /\ acted' = acted
    BY <1>5 DEF AgendaMoved, TodoMoved, focusPane, setShowDone, toggleTodo, ImportOrFloyd,
                incoming, calPoll, Idle
  <2> QED BY <1>3, <2>1
<1>6. CASE \/ IncomingGone \/ IncomingAdded \/ IncomingUnheard \/ IncomingKept
           \/ IncomingDiscarded \/ IncomingEnds
  <2>1. inbox # NoInbox /\ dlg' = dlg /\ acted' = acted
    BY <1>6 DEF IncomingGone, IncomingAdded, IncomingUnheard, IncomingKept, IncomingDiscarded,
                IncomingEnds, Open, NoInbox
  <2>2. dlg = NoDialog
    BY <2>1 DEF DialogInv
  <2> QED BY <1>3, <2>1, <2>2
<1>7. CASE newEvent \/ newTodo \/ editEvent \/ deleteEvent \/ editTodo \/ mailInvite
  <2>0. \/ Asks("new event", None) \/ Asks("new to-do", None) \/ Asks("edit", eventShown(win))
        \/ Asks("rm", eventShown(win)) \/ Asks("edit to-do", todoShown(win))
        \/ Asks("mail", shareTarget)
    BY <1>7 DEF newEvent, newTodo, editEvent, deleteEvent, editTodo, mailInvite
  <2>1. PICK op \in {"new event", "new to-do", "edit", "rm", "edit to-do", "mail"} :
          \E u : Asks(op, u)
    BY <2>0
  <2>3. PICK u : Asks(op, u)
    BY <2>1
  <2>2. /\ dlg' = [op |-> op, uid |-> u, named |-> u] /\ acted' = acted /\ inbox' = inbox
        /\ inbox = NoInbox
    BY <2>3 DEF Asks, Idle, asking
  <2> QED BY <2>1, <2>2 DEF DialogInv, RightItem
<1>8. CASE deleteTodo
  <2>1. PICK u : u = todoShown(win) /\ Asks("rm to-do", u)
    BY <1>8 DEF deleteTodo
  <2>2. /\ dlg' = [op |-> "rm to-do", uid |-> u, named |-> u] /\ acted' = acted
        /\ inbox' = inbox /\ inbox = NoInbox /\ win' = win
    BY <2>1 DEF Asks, Idle, asking
  <2>3. dlg'.named = todoShown(win')
    BY <2>1, <2>2
  <2> QED BY <2>2, <2>3 DEF DialogInv, RightItem
<1>9. CASE shareInChat
  <2>1. dlg = NoDialog /\ dlg' = dlg /\ acted' = [meant |-> shareTarget, got |-> shareTarget]
    BY <1>9 DEF shareInChat, Idle
  <2>2. RightItem'
    BY <2>1 DEF RightItem
  <2> QED BY <2>1, <2>2, NoDialogIsRight
<1>10. CASE AnswerNew \/ AnswerNewTodo \/ AnswerNo
  <2>1. dlg' = NoDialog /\ acted' = acted
    BY <1>10 DEF AnswerNew, AnswerNewTodo, AnswerNo, Answers
  <2>2. RightItem'
    BY <2>1 DEF DialogInv, RightItem
  <2> QED BY <2>1, <2>2, NoDialogIsRight
<1>11. CASE AnswerEdit \/ AnswerRemove \/ AnswerRemoveTodo \/ AnswerOther
  <2>1. dlg' = NoDialog /\ acted' = [meant |-> dlg.named, got |-> Target]
    BY <1>11 DEF AnswerEdit, AnswerRemove, AnswerRemoveTodo, AnswerOther, Answers
  <2>2. RightItem'
    BY <1>0, <2>1 DEF RightItem
  <2> QED BY <2>1, <2>2, NoDialogIsRight
<1>12. CASE AnswerEditWithDelete
  <2>1. dlg # NoDialog
    <3>1. NoDialog.op = "none"
      BY DEF NoDialog
    <3>2. dlg.op \in {"edit", "edit to-do"}
      BY <1>12 DEF AnswerEditWithDelete
    <3> QED BY <3>1, <3>2
  <2>2. inbox = NoInbox /\ inbox' = inbox /\ acted' = acted /\ win' = win
    BY <1>12, <2>1 DEF AnswerEditWithDelete, asking, DialogInv
  <2>3. CASE dlg.op = "edit"
    <3>1. PICK u : dlg' = [op |-> "rm", uid |-> u, named |-> u]
      BY <1>12, <2>3 DEF AnswerEditWithDelete
    <3> QED BY <2>2, <3>1 DEF DialogInv, RightItem
  <2>4. CASE dlg.op # "edit"
    <3>1. PICK u : u = todoShown(win) /\ dlg' = [op |-> "rm to-do", uid |-> u, named |-> u]
      BY <1>12, <2>4 DEF AnswerEditWithDelete
    <3>2. dlg'.named = todoShown(win')
      BY <2>2, <3>1
    <3> QED BY <2>2, <3>1, <3>2 DEF DialogInv, RightItem
  <2> QED BY <2>3, <2>4
<1> QED BY <1>2, <1>4, <1>5, <1>6, <1>7, <1>8, <1>9, <1>10, <1>11, <1>12 DEF CalNext

\* The panes are about one day, and a dialog's answer about the item it named,
\* for all calendars and however far the user goes.
THEOREM PanesAndDialogsAlwaysTrue == CalSpec => []PanesAndDialogsAreTrue
<1> DEFINE Inv == WindowInv /\ DialogInv
<1>1. CalInit => Inv
  BY WindowStarts, DialogStarts
<1>2. Inv /\ [CalNext]_calVars => Inv'
  BY WindowStep, DialogStep
<1>3. Inv => PanesAndDialogsAreTrue
  BY DEF WindowInv, DialogInv, Agree, Held, Shows, PanesAndDialogsAreTrue, PanesAgree, Current
<1> QED BY <1>1, <1>2, <1>3, PTL DEF CalSpec

=============================================================================
