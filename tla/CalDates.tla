------------------------------ MODULE CalDates ------------------------------
(***************************************************************************)
(* tvcal's date arithmetic (tvcal/src/cal.cpp), and a calendar that simply *)
(* walks from day to day to check it against.  A date is a record; a day   *)
(* is its number, 1970-01-01 being 0; a weekday is 0 for Monday.           *)
(***************************************************************************)
EXTENDS Integers

CONSTANTS
    Starts,      \* days to walk from: number, date and weekday, from an almanac
    WalkDays     \* bound: how far

VARIABLES walk, wDate, wDay, walked
walkVars == <<walk, wDate, wDay, walked>>

\* C++'s division
Trunc(n, k) == IF n >= 0 THEN n \div k ELSE -((-n) \div k)
Ymd(y, m, d) == [y |-> y, m |-> m, d |-> d]

daysFromCivil(t) ==
    LET y == t.y - (IF t.m <= 2 THEN 1 ELSE 0)
        era == Trunc(IF y >= 0 THEN y ELSE y - 399, 400)
        yoe == y - era * 400
        doy == Trunc(153 * (t.m + (IF t.m > 2 THEN -3 ELSE 9)) + 2, 5) + t.d - 1
    IN era * 146097 + (yoe * 365 + Trunc(yoe, 4) - Trunc(yoe, 100) + doy) - 719468

civilFromDaysNoEraEnd(day) ==                \* mutant: the last day of 400 years
    LET z == day + 719468
        era == Trunc(IF z >= 0 THEN z ELSE z - 146096, 146097)
        doe == z - era * 146097
        yoe == Trunc(doe - Trunc(doe, 1460) + Trunc(doe, 36524), 365)
        doy == doe - (365 * yoe + Trunc(yoe, 4) - Trunc(yoe, 100))
        mp == Trunc(5 * doy + 2, 153)
        m == IF mp < 10 THEN mp + 3 ELSE mp - 9
    IN Ymd(yoe + era * 400 + (IF m <= 2 THEN 1 ELSE 0), m, doy - Trunc(153 * mp + 2, 5) + 1)
civilFromDays(day) ==
    LET z == day + 719468
        era == Trunc(IF z >= 0 THEN z ELSE z - 146096, 146097)
        doe == z - era * 146097
        yoe == Trunc(doe - Trunc(doe, 1460) + Trunc(doe, 36524) - Trunc(doe, 146096), 365)
        doy == doe - (365 * yoe + Trunc(yoe, 4) - Trunc(yoe, 100))
        mp == Trunc(5 * doy + 2, 153)
        m == IF mp < 10 THEN mp + 3 ELSE mp - 9
    IN Ymd(yoe + era * 400 + (IF m <= 2 THEN 1 ELSE 0), m, doy - Trunc(153 * mp + 2, 5) + 1)

ymdAdd(t, n) == civilFromDays(daysFromCivil(t) + n)
ymdDiff(s, t) == daysFromCivil(s) - daysFromCivil(t)
ymdWeekday(t) == ((daysFromCivil(t) % 7) + 7 + 3) % 7
ymdMonthLength(y, m) ==
    <<31, 28, 31, 30, 31, 30, 31, 31, 30, 31, 30, 31>>[m]
    + (IF m = 2 /\ ((y % 4 = 0 /\ y % 100 # 0) \/ y % 400 = 0) THEN 1 ELSE 0)

\* ymdParse()'s bounds
IsDate(t) == t.m \in 1 .. 12 /\ t.d \in 1 .. ymdMonthLength(t.y, t.m)

ymdAddMonths(t, n) ==
    LET mi == t.y * 12 + (t.m - 1) + n
        y == Trunc(mi, 12)
        m == mi - y * 12 + 1
        len == ymdMonthLength(y, m)
    IN Ymd(y, m, IF t.d < len THEN t.d ELSE len)

\* TMonthPane::gridStart(): the day in the grid's first cell
gridStart(t, mondayFirst) ==
    LET first == Ymd(t.y, t.m, 1)
        wd == ymdWeekday(first)
    IN ymdAdd(first, -(IF mondayFirst THEN wd ELSE (wd + 1) % 7))

-----------------------------------------------------------------------------
\* The almanac's days, from the third year on, are what the arithmetic makes of
\* their dates: where the walk sets out.
ASSUME AlmanacAssumption ==
    \A s \in Starts :
       /\ s.date = Ymd(s.date.y, s.date.m, s.date.d) /\ IsDate(s.date)
       /\ s.date.y \in Int /\ s.date.y > 1 /\ s.date.m \in Int /\ s.date.d \in Int
       /\ s.day = daysFromCivil(s.date) /\ s.weekday = ymdWeekday(s.date)

WalkInit ==
    /\ \E s \in Starts : walk = s.day /\ wDate = s.date /\ wDay = s.weekday
    /\ walked = 0

Tomorrow(t) == IF t.d < ymdMonthLength(t.y, t.m) THEN [t EXCEPT !.d = @ + 1]
               ELSE IF t.m < 12 THEN Ymd(t.y, t.m + 1, 1) ELSE Ymd(t.y + 1, 1, 1)
WalkOn ==
    /\ walked < WalkDays /\ walked' = walked + 1
    /\ walk' = walk + 1 /\ wDate' = Tomorrow(wDate) /\ wDay' = (wDay + 1) % 7

WalkSpec == WalkInit /\ [][WalkOn]_walkVars

\* Over leap days, centuries and the epoch: days and dates convert into one
\* another, a month further is in the next month and on a day it has, and the
\* six weeks of the grid hold the whole month, starting on the right weekday.
DatesAreRight ==
    /\ daysFromCivil(wDate) = walk /\ civilFromDays(walk) = wDate
    /\ ymdWeekday(wDate) = wDay /\ IsDate(wDate)
    /\ \A n \in {-13, -1, 1, 12} :
         LET t == ymdAddMonths(wDate, n)
         IN /\ IsDate(t) /\ t.d <= wDate.d /\ t.y * 12 + t.m = wDate.y * 12 + wDate.m + n
            /\ t.d < wDate.d => t.d = ymdMonthLength(t.y, t.m)
    /\ \A mondayFirst \in BOOLEAN :
         LET g == gridStart(wDate, mondayFirst)
         IN /\ ymdWeekday(g) = IF mondayFirst THEN 0 ELSE 6
            /\ ymdDiff(Ymd(wDate.y, wDate.m, 1), g) \in 0 .. 6
            /\ ymdDiff(Ymd(wDate.y, wDate.m, ymdMonthLength(wDate.y, wDate.m)), g) <= 41
=============================================================================
