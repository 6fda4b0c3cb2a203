------------------------------ MODULE Calendar ------------------------------
(***************************************************************************)
(* From a Unix time in 2027 to its month, in the ways this repository has: *)
(* the table of days of src/27-robust.c, which is given the time in        *)
(* hundreds of seconds, and that of src/03-fasthash.c, which is given it   *)
(* without its first digit too; the chains of month ends of src/01-tight.c *)
(* and src/02-fastio.c; and the civil calendar of src/00-naive.c and of    *)
(* tools/reference.zig.                                                    *)
(***************************************************************************)
EXTENDS Integers

YearStart  == 1798761600
YearStart8 == YearStart \div 100
DaySeconds == 86400
UnitsPerDay == DaySeconds \div 100
YearDays   == 365

InYear == YearStart..(YearStart + YearDays * DaySeconds - 1)

Days == <<31, 28, 31, 30, 31, 30, 31, 31, 30, 31, 30, 31>>

(* The days of the year before month m, months counted from 0.             *)
DaysBefore[m \in 0..12] == IF m = 0 THEN 0 ELSE DaysBefore[m - 1] + Days[m]

(* day_month                                                               *)
DayMonth ==
  [d \in 0..(YearDays - 1) |->
     CHOOSE m \in 0..11 : DaysBefore[m] <= d /\ d < DaysBefore[m + 1]]

(* Mutant: the table is indexed from the day after.                        *)
DayIndexNext(ts8) == (ts8 - YearStart8) \div UnitsPerDay + 1

DayIndex(ts8) == (ts8 - YearStart8) \div UnitsPerDay

MonthOf(ts8) == DayMonth[DayIndex(ts8)]

(* 01-tight: the first month whose end is not passed                       *)
MonthEnd(m) == YearStart + DaysBefore[m + 1] * DaySeconds

MonthByChain(ts) == CHOOSE m \in 0..11 : ts < MonthEnd(m) /\ \A k \in 0..(m - 1) : ts >= MonthEnd(k)

(* The middle seven of ten digits: TRUNCATE_TS, MONTH_END of 02            *)
Truncate7(ts) == (ts % 1000000000) \div 100

(* 02-fastio                                                               *)
MonthByChain7(ts7) ==
  CHOOSE m \in 0..11 : ts7 < Truncate7(MonthEnd(m)) /\ \A k \in 0..(m - 1) : ts7 >= Truncate7(MonthEnd(k))

(* 03-fasthash                                                             *)
DayIndex7(ts7) == (ts7 - Truncate7(YearStart)) \div UnitsPerDay

MonthOf7(ts7) == DayMonth[DayIndex7(ts7)]

(* civil_from_days: the day number since 0000-03-01 in 400-year eras       *)
Civil(ts) ==
  LET z   == ts \div DaySeconds + 719468
      era == z \div 146097
      doe == z - era * 146097
      yoe == (doe - doe \div 1460 + doe \div 36524 - doe \div 146096) \div 365
      doy == doe - (365 * yoe + yoe \div 4 - yoe \div 100)
      mp  == (5 * doy + 2) \div 153
      month == IF mp < 10 THEN mp + 3 ELSE mp - 9
  IN  [year |-> yoe + era * 400 + (IF month <= 2 THEN 1 ELSE 0), month |-> month]

(* 00-naive: one number for the year and the month                         *)
YearMonth(ts) == Civil(ts).year * 12 + Civil(ts).month - 1
=============================================================================
