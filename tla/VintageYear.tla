---------------------------- MODULE VintageYear ----------------------------
(***************************************************************************)
(* year_from_timestamp of the credit-retirement contract: the calendar year *)
(* of a day, counted from 1970-01-01, found by counting days in eras of 400 *)
(* years that start on March 1st.  (The seconds of the day are dropped by   *)
(* the first division; the cast to u32 is exact for the years of u64        *)
(* timestamps below 2^56.)                                                  *)
(***************************************************************************)
EXTENDS Integers

YearOfEra(d) == (d - d \div 1460 + d \div 36524 - d \div 146096) \div 365

DayOfYear(d) == d - (365 * YearOfEra(d) + YearOfEra(d) \div 4 - YearOfEra(d) \div 100)

(* MUTANT of Month: January and February count as months 13 and 14. *)
Month_NoWrap(d) == (5 * DayOfYear(d) + 2) \div 153 + 3

Month(d) ==
  LET shifted_month == (5 * DayOfYear(d) + 2) \div 153 IN
  IF shifted_month < 10 THEN shifted_month + 3 ELSE shifted_month - 9

year_from_timestamp(days) ==
  LET shifted == days + 719468
      day_of_era == shifted % 146097
      year == YearOfEra(day_of_era) + (shifted \div 146097) * 400
  IN IF Month(day_of_era) <= 2 THEN year + 1 ELSE year

(* The Gregorian calendar: leap years up to y, the day a year begins, and   *)
(* the days that lie in a year.                                             *)
Leaps(y) == y \div 4 - y \div 100 + y \div 400
JanuaryFirst(year) == 365 * (year - 1970) + Leaps(year - 1) - Leaps(1969)
InYear(day, year) == JanuaryFirst(year) <= day /\ day < JanuaryFirst(year + 1)
=============================================================================
