------------------------------ MODULE Calendar ------------------------------
(***************************************************************************)
(* Civil dates as the attestation verifier counts them, and the calendar   *)
(* they are dates of. The verifier's clock is unix seconds; every date it  *)
(* compares with is a midnight, so whole days lose nothing: seconds s are  *)
(* at or past the midnight of day n exactly when s \div 86400 >= n.        *)
(***************************************************************************)
EXTENDS Integers

Month == 1..12

(* unix_start_of: the day number, from 1970-01-01, of a civil date. Years  *)
(* run from March so that the leap day is a year's last. Rust divides      *)
(* towards zero, hence the shift below zero. A centurial year loses a day, *)
(* and every fourth of them keeps it because an era of 400 years is whole. *)
UnixStartJulian(date) ==
  LET year == date[1] - (IF date[2] <= 2 THEN 1 ELSE 0)
      month == date[2]
      dayOfYear == (153 * (month + (IF month > 2 THEN -3 ELSE 9)) + 2) \div 5
                   + date[3] - 1
  IN  year * 365 + year \div 4 + dayOfYear - 719483

UnixStartOf(date) ==
  LET year == date[1] - (IF date[2] <= 2 THEN 1 ELSE 0)
      era  == IF year >= 0 THEN year \div 400 ELSE -((399 - year) \div 400)
      yearOfEra == year - era * 400
      month == date[2]
      dayOfYear == (153 * (month + (IF month > 2 THEN -3 ELSE 9)) + 2) \div 5
                   + date[3] - 1
      dayOfEra  == yearOfEra * 365 + yearOfEra \div 4 - yearOfEra \div 100
                   + dayOfYear
  IN  era * 146097 + dayOfEra - 719468

-----------------------------------------------------------------------------
(* The Gregorian calendar itself, by its own rules.                        *)

IsLeap(year) == year % 4 = 0 /\ (year % 100 # 0 \/ year % 400 = 0)

DaysIn(year, month) ==
  IF month = 2 THEN (IF IsLeap(year) THEN 29 ELSE 28)
  ELSE IF month \in {4, 6, 9, 11} THEN 30 ELSE 31

IsDate(date) ==
  date \in Int \X Month \X (1..31) /\ date[3] <= DaysIn(date[1], date[2])

NextDay(date) ==
  IF date[3] < DaysIn(date[1], date[2]) THEN <<date[1], date[2], date[3] + 1>>
  ELSE IF date[2] < 12 THEN <<date[1], date[2] + 1, 1>>
  ELSE <<date[1] + 1, 1, 1>>

Earlier(a, b) ==
  \/ a[1] < b[1]
  \/ a[1] = b[1] /\ (a[2] < b[2] \/ (a[2] = b[2] /\ a[3] < b[3]))

=============================================================================
