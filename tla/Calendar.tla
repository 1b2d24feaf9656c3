----------------------------- MODULE Calendar -----------------------------
(***************************************************************************)
(* DATE values and timestamps: an application walks through the calendar   *)
(* of sqli_temporal.c, which knows the days that exist, sends each date to *)
(* the server and back through the calendar of sqli_temporal_codec.c,      *)
(* which numbers them from 31 December 1899, and converts it to a Unix     *)
(* time and back through the two calendars of sqli_types.c and             *)
(* sqli_result_value.c.                                                    *)
(***************************************************************************)
EXTENDS TemporalCodec

CONSTANTS
  Starts,         \* dates to start from, with the number of each
  Walk,           \* how many days the application goes on from there
  DaySeconds,     \* seconds in a day, 86400
  SecondParts     \* parts of a second, 1000

VARIABLES
  date,           \* a sqli_date_t, the days of a sqli_timestamp_t
  time,           \* the second of the day and the part of the second
  number,         \* the days from 31 December 1899 to it
  walked          \* how many days it has walked

vars == <<date, time, number, walked>>

Init ==
  /\ walked = 0
  /\ \E start \in Starts : date = start.date /\ number = start.number
  /\ time \in [second : {0, DaySeconds - 1}, part : {0, SecondParts - 1}]

-----------------------------------------------------------------------------
(* Days from 31 December 1899 to 1 January 1970.                           *)
UnixEpoch == 25568

(* ymd_to_days: a year begins in March and belongs to an era of 400 years. *)
DaysOfCivil(d) ==
  LET y == IF d.month <= 2 THEN d.year - 1 ELSE d.year
      m == IF d.month <= 2 THEN d.month + 12 ELSE d.month
      era == y \div 400
      yoe == y - era * 400
      doy == (153 * (m - 3) + 2) \div 5 + d.day - 1
  IN era * 146097 + yoe * 365 + yoe \div 4 - yoe \div 100 + doy - 719468

(* sqli_days_to_ymd_ifx                                                    *)
CivilOfDays(days) ==
  LET z == days - UnixEpoch + 719468
      era == z \div 146097
      doe == z - era * 146097
      yoe == (doe - doe \div 1460 + doe \div 36524 - doe \div 146096) \div 365
      doy == doe - (365 * yoe + yoe \div 4 - yoe \div 100)
      mp == (5 * doy + 2) \div 153
      month == IF mp < 10 THEN mp + 3 ELSE mp - 9
      year == yoe + era * 400
  IN DateOf(IF month <= 2 THEN year + 1 ELSE year, month,
            doy - (153 * mp + 2) \div 5 + 1)

(* The division of C rounds towards zero.                                  *)
Quotient(a, b) == IF a < 0 THEN - ((- a) \div b) ELSE a \div b
Remainder(a, b) == a - Quotient(a, b) * b

(* sqli_timestamp_to_epoch_ms                                              *)
ToEpoch(d, t) ==
  (DaysOfCivil(d) * DaySeconds + t.second) * SecondParts + t.part

(* A negative remainder borrows from the quotient.                         *)
Borrowed(a, b) ==
  IF Remainder(a, b) < 0
  THEN [whole |-> Quotient(a, b) - 1, rest |-> Remainder(a, b) + b]
  ELSE [whole |-> Quotient(a, b), rest |-> Remainder(a, b)]

(* sqli_timestamp_from_epoch_ms, sqli_timestamp_from_epoch_sec             *)
FromEpoch(parts) ==
  LET seconds == Borrowed(parts, SecondParts)
      days == Borrowed(seconds.whole, DaySeconds)
  IN [date |-> CivilOfDays(days.whole + UnixEpoch),
      time |-> [second |-> days.rest, part |-> seconds.rest]]

-----------------------------------------------------------------------------
(* sqli_date_set                                                           *)
SetDate(d) == DateValid(d) /\ date' = d

(* The day after d: of the next days the first one that exists.            *)
DayAfter(d) ==
  LET tomorrow == DateOf(d.year, d.month, d.day + 1)
      first == DateOf(d.year, d.month + 1, 1)
  IN IF DateValid(tomorrow) THEN tomorrow
     ELSE IF DateValid(first) THEN first ELSE DateOf(d.year + 1, 1, 1)

Tomorrow ==
  /\ walked < Walk
  /\ SetDate(DayAfter(date))
  /\ number' = number + 1 /\ walked' = walked + 1
  /\ UNCHANGED time

(* Bound to a DATE column and fetched from it.                             *)
Transfer ==
  /\ date' = DecodeDate(EncodeDate(date)).date
  /\ UNCHANGED <<time, number, walked>>

(* Printed as yyyy-mm-dd and parsed.                                       *)
Reprint ==
  LET range == [first |-> Year, last |-> Day, digits |-> 0]
      v == ValueOf(range, <<date.year, date.month, date.day, 0, 0, 0>>, 0, FALSE)
      read == Parse(Format(v, FALSE), range, FALSE).value
  IN /\ date' = DateOf(read.f[Year], read.f[Month], read.f[Day])
     /\ UNCHANGED <<time, number, walked>>

(* Fetched as a Unix time and bound from it.                               *)
ThroughEpoch ==
  LET back == FromEpoch(ToEpoch(date, time))
  IN /\ date' = back.date /\ time' = back.time
     /\ UNCHANGED <<number, walked>>

Next == Tomorrow \/ Transfer \/ Reprint \/ ThroughEpoch

Spec == Init /\ [][Next]_vars

-----------------------------------------------------------------------------
(* The four calendars of the library agree on the days that exist: they    *)
(* are numbered one after the other, across leap days, centuries and both  *)
(* epochs, whatever texts, columns and Unix times a date has gone through  *)
(* (sqli_date_encode_wire, sqli_date_decode_wire, ymd_to_days,             *)
(* sqli_days_to_ymd_ifx).                                                  *)
CalendarCounts ==
  /\ EncodeDate(date) = [i \in 1 .. 4 |-> (number \div 256 ^ (4 - i)) % 256]
  /\ DaysOfCivil(date) = number - UnixEpoch
  /\ time.second \in {0, DaySeconds - 1} /\ time.part \in {0, SecondParts - 1}
=============================================================================
