----------------------------- MODULE Temporal -----------------------------
(***************************************************************************)
(* DATETIME and INTERVAL values of sqli_temporal.c.  A value has a range   *)
(* of fields, from YEAR (1) to FRACTION (7), the fields YEAR to SECOND, a  *)
(* fraction in nanoseconds and, for intervals, a sign.  Range 0 to 0 is    *)
(* unknown, which only NULL may have.  A text is a sign, its numbers with  *)
(* the digits each was written with, and whether the hour follows a "T".   *)
(***************************************************************************)
EXTENDS Integers, Sequences, FiniteSetsExt

Year == 1
Month == 2
Day == 3
Hour == 4
Second == 6
Fraction == 7
Integral == Year .. Second

NoFields == [i \in Integral |-> 0]
RangeOf(x) == [first |-> x.first, last |-> x.last, digits |-> x.digits]
NoRange == [first |-> 0, last |-> 0, digits |-> 0]

ValueOf(range, f, nano, negative) ==
  [first |-> range.first, last |-> range.last, digits |-> range.digits,
   f |-> f, nano |-> nano, negative |-> negative, is_null |-> FALSE]

NullOf(range) == [ValueOf(range, NoFields, 0, FALSE) EXCEPT !.is_null = TRUE]

Refuse(status) == [status |-> status, value |-> NullOf(NoRange)]
Accept(v) == [status |-> "ok", value |-> v]

LeapYear(year) == year % 4 = 0 /\ (year % 100 # 0 \/ year % 400 = 0)

(* month_days: without a year, February may have 29 days.                  *)
MonthDays(month, year) ==
  IF month = 2 THEN IF year = 0 \/ LeapYear(year) THEN 29 ELSE 28
  ELSE IF month \in {4, 6, 9, 11} THEN 30 ELSE 31

RangeValid(range, interval) ==
  /\ range.first \in Year .. Fraction
  /\ range.last \in range.first .. Fraction
  /\ ~ (interval /\ range.first <= Month /\ range.last > Month)
  /\ IF range.last = Fraction THEN range.digits \in 1 .. 9 ELSE range.digits = 0

Lowest(field, interval) == IF ~ interval /\ field <= Day THEN 1 ELSE 0

Highest(field, interval) ==
  <<9999, IF interval THEN 11 ELSE 12, 31, 23, 59, 59>>[field]

(* validate_fields: the first field that is out of order decides.  The     *)
(* leading field of an interval has no upper limit.                        *)
FieldsStatus(v, interval) ==
  LET inside == v.first .. v.last
      Wrong(i) == IF i \in inside
                  THEN /\ ~ (interval /\ i = v.first)
                       /\ v.f[i] \notin Lowest(i, interval) .. Highest(i, interval)
                  ELSE v.f[i] # 0
      wrong == {i \in Integral : Wrong(i)}
  IN IF wrong # {} THEN IF Min(wrong) \in inside THEN "range" ELSE "argument"
     ELSE IF /\ ~ interval /\ v.f[Month] # 0 /\ v.f[Day] # 0
             /\ v.f[Day] > MonthDays(v.f[Month], v.f[Year])
          THEN "range"
     ELSE IF v.last # Fraction THEN IF v.nano = 0 THEN "ok" ELSE "argument"
     ELSE IF v.nano >= 10 ^ 9 THEN "range"
     ELSE IF v.nano % 10 ^ (9 - v.digits) # 0 THEN "inexact"
     ELSE "ok"

(* sqli_datetime_set_parts, sqli_interval_set_parts: NULL keeps only its   *)
(* range, an interval of zero has no sign.                                 *)
SetParts(v, interval) ==
  LET known == RangeValid(v, interval)
      status == FieldsStatus(v, interval)
      zero == v.f = NoFields /\ v.nano = 0
  IN IF ~ v.is_null /\ ~ interval /\ v.f[Year] < 0 THEN Refuse("range")
     ELSE IF ~ known /\ ~ (v.is_null /\ RangeOf(v) = NoRange) THEN Refuse("argument")
     ELSE IF v.is_null THEN Accept(NullOf(RangeOf(v)))
     ELSE IF status # "ok" THEN Refuse(status)
     ELSE Accept([v EXCEPT !.negative = interval /\ v.negative /\ ~ zero])

-----------------------------------------------------------------------------
(* The digits a field is written with: at least, and in a text at most.    *)
LeastWidth(field, range, interval) ==
  IF field = Fraction THEN range.digits
  ELSE IF interval /\ field = range.first THEN 1
  ELSE IF field = Year /\ ~ interval THEN 4 ELSE 2

MostWidth(field, range, interval) ==
  IF interval /\ field = range.first /\ field # Fraction THEN 20
  ELSE LeastWidth(field, range, interval)

(* parse_fields, with the callers' treatment of its result.                *)
Parse(text, range, interval) ==
  LET count == range.last - range.first + 1
      Field(i) == range.first + i - 1
      Number(field) == IF field \in range.first .. range.last
                       THEN text.numbers[field - range.first + 1].n ELSE 0
      value == ValueOf(range, [i \in Integral |-> Number(i)],
                       Number(Fraction) * 10 ^ (9 - range.digits), text.sign = "-")
      status == FieldsStatus(value, interval)
  IN IF \/ ~ RangeValid(range, interval)
        \/ text.sign # "" /\ ~ interval
        \/ text.iso /\ (interval \/ Hour \notin range.first + 1 .. range.last)
        \/ Len(text.numbers) # count
        \/ \E i \in 1 .. count : text.numbers[i].width \notin
             LeastWidth(Field(i), range, interval) .. MostWidth(Field(i), range, interval)
     THEN Refuse("argument")
     ELSE IF status # "ok" THEN Refuse(status)
     ELSE SetParts(value, interval)

(* sqli_datetime_parse_iso takes the range from the text.                  *)
ParseIso(text) ==
  LET digits == IF Len(text.numbers) > Second THEN text.numbers[Fraction].width ELSE 0
      range == [first |-> Year, last |-> IF digits = 0 THEN Second ELSE Fraction,
                digits |-> digits]
  IN IF ~ text.iso \/ Len(text.numbers) < Second \/ digits > 9 THEN Refuse("argument")
     ELSE Parse(text, range, FALSE)

CompleteTimestamp(v) == v.first = Year /\ v.last >= Second

Width(n) == CHOOSE k \in 1 .. 20 : n < 10 ^ k /\ (k = 1 \/ n >= 10 ^ (k - 1))

(* format_fields                                                           *)
Format(v, interval) ==
  LET Magnitude(i) == IF i = Fraction THEN v.nano \div 10 ^ (9 - v.digits) ELSE v.f[i]
      Written(i) == [n |-> Magnitude(i),
                     width |-> Max({Width(Magnitude(i)), LeastWidth(i, v, interval)})]
  IN [sign |-> IF v.negative THEN "-" ELSE "",
      iso |-> ~ interval /\ CompleteTimestamp(v),
      numbers |-> [i \in 1 .. v.last - v.first + 1 |-> Written(v.first + i - 1)]]
=============================================================================
