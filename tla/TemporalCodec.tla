--------------------------- MODULE TemporalCodec ---------------------------
(***************************************************************************)
(* DATE, DATETIME and INTERVAL on the wire (sqli_temporal_codec.c).  A     *)
(* DATE is four bytes, the days since 31 December 1899.  The others are an *)
(* exponent byte and base-100 groups, complemented for negative values,    *)
(* like a decimal; all bytes zero is NULL.                                 *)
(***************************************************************************)
EXTENDS Temporal

NullDate == [year |-> 0, month |-> 0, day |-> 0, is_null |-> TRUE]
DateOf(year, month, day) == [year |-> year, month |-> month, day |-> day, is_null |-> FALSE]

DateValid(d) ==
  d.is_null \/ /\ d.year \in 1 .. 9999 /\ d.month \in 1 .. 12
               /\ d.day \in 1 .. MonthDays(d.month, d.year)

DaysBeforeYear(year) ==
  (year - 1) * 365 + (year - 1) \div 4 - (year - 1) \div 100 + (year - 1) \div 400

(* The codec has a calendar of its own.                                    *)
DaysInMonth(year, month) ==
  LET leap == year % 4 = 0 /\ (year % 100 # 0 \/ year % 400 = 0)
  IN IF month = 2 /\ leap THEN 29
     ELSE <<31, 28, 31, 30, 31, 30, 31, 31, 30, 31, 30, 31>>[month]

DaysBeforeMonth(month, year) ==
  LET sum[m \in 1 .. 12] == IF m = 1 THEN 0 ELSE sum[m - 1] + DaysInMonth(year, m - 1)
  IN sum[month]

EpochOrdinal == DaysBeforeYear(1900) - 1

(* sqli_date_encode_wire                                                   *)
EncodeDate(d) ==
  LET days == DaysBeforeYear(d.year) + DaysBeforeMonth(d.month, d.year) + d.day - 1 - EpochOrdinal
  IN IF d.is_null THEN <<128, 0, 0, 0>>
     ELSE [i \in 1 .. 4 |-> (days \div 256 ^ (4 - i)) % 256]

(* sqli_date_decode_wire: the year by bisection, then month by month.      *)
DecodeDate(bytes) ==
  LET high == IF bytes[1] >= 128 THEN bytes[1] - 256 ELSE bytes[1]
      ordinal == high * 2 ^ 24 + bytes[2] * 2 ^ 16 + bytes[3] * 2 ^ 8 + bytes[4] + EpochOrdinal
      year[low \in 1 .. 9999, up \in 1 .. 9999] ==
        LET middle == low + (up - low + 1) \div 2
        IN IF low >= up THEN low
           ELSE IF DaysBeforeYear(middle) <= ordinal THEN year[middle, up]
           ELSE year[low, middle - 1]
      y == year[1, 9999]
      rest == ordinal - DaysBeforeYear(y)
      month == Max({m \in 1 .. 12 : DaysBeforeMonth(m, y) <= rest})
  IN IF bytes = <<128, 0, 0, 0>> THEN [status |-> "ok", date |-> NullDate]
     ELSE IF ordinal \notin 0 .. DaysBeforeYear(10000) - 1
     THEN [status |-> "protocol", date |-> NullDate]
     ELSE [status |-> "ok", date |-> DateOf(y, month, rest - DaysBeforeMonth(month, y) + 1)]

-----------------------------------------------------------------------------
(* decode_range: a qualifier is a digit count and two nibbles, even ones   *)
(* for YEAR to SECOND, 12 for a leading fraction, 10 and the digits for a  *)
(* trailing one.                                                           *)
WireSecond == 10
WireFraction == 12
Capacity == 16

WireRange(q, interval) ==
  LET leading == IF q.start = WireFraction THEN 0 ELSE q.digits - (q.end - q.start)
      integralEnd == Min({q.end, WireSecond})
      pairs == IF q.start = WireFraction THEN 0
               ELSE (leading + 1) \div 2 + (integralEnd - q.start) \div 2
      digits == IF q.end > WireSecond THEN q.end - WireSecond ELSE 0
  IN [first |-> q.start \div 2 + Year,
      last |-> IF q.end > WireSecond THEN Fraction ELSE q.end \div 2 + Year,
      digits |-> digits, leading |-> leading, pairs |-> pairs,
      fractionPairs |-> (digits + 1) \div 2,
      width |-> 1 + pairs + (digits + 1) \div 2,
      exponent |-> IF q.start = WireFraction THEN 0
                   ELSE pairs + (WireSecond - integralEnd) \div 2]

QualifierValid(q, interval) ==
  LET r == WireRange(q, interval)
  IN /\ q.start % 2 = 0 /\ q.start <= WireFraction
     /\ q.end <= WireSecond => q.end % 2 = 0 /\ q.end >= q.start
     /\ ~ (interval /\ r.first <= Month /\ r.last > Month)
     /\ IF q.start = WireFraction THEN q.digits = r.digits
        ELSE IF interval THEN r.leading \in 1 .. 9
        ELSE r.leading = IF q.start = 0 THEN 4 ELSE 2
     /\ r.width <= Capacity

Zeros(n) == [i \in 1 .. n |-> 0]

(* sqli_base100_radix_complement: the carry enters at the last group.      *)
RadixComplement(groups) ==
  LET n == Len(groups)
      carry[i \in 1 .. n + 1] ==
        IF i = n + 1 THEN 1 ELSE (99 - groups[i] + carry[i + 1]) \div 100
  IN [i \in 1 .. n |-> (99 - groups[i] + carry[i + 1]) % 100]

(* A number in as many base-100 groups as it gets.                         *)
Groups(n, count) == [i \in 1 .. count |-> (n \div 100 ^ (count - i)) % 100]

FirstGroups(r) == (r.leading + 1) \div 2

(* pack                                                                    *)
Pack(v, r) ==
  LET factor == 10 ^ (9 - r.digits)
      fraction == (v.nano \div factor) * IF r.digits % 2 = 1 THEN 10 ELSE 1
      integral == IF r.leading = 0 THEN <<>>
                  ELSE Groups(v.f[r.first], FirstGroups(r))
                       \o [i \in 1 .. r.pairs - FirstGroups(r) |-> v.f[r.first + i]]
      groups == integral \o Groups(fraction, r.fractionPairs)
      first == Min({i \in 1 .. Len(groups) : groups[i] # 0} \cup {Len(groups) + 1})
      lead == 128 + r.exponent - (first - 1) + 64
      body == SubSeq(groups, first, Len(groups)) \o Zeros(first - 1)
      Result(status, bytes) == [status |-> status, bytes |-> bytes]
  IN IF v.is_null THEN Result("ok", Zeros(r.width))
     ELSE IF r.leading # 0 /\ v.f[r.first] >= 10 ^ r.leading THEN Result("range", <<>>)
     ELSE IF v.nano % factor # 0 THEN Result("inexact", <<>>)
     ELSE IF first > Len(groups) THEN Result("ok", <<128>> \o Zeros(r.width - 1))
     ELSE Result("ok", IF v.negative THEN <<255 - lead>> \o RadixComplement(body)
                       ELSE <<lead>> \o body)

(* sqli_datetime_encode_wire, sqli_interval_encode_wire: the fields must   *)
(* be those of the column, the digits of the fraction need not.            *)
Encode(v, q, interval) ==
  LET r == WireRange(q, interval)
      Result(status) == [status |-> status, bytes |-> <<>>]
  IN IF ~ QualifierValid(q, interval) THEN Result("protocol")
     ELSE IF /\ ~ (v.is_null /\ v.first = 0 /\ v.last = 0)
             /\ ~ (v.first = r.first /\ v.last = r.last)
          THEN Result("argument")
     ELSE Pack(v, r)

(* unpack: the groups are moved to the places of their fields; what falls  *)
(* outside must be zero.                                                   *)
Unpack(bytes, r) ==
  LET count == Len(bytes) - 1
      negative == bytes[1] < 128
      groups == IF negative THEN RadixComplement(Tail(bytes)) ELSE Tail(bytes)
      exponent == (IF negative THEN 127 - bytes[1] ELSE bytes[1] % 128) - 64
      offset == r.exponent - exponent
      aligned == [i \in 1 .. count |-> IF i - offset \in 1 .. count THEN groups[i - offset] ELSE 0]
      total[i \in 0 .. count] == IF i = 0 THEN 0 ELSE total[i - 1] * 100 + aligned[i]
      leading == IF r.leading = 0 THEN 0 ELSE total[FirstGroups(r)]
      tail[i \in r.pairs .. count] ==
        IF i = r.pairs THEN 0 ELSE tail[i - 1] * 100 + aligned[i]
      odd == r.digits % 2 = 1
      fraction == IF odd THEN tail[count] \div 10 ELSE tail[count]
      Field(i) == IF r.leading = 0 \/ i \notin r.first .. r.last THEN 0
                  ELSE IF i = r.first THEN leading ELSE aligned[FirstGroups(r) + i - r.first]
  IN IF \E i \in 1 .. count : Tail(bytes)[i] >= 100 THEN Refuse("protocol")
     ELSE IF groups = Zeros(count)
     THEN IF bytes[1] = 128 THEN Accept(ValueOf(r, NoFields, 0, FALSE)) ELSE Refuse("protocol")
     ELSE IF \/ groups[1] = 0
             \/ \E i \in 1 .. count : groups[i] # 0 /\ i + offset \notin 1 .. count
             \/ odd /\ tail[count] % 10 # 0
             \/ r.leading # 0 /\ leading >= 10 ^ r.leading
          THEN Refuse("protocol")
     ELSE Accept(ValueOf(r, [i \in Integral |-> Field(i)], fraction * 10 ^ (9 - r.digits), negative))

(* sqli_datetime_decode_wire, sqli_interval_decode_wire                    *)
Decode(bytes, q, interval) ==
  LET r == WireRange(q, interval)
      unpacked == Unpack(bytes, r)
      value == SetParts(unpacked.value, interval)
  IN IF ~ QualifierValid(q, interval) \/ Len(bytes) # r.width THEN Refuse("protocol")
     ELSE IF bytes = Zeros(r.width) THEN Accept(NullOf(RangeOf(r)))
     ELSE IF \/ unpacked.status # "ok"
             \/ ~ interval /\ unpacked.value.negative
             \/ value.status # "ok"
          THEN Refuse("protocol")
     ELSE value
=============================================================================
