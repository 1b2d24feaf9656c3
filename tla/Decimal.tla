------------------------------ MODULE Decimal ------------------------------
(***************************************************************************)
(* The exact decimals of sqli_decimal.c: a coefficient in limbs of         *)
(* LimbDigits decimal digits, least significant first, and a scale.  Every *)
(* function returns its status and the value it leaves in the destination  *)
(* ("value" is meaningful when the status is "ok"; a refused call leaves   *)
(* the destination alone).  Where limbs are stored, inline or on the heap, *)
(* is left out, and so is an allocation that fails.                        *)
(***************************************************************************)
EXTENDS Integers, Sequences, FiniteSetsExt

CONSTANTS
  LimbDigits,   \* decimal_limb_digits, 9
  MaxDigits,    \* SQLI_DECIMAL_MAX_DIGITS, one million
  ScaleMax,     \* INT32_MAX; the least scale is -ScaleMax - 1
  PlainExponent, \* -decimal_plain_min_exponent, 6
  I64Max        \* INT64_MAX, not of the form 10^k - 1

LimbBase == 10 ^ LimbDigits

MaxLimbs == (MaxDigits + LimbDigits - 1) \div LimbDigits

Scales == (- ScaleMax - 1) .. ScaleMax

NullDecimal == [limbs |-> <<>>, scale |-> 0, negative |-> FALSE, is_null |-> TRUE]

Refuse(status) == [status |-> status, value |-> NullDecimal]
Accept(v) == [status |-> "ok", value |-> v]

(* The limbs without leading zeros.                                        *)
Trimmed(limbs) ==
  SubSeq(limbs, 1, Max({0} \cup {i \in 1 .. Len(limbs) : limbs[i] # 0}))

(* decimal_trim: a coefficient of zero has no sign.                        *)
DecimalTrim(v) ==
  LET limbs == Trimmed(v.limbs)
  IN [v EXCEPT !.limbs = limbs, !.negative = limbs # <<>> /\ v.negative]

Magnitude(n) == IF n < 0 THEN - n ELSE n

(* The decimal digits of a natural number.                                 *)
Width(n) == CHOOSE k \in 1 .. 20 : n < 10 ^ k /\ (k = 1 \/ n >= 10 ^ (k - 1))

DecimalDigits(v) ==
  IF v.limbs = <<>> THEN 1
  ELSE (Len(v.limbs) - 1) * LimbDigits + Width(v.limbs[Len(v.limbs)])

(* The digit at a position counted from the most significant one; beyond   *)
(* the coefficient there are only zeros.                                   *)
DecimalDigit(v, digits, position) ==
  IF v.limbs = <<>> \/ position >= digits THEN 0
  ELSE LET offset == digits - position - 1
       IN (v.limbs[offset \div LimbDigits + 1] \div 10 ^ (offset % LimbDigits)) % 10

SetParts(parts) ==
  LET value == [limbs |-> Trimmed(parts.limbs), scale |-> parts.scale,
                negative |-> parts.negative /\ Trimmed(parts.limbs) # <<>>, is_null |-> FALSE]
  IN IF parts.is_null THEN Accept(NullDecimal)
     ELSE IF Len(parts.limbs) > MaxLimbs THEN Refuse("limit")
     ELSE IF \E i \in 1 .. Len(parts.limbs) : parts.limbs[i] >= LimbBase THEN Refuse("argument")
     ELSE IF DecimalDigits(value) > MaxDigits THEN Refuse("limit")
     ELSE Accept(value)

(* The limbs of a natural number, as few as it needs.                      *)
LimbsOf(n) ==
  LET count == CHOOSE k \in 0 .. 3 : n < LimbBase ^ k /\ (k = 0 \/ n >= LimbBase ^ (k - 1))
  IN [i \in 1 .. count |-> (n \div LimbBase ^ (i - 1)) % LimbBase]

SetI64(coefficient, scale) ==
  SetParts([limbs |-> LimbsOf(Magnitude(coefficient)),
            scale |-> scale, negative |-> coefficient < 0, is_null |-> FALSE])

(* sqli_decimal_to_i64 builds the integer digit by digit and tests the     *)
(* limit before each of them.                                              *)
ToI64(v) ==
  LET digits == DecimalDigits(v)
      whole == digits - v.scale
      limit == I64Max + IF v.negative THEN 1 ELSE 0
      magnitude[i \in 0 .. whole] ==
        LET digit == DecimalDigit(v, digits, i - 1)
        IN IF i = 0 THEN 0
           ELSE IF magnitude[i - 1] = -1 \/ magnitude[i - 1] > (limit - digit) \div 10 THEN -1
           ELSE magnitude[i - 1] * 10 + digit
      Out(status, n) == [status |-> status, out |-> n]
  IN IF v.is_null THEN Out("null", 0)
     ELSE IF v.limbs = <<>> THEN Out("ok", 0)
     ELSE IF \/ whole <= 0
             \/ v.scale > 0 /\ \E i \in whole .. digits - 1 : DecimalDigit(v, digits, i) # 0
          THEN Out("inexact", 0)
     ELSE IF whole > Width(I64Max) \/ magnitude[whole] = -1 THEN Out("range", 0)
     ELSE Out("ok", IF v.negative THEN - magnitude[whole] ELSE magnitude[whole])

(* sqli_decimal_compare: signs, then the magnitudes of the leading digits, *)
(* then digit by digit.                                                    *)
Compare(left, right) ==
  LET Sign(v) == IF v.limbs = <<>> THEN 0 ELSE IF v.negative THEN -1 ELSE 1
      l == DecimalDigits(left)
      r == DecimalDigits(right)
      differ == {i \in 0 .. Max({l, r}) - 1 :
                   DecimalDigit(left, l, i) # DecimalDigit(right, r, i)}
      less == IF l - left.scale # r - right.scale
              THEN l - left.scale < r - right.scale
              ELSE DecimalDigit(left, l, Min(differ)) < DecimalDigit(right, r, Min(differ))
  IN IF Sign(left) # Sign(right) THEN IF Sign(left) < Sign(right) THEN -1 ELSE 1
     ELSE IF Sign(left) = 0 \/ (l - left.scale = r - right.scale /\ differ = {}) THEN 0
     ELSE IF less # left.negative THEN -1 ELSE 1

-----------------------------------------------------------------------------
(* decimal_multiply_power: shift by whole limbs, multiply the rest through *)
(* with a carry.                                                           *)
MultiplyPower(v, power) ==
  LET count == (DecimalDigits(v) + power + LimbDigits - 1) \div LimbDigits
      shift == power \div LimbDigits
      factor == 10 ^ (power % LimbDigits)
      used == Len(v.limbs)
      carry[i \in 0 .. used] ==
        IF i = 0 THEN 0 ELSE (v.limbs[i] * factor + carry[i - 1]) \div LimbBase
      Limb(i) == IF i \in 1 .. used THEN (v.limbs[i] * factor + carry[i - 1]) % LimbBase
                 ELSE IF i = used + 1 THEN carry[used] ELSE 0
  IN IF power > MaxDigits - DecimalDigits(v) THEN Refuse("limit")
     ELSE Accept([v EXCEPT !.limbs = [i \in 1 .. count |-> Limb(i - shift)]])

(* Mutant: what is dropped is lost.                                        *)
DividePowerLossy(v, power) ==
  LET shift == power \div LimbDigits
      divisor == 10 ^ (power % LimbDigits)
      used == Len(v.limbs)
      Above(i) == IF i = used THEN 0 ELSE v.limbs[i + 1] % divisor
  IN IF power >= DecimalDigits(v) THEN Refuse("inexact")
     ELSE Accept([v EXCEPT !.limbs = [i \in 1 .. used - shift |->
            (Above(i + shift) * LimbBase + v.limbs[i + shift]) \div divisor]])

(* decimal_divide_power: whatever is dropped must be zero.                 *)
DividePower(v, power) ==
  LET shift == power \div LimbDigits
      divisor == 10 ^ (power % LimbDigits)
      used == Len(v.limbs)
      Above(i) == IF i = used THEN 0 ELSE v.limbs[i + 1] % divisor
  IN IF \/ power >= DecimalDigits(v)
        \/ \E i \in 1 .. shift : v.limbs[i] # 0
        \/ v.limbs[shift + 1] % divisor # 0
     THEN Refuse("inexact")
     ELSE Accept([v EXCEPT !.limbs = [i \in 1 .. used - shift |->
            (Above(i + shift) * LimbBase + v.limbs[i + shift]) \div divisor]])

RescaleExact(v, scale) ==
  LET moved == IF scale > v.scale THEN MultiplyPower(v, scale - v.scale)
               ELSE DividePower(v, v.scale - scale)
  IN IF v.is_null THEN Refuse("null")
     ELSE IF v.scale = scale THEN Accept(v)
     ELSE IF v.limbs = <<>> THEN Accept([v EXCEPT !.scale = scale])
     ELSE IF moved.status # "ok" THEN moved
     ELSE Accept(DecimalTrim([moved.value EXCEPT !.scale = scale]))

-----------------------------------------------------------------------------
(* A text is its sign, the digits of its mantissa, how many of them follow *)
(* the point and its exponent.  Characters that are no number never get    *)
(* past the scanner and are left out.                                      *)
Parse(text) ==
  LET n == Len(text.mantissa)
      lead == Min({i \in 1 .. n : text.mantissa[i] # 0} \cup {n + 1})
      significant == n - lead + 1
      count == (significant + LimbDigits - 1) \div LimbDigits
      Digit(offset) == IF offset < significant THEN text.mantissa[n - offset] ELSE 0
      limb[i \in 1 .. count] ==
        LET sum[k \in 0 .. LimbDigits] ==
              IF k = 0 THEN 0
              ELSE sum[k - 1] + Digit((i - 1) * LimbDigits + k - 1) * 10 ^ (k - 1)
        IN sum[LimbDigits]
  IN IF n = 0 THEN Refuse("argument")
     ELSE IF significant > MaxDigits THEN Refuse("limit")
     ELSE IF text.fractional - text.exponent \notin Scales THEN Refuse("range")
     ELSE Accept(DecimalTrim([limbs |-> [i \in 1 .. count |-> limb[i]],
                              scale |-> text.fractional - text.exponent,
                              negative |-> text.negative, is_null |-> FALSE]))

Scientific(v) == v.scale < 0 \/ DecimalDigits(v) - 1 - v.scale < - PlainExponent

(* sqli_decimal_format: d.dddE+x, digits with a point inside, or leading   *)
(* zeros.                                                                  *)
Format(v) ==
  LET digits == DecimalDigits(v)
      shown == [i \in 1 .. digits |-> DecimalDigit(v, digits, i - 1)]
      zeros == [i \in 1 .. (IF v.scale >= digits THEN v.scale - digits + 1 ELSE 0) |-> 0]
  IN IF Scientific(v)
     THEN [negative |-> v.negative, mantissa |-> shown, fractional |-> digits - 1,
           exponent |-> digits - 1 - v.scale, scientific |-> TRUE]
     ELSE [negative |-> v.negative, mantissa |-> zeros \o shown, fractional |-> v.scale,
           exponent |-> 0, scientific |-> FALSE]

TextLength(text) ==
  (IF text.negative THEN 1 ELSE 0) + Len(text.mantissa) + (IF text.fractional > 0 THEN 1 ELSE 0)
  + (IF text.scientific THEN 2 + Width(Magnitude(text.exponent)) ELSE 0)

(* The length the function computes before it writes anything.             *)
FormatLength(v) ==
  LET digits == DecimalDigits(v)
  IN (IF v.negative THEN 1 ELSE 0) +
     (IF Scientific(v)
      THEN digits + (IF digits > 1 THEN 1 ELSE 0) + 2
             + Width(Magnitude(digits - 1 - v.scale))
      ELSE IF v.scale = 0 THEN digits
      ELSE IF v.scale < digits THEN digits + 1
      ELSE 2 + v.scale)
=============================================================================
