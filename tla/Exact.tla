------------------------------- MODULE Exact -------------------------------
(***************************************************************************)
(* What the decimals of include/libsqli/sqli_decimal.h promise: a number   *)
(* is NULL or coefficient / 10^scale, nothing is ever rounded, and a call  *)
(* that is refused says why and changes nothing.                           *)
(***************************************************************************)
EXTENDS Integers, Sequences, FiniteSetsExt

CONSTANTS
  Comparands,     \* the integers an application compares with
  Columns,        \* the column types, [precision, scale]
  FloatingScale,  \* the scale that says a column has none
  Coefficients,   \* the integers it assigns
  Sources,        \* limbs with a sign and a scale it assigns
  Texts,          \* texts it assigns: digits, point and exponent
  LimbBase,       \* the base of the limbs
  MaxLimbs,       \* how many of them an object can have
  Targets,        \* the scales an application asks for
  Scales,         \* the scales a number may have
  MaxDigits,      \* the digits a coefficient may have
  I64Max,         \* the largest 64-bit integer
  ExponentBias,   \* exponents of base 100 reach from -ExponentBias up
  Null,           \* the NULL number
  Idle            \* no call is being answered

VARIABLES
  number,         \* NULL or [coefficient, scale]
  reply           \* the last call and what it returned, until it is read

vars == <<number, reply>>

Magnitude(n) == IF n < 0 THEN - n ELSE n
DigitCount(n) == Min({k \in 1 .. 9 : Magnitude(n) < 10 ^ k})
Sign(n) == IF n < 0 THEN -1 ELSE IF n > 0 THEN 1 ELSE 0

(* x is a multiple of 10^(-scale).                                         *)
Fits(x, scale) ==
  \/ x.scale <= scale \/ x.coefficient = 0
  \/ x.scale - scale < DigitCount(x.coefficient) /\ x.coefficient % 10 ^ (x.scale - scale) = 0

(* Its coefficient then.                                                   *)
At(x, scale) ==
  IF x.coefficient = 0 THEN 0
  ELSE IF scale >= x.scale THEN x.coefficient * 10 ^ (scale - x.scale)
  ELSE Sign(x.coefficient) * (Magnitude(x.coefficient) \div 10 ^ (x.scale - scale))

(* How many digits that has: none are lost, some may be zeros.             *)
DigitsAt(x, scale) ==
  IF x.coefficient = 0 THEN 1 ELSE DigitCount(x.coefficient) + scale - x.scale

Become(call, x) == reply = Idle /\ reply' = <<call, "ok">> /\ number' = x
Answer(call, a) == reply = Idle /\ reply' = <<call, a>> /\ UNCHANGED number

Init == number = Null /\ reply = Idle

Return == reply # Idle /\ reply' = Idle /\ UNCHANGED number

(* The digits of a number, most significant first.                         *)
Total(digits, base) ==
  LET sum[i \in 0 .. Len(digits)] == IF i = 0 THEN 0 ELSE sum[i - 1] * base + digits[i]
  IN sum[Len(digits)]

Signed(negative, n) == IF negative THEN - n ELSE n

Put(call, x) ==
  IF DigitCount(x.coefficient) > MaxDigits THEN Answer(call, "limit")
  ELSE IF x.scale \notin Scales THEN Answer(call, "range")
  ELSE Become(call, x)

AssignI64(n, scale) ==
  number = Null /\ Put(<<"assign", n, scale>>, [coefficient |-> n, scale |-> scale])

AssignParts(parts) ==
  LET limbs == [i \in 1 .. Len(parts.limbs) |-> parts.limbs[Len(parts.limbs) + 1 - i]]
      call == <<"assign", parts>>
  IN /\ number = Null
     /\ IF Len(limbs) > MaxLimbs THEN Answer(call, "limit")
        ELSE IF \E i \in DOMAIN limbs : limbs[i] >= LimbBase THEN Answer(call, "argument")
        ELSE Put(call, [coefficient |-> Signed(parts.negative, Total(limbs, LimbBase)),
                        scale |-> parts.scale])

(* Digits, a point among them, and an exponent.                            *)
AssignText(text) ==
  LET call == <<"assign", text>>
  IN /\ number = Null
     /\ IF text.mantissa = <<>> THEN Answer(call, "argument")
        ELSE Put(call, [coefficient |-> Signed(text.negative, Total(text.mantissa, 10)),
                        scale |-> text.fractional - text.exponent])

Copy == Become(<<"copy">>, number)

Clear == Become(<<"clear">>, Null)

(* What is printed reads back as the same number at the same scale.        *)
Reprint == Become(<<"reprint">>, number)

Rescale(scale) ==
  LET x == number
      call == <<"rescale", scale>>
  IN IF x = Null THEN Answer(call, "null")
     ELSE IF ~ Fits(x, scale) THEN Answer(call, "inexact")
     ELSE IF DigitsAt(x, scale) > MaxDigits THEN Answer(call, "limit")
     ELSE Become(call, [coefficient |-> At(x, scale), scale |-> scale])

(* A 64-bit integer, or the reason why the number is none.                 *)
Integer ==
  LET x == number
  IN Answer(<<"integer">>,
            IF x = Null THEN "null"
            ELSE IF ~ Fits(x, 0) THEN "inexact"
            ELSE IF \/ DigitsAt(x, 0) > DigitCount(I64Max)
                    \/ At(x, 0) \notin - I64Max - 1 .. I64Max THEN "range"
            ELSE At(x, 0))

(* Signs first, then the position of the leading digit, then the digits.   *)
Compared(x, y) ==
  LET common == Max({x.scale, y.scale})
      lead == DigitsAt(x, 0) - DigitsAt(y, 0)
  IN IF Sign(x.coefficient) # Sign(y.coefficient) THEN Sign(Sign(x.coefficient) - Sign(y.coefficient))
     ELSE IF x.coefficient = 0 THEN 0
     ELSE IF lead # 0 THEN Sign(lead) * Sign(x.coefficient)
     ELSE Sign(At(x, common) - At(y, common))

Order(coefficient, scale) ==
  Answer(<<"order", coefficient, scale>>,
         IF number = Null THEN "null"
         ELSE Compared(number, [coefficient |-> coefficient, scale |-> scale]))

(* x without trailing zeros.                                               *)
Shortest(x) ==
  LET cut == Max({k \in 0 .. 8 : Fits(x, x.scale - k)})
  IN IF x.coefficient = 0 THEN [coefficient |-> 0, scale |-> 0]
     ELSE [coefficient |-> At(x, x.scale - cut), scale |-> x.scale - cut]

(* There are columns of type t.                                            *)
Valid(t) == t.scale = FloatingScale \/ t.scale <= t.precision

(* A column of type t can hold x.                                          *)
Holds(t, x) ==
  LET scale == IF t.scale = FloatingScale THEN Shortest(x).scale ELSE t.scale
  IN \/ x.coefficient = 0
     \/ /\ DigitsAt(x, scale) <= t.precision
        /\ DigitsAt(x, 0) \in - 2 * ExponentBias - 1 .. 2 * (ExponentBias - 1)

(* Through a column and back: a fixed scale is the column's, a floating    *)
(* one the least that is exact.                                            *)
Transfer(t) ==
  LET x == number
      call == <<"transfer", t>>
  IN IF ~ Valid(t) THEN Answer(call, "protocol")
     ELSE IF x = Null THEN Become(call, Null)
     ELSE IF t.scale # FloatingScale /\ ~ Fits(x, t.scale) THEN Answer(call, "inexact")
     ELSE IF ~ Holds(t, x) THEN Answer(call, "range")
     ELSE Become(call, IF t.scale = FloatingScale THEN Shortest(x)
                          ELSE [coefficient |-> At(x, t.scale), scale |-> t.scale])

(* Bytes from a server are a number the column can hold, or refused.       *)
Receive(t) ==
  LET call == <<"receive", t>>
      x == number'
  IN \/ Valid(t) /\ Become(call, x) /\ (x = Null \/ Holds(t, x))
     \/ Answer(call, "protocol")

Called ==
  \/ Clear \/ Copy \/ Reprint \/ Integer
  \/ \E n \in Coefficients, scale \in Targets : AssignI64(n, scale)
  \/ \E parts \in Sources : AssignParts(parts)
  \/ \E text \in Texts : AssignText(text)
  \/ \E scale \in Targets : Rescale(scale)
  \/ \E coefficient \in Comparands, scale \in Targets : Order(coefficient, scale)
  \/ \E t \in Columns : Transfer(t) \/ Receive(t)

Next == Return \/ (reply = Idle /\ reply' # Idle /\ Called)

Spec == Init /\ [][Next]_vars
=============================================================================
