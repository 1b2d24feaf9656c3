---------------------------- MODULE DecimalCodec ----------------------------
(***************************************************************************)
(* DECIMAL and MONEY on the wire (sqli_decimal_codec.c): an exponent byte  *)
(* and base-100 groups, both complemented for negative values; all bytes   *)
(* zero is NULL.  A column type is its precision and its scale, 255 when   *)
(* the scale floats.                                                       *)
(***************************************************************************)
EXTENDS Decimal

CONSTANTS
  MaxPrecision,   \* max_precision, 32
  MaxGroups,      \* max_coefficient_groups, 16
  ExponentBias    \* exponent_bias, 64: the exponents are -64 .. 63

FloatingScale == 255
PositiveFlag == 2 * ExponentBias

(* decode_type                                                             *)
TypeValid(t) ==
  /\ t.precision \in 1 .. MaxPrecision
  /\ t.scale = FloatingScale \/ t.scale <= t.precision

(* sqli_decimal_wire_size                                                  *)
WireSize(t) == (t.precision + (t.scale % 2) + 3) \div 2

Zeros(n) == [i \in 1 .. n |-> 0]

(* sqli_base100_radix_complement: the carry enters at the last group.      *)
RadixComplement(groups) ==
  LET n == Len(groups)
      carry[i \in 1 .. n + 1] ==
        IF i = n + 1 THEN 1 ELSE (99 - groups[i] + carry[i + 1]) \div 100
  IN [i \in 1 .. n |-> (99 - groups[i] + carry[i + 1]) % 100]

(* The zeros a nonzero coefficient ends with.                              *)
TrailingZeros(v) ==
  LET digits == DecimalDigits(v)
  IN Min({k \in 0 .. digits - 1 : DecimalDigit(v, digits, digits - 1 - k) # 0})

(* encode_coefficient: digits are paired around the decimal point.         *)
EncodeCoefficient(v, t) ==
  LET digits == DecimalDigits(v)
      zeros == TrailingZeros(v)
      significant == digits - zeros
      reduction == v.scale - t.scale
      integral == digits - v.scale
      exponent == IF integral >= 0 THEN (integral + 1) \div 2 ELSE - ((- integral) \div 2)
      padding == exponent * 2 - integral
      groups == (padding + significant + 1) \div 2
      Digit(position) ==
        IF position - padding \in 0 .. significant - 1
        THEN DecimalDigit(v, digits, position - padding) ELSE 0
      group == [i \in 1 .. groups |-> Digit(2 * i - 2) * 10 + Digit(2 * i - 1)]
      body == group \o Zeros(WireSize(t) - 1 - groups)
      lead == PositiveFlag + exponent + ExponentBias
      Result(status, bytes) == [status |-> status, bytes |-> bytes]
  IN IF t.scale # FloatingScale /\ reduction > zeros THEN Result("inexact", <<>>)
     ELSE IF \/ t.scale = FloatingScale /\ significant > t.precision
             \/ t.scale # FloatingScale /\ digits - reduction > t.precision
             \/ exponent \notin - ExponentBias .. ExponentBias - 1
             \/ groups > MaxGroups \/ groups > WireSize(t) - 1
          THEN Result("range", <<>>)
     ELSE Result("ok", IF v.negative THEN <<2 * PositiveFlag - 1 - lead>> \o RadixComplement(body)
                       ELSE <<lead>> \o body)

(* sqli_decimal_encode_wire                                                *)
EncodeDecimal(v, t) ==
  LET Result(status, bytes) == [status |-> status, bytes |-> bytes]
  IN IF ~ TypeValid(t) THEN Result("protocol", <<>>)
     ELSE IF v.is_null THEN Result("ok", Zeros(WireSize(t)))
     ELSE IF v.limbs = <<>> THEN Result("ok", <<PositiveFlag>> \o Zeros(WireSize(t) - 1))
     ELSE EncodeCoefficient(v, t)

(* decode_coefficient: the groups up to the last nonzero one, a leading    *)
(* and a trailing zero digit dropped, and the zeros a fixed scale asks for *)
(* appended.                                                               *)
DecodeCoefficient(bytes, t) ==
  LET negative == bytes[1] < PositiveFlag
      body == Tail(bytes)
      groups == IF negative THEN RadixComplement(body) ELSE body
      count == Max({0} \cup {i \in 1 .. Len(groups) : groups[i] # 0})
      exponent == (IF negative THEN PositiveFlag - 1 - bytes[1] ELSE bytes[1] % PositiveFlag) - ExponentBias
      drop == IF groups[count] % 10 = 0 THEN 1 ELSE 0
      first == IF groups[1] < 10 THEN 1 ELSE 0
      digits == count * 2 - drop - first
      ownScale == count * 2 - exponent * 2 - drop
      extra == IF t.scale = FloatingScale THEN 0 ELSE t.scale - ownScale
      Digit(i) == IF i % 2 = 0 THEN groups[i \div 2 + 1] \div 10 ELSE groups[i \div 2 + 1] % 10
      coefficient[i \in 0 .. digits + extra] ==
        IF i = 0 THEN 0
        ELSE coefficient[i - 1] * 10 + IF i <= digits THEN Digit(first + i - 1) ELSE 0
  IN IF \E i \in 1 .. Len(body) : body[i] >= 100 THEN Refuse("protocol")
     ELSE IF count = 0
     THEN IF bytes[1] # PositiveFlag THEN Refuse("protocol")
          ELSE SetI64(0, IF t.scale = FloatingScale THEN 0 ELSE t.scale)
     ELSE IF \/ count > MaxGroups \/ groups[1] = 0
             \/ digits > t.precision
             \/ extra < 0 \/ extra > t.precision - digits
          THEN Refuse("protocol")
     ELSE SetParts([limbs |-> LimbsOf(coefficient[digits + extra]),
                    scale |-> IF t.scale = FloatingScale THEN ownScale ELSE t.scale,
                    negative |-> negative, is_null |-> FALSE])

(* sqli_decimal_decode_wire                                                *)
DecodeDecimal(bytes, t) ==
  IF ~ TypeValid(t) \/ Len(bytes) # WireSize(t) THEN Refuse("protocol")
  ELSE IF \A i \in 1 .. Len(bytes) : bytes[i] = 0 THEN Accept(NullDecimal)
  ELSE DecodeCoefficient(bytes, t)
=============================================================================
