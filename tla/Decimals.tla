----------------------------- MODULE Decimals -----------------------------
(***************************************************************************)
(* An application at work on a sqli_decimal object: it assigns it from     *)
(* integers, limbs and texts, copies, prints, rescales and compares it,    *)
(* and sends it through a column of a server and back.  A refused call     *)
(* leaves its destination alone.  Exact.tla says what all this must amount *)
(* to.                                                                     *)
(***************************************************************************)
EXTENDS DecimalCodec

CONSTANTS
  Targets,        \* the scales it asks for
  Coefficients,   \* integers the application assigns
  Comparands,     \* integers it compares with
  Sources,        \* limbs with a sign and a scale, normalised or not
  Texts,          \* texts an application parses
  Columns,        \* descriptors of DECIMAL columns
  Received,       \* byte sequences a server may send for one of them
  Idle            \* no call is being answered

VARIABLES
  value,          \* the sqli_decimal object
  reply           \* the last call and what it returned, until it is read

vars == <<value, reply>>

Init == value = NullDecimal /\ reply = Idle

Answer(call, result) == reply = Idle /\ reply' = <<call, result>>

(* The destination is replaced only by a result that is complete.          *)
Settle(call, result) ==
  /\ Answer(call, result.status)
  /\ value' = IF result.status = "ok" THEN result.value ELSE value

Return == reply # Idle /\ reply' = Idle /\ UNCHANGED value

AssignI64(coefficient, scale) ==
  Settle(<<"assign", coefficient, scale>>, SetI64(coefficient, scale))

AssignParts(parts) == Settle(<<"assign", parts>>, SetParts(parts))

AssignText(text) == Settle(<<"assign", text>>, Parse(text))

SetNull == Settle(<<"clear">>, Accept(NullDecimal))

(* The work goes on with a copy.                                           *)
Copy == Settle(<<"copy">>, SetParts(value))

(* Printed into a buffer of the length asked for, and parsed again.        *)
Reprint ==
  Settle(<<"reprint">>,
         IF value.is_null THEN Accept(NullDecimal)
         ELSE IF TextLength(Format(value)) > FormatLength(value) THEN Refuse("overrun")
         ELSE Parse(Format(value)))

Rescale(scale) == Settle(<<"rescale", scale>>, RescaleExact(value, scale))

Integer ==
  LET result == ToI64(value)
  IN /\ Answer(<<"integer">>, IF result.status = "ok" THEN result.out ELSE result.status)
     /\ UNCHANGED value

Order(coefficient, scale) ==
  /\ Answer(<<"order", coefficient, scale>>,
            IF value.is_null THEN "null" ELSE Compare(value, SetI64(coefficient, scale).value))
  /\ UNCHANGED value

(* Bound to a column of type t and fetched from it.                        *)
Transfer(t) ==
  LET sent == EncodeDecimal(value, t)
  IN Settle(<<"transfer", t>>, IF sent.status # "ok" THEN Refuse(sent.status)
                               ELSE DecodeDecimal(sent.bytes, t))

(* A server may send any bytes.                                            *)
Receive(t, bytes) == Settle(<<"receive", t>>, DecodeDecimal(bytes, t))

(* A number is put into a fresh object only, which bounds the run.         *)
Fresh == value = NullDecimal

Fill ==
  \/ \E coefficient \in Coefficients, scale \in Targets : AssignI64(coefficient, scale)
  \/ \E parts \in Sources : AssignParts(parts)
  \/ \E text \in Texts : AssignText(text)
  \/ \E t \in Columns, bytes \in Received : Receive(t, bytes)

Use ==
  \/ SetNull
  \/ Copy
  \/ Reprint
  \/ \E scale \in Targets : Rescale(scale)
  \/ Integer
  \/ \E coefficient \in Comparands, scale \in Targets : Order(coefficient, scale)
  \/ \E t \in Columns : Transfer(t)

Next == Return \/ (reply = Idle /\ (Use \/ (Fresh /\ Fill)))

Spec == Init /\ [][Next]_vars

-----------------------------------------------------------------------------
(* The number an object stands for.                                        *)
NumberOf(v) ==
  LET sum[i \in 0 .. Len(v.limbs)] ==
        IF i = 0 THEN 0 ELSE sum[i - 1] + v.limbs[i] * LimbBase ^ (i - 1)
  IN IF v.is_null THEN NullDecimal
     ELSE [coefficient |-> IF v.negative THEN - sum[Len(v.limbs)] ELSE sum[Len(v.limbs)],
           scale |-> v.scale]

Numbers == INSTANCE Exact WITH
  number <- NumberOf(value), Null <- NullDecimal

(* Decimals are exact: whatever limbs, bytes and texts a number goes       *)
(* through, it stays the same number or the call says why not              *)
(* (sqli_decimal.c, sqli_decimal_codec.c).                                 *)
DecimalExact == Numbers!Spec
=============================================================================
