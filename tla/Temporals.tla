----------------------------- MODULE Temporals -----------------------------
(***************************************************************************)
(* An application at work on a DATETIME or INTERVAL object: it assigns it  *)
(* from parts and texts, prints it, and sends it through columns of a      *)
(* server and back.                                                        *)
(***************************************************************************)
EXTENDS TemporalCodec

CONSTANTS
  Given,          \* parts an application sets
  Texts,          \* texts it parses, with the range it expects
  Qualifiers,     \* qualifiers of columns
  Received,       \* bytes a server may send, with the qualifier
  Idle            \* no call is being answered

VARIABLES
  interval,       \* the object is an INTERVAL, otherwise a DATETIME
  moment,         \* the object
  answer          \* the last call and what it returned, until it is read

vars == <<interval, moment, answer>>

Init ==
  /\ interval \in BOOLEAN
  /\ moment = NullOf(NoRange)
  /\ answer = Idle

(* The object is replaced only by a result that is complete.               *)
Settle(call, result) ==
  /\ answer = Idle
  /\ answer' = [call |-> call, status |-> result.status]
  /\ moment' = IF result.status = "ok" THEN result.value ELSE moment
  /\ UNCHANGED interval

Return == answer # Idle /\ answer' = Idle /\ UNCHANGED <<interval, moment>>

Assign(parts) == Settle([name |-> "assign", parts |-> parts], SetParts(parts, interval))

(* A text and its range; an ISO timestamp says its range itself.           *)
AssignText(text, range) ==
  Settle([name |-> "parse"],
         IF range = NoRange THEN IF interval THEN Refuse("argument") ELSE ParseIso(text)
         ELSE Parse(text, range, interval))

(* NULL keeps the range of the value it replaces.                          *)
SetNull == Settle([name |-> "clear"], Accept(NullOf(RangeOf(moment))))

(* Printed and parsed again with its own range, or as an ISO timestamp.    *)
Reprint ==
  LET text == Format(moment, interval)
  IN Settle([name |-> "reprint"],
            IF moment.is_null THEN Accept(moment)
            ELSE IF ~ interval /\ CompleteTimestamp(moment) THEN ParseIso(text)
            ELSE Parse(text, RangeOf(moment), interval))

(* Bound to a column of qualifier q and fetched from it.                   *)
Transfer(q) ==
  LET sent == Encode(moment, q, interval)
  IN Settle([name |-> "transfer", q |-> q],
            IF sent.status # "ok" THEN Refuse(sent.status)
            ELSE Decode(sent.bytes, q, interval))

(* A server may send any bytes.                                            *)
Receive(bytes, q) ==
  Settle([name |-> "receive", q |-> q, bytes |-> bytes], Decode(bytes, q, interval))

(* A value is put into a fresh object only, which bounds the run.          *)
Fresh == moment = NullOf(NoRange)

Fill ==
  \/ \E parts \in Given : Assign(parts)
  \/ \E x \in Texts : AssignText(x.text, x.range)
  \/ \E x \in Received : Receive(x.bytes, x.q)

Next ==
  \/ Return
  \/ answer = Idle /\ Fresh /\ Fill
  \/ SetNull
  \/ Reprint
  \/ answer = Idle /\ \E q \in Qualifiers : Transfer(q)

Spec == Init /\ [][Next]_vars

-----------------------------------------------------------------------------
(* The fields of v fit a column of qualifier q.                            *)
Fits(v, q) ==
  LET r == WireRange(q, interval)
  IN /\ QualifierValid(q, interval)
     /\ v.is_null \/ (v.first = r.first /\ v.last = r.last)
     /\ v.is_null /\ v.first # 0 => v.first = r.first /\ v.last = r.last
     /\ v.nano % 10 ^ (9 - r.digits) = 0
     /\ r.leading # 0 => v.f[r.first] < 10 ^ r.leading

(* No field is lost or changed on the way through texts and columns: what  *)
(* is printed reads back, a column returns the value with its own digits   *)
(* or refuses one it cannot hold, a refused call changes nothing, and the  *)
(* bytes that are accepted from a server are those the value is sent with. *)
TemporalExact ==
  [][answer = Idle /\ answer' # Idle =>
       LET call == answer'.call
           ok == answer'.status = "ok"
       IN /\ ~ ok => moment' = moment
          /\ call.name = "assign" /\ ok /\ ~ call.parts.is_null =>
               /\ moment'.f = call.parts.f /\ moment'.nano = call.parts.nano
               /\ moment'.negative => call.parts.negative
          /\ call.name = "reprint" => ok /\ moment' = moment
          /\ call.name = "transfer" =>
               /\ ok <=> Fits(moment, call.q)
               /\ ok => moment' = [moment EXCEPT !.first = moment'.first, !.last = moment'.last,
                                                 !.digits = moment'.digits]
          /\ call.name = "receive" /\ ok =>
               Encode(moment', call.q, interval) = [status |-> "ok", bytes |-> call.bytes]]_vars
=============================================================================
