-------------------------------- MODULE Rows --------------------------------
(***************************************************************************)
(* A row of a result and what the getters make of it (sqli_result.c,       *)
(* sqli_result_value.c, sqli_scalar.c).  A row arrives as bytes; moving to *)
(* it places every column once, and the getters read from there.           *)
(* sqli_result_stream_bytes looks for its column again, by other rules.    *)
(*                                                                         *)
(* Bytes have Base values instead of 256; types that are treated alike     *)
(* stand for each other: CHAR for NCHAR, VARCHAR for NVCHAR, INT for       *)
(* SERIAL, BIGINT for BIGSERIAL, INT8 for SERIAL8, DECIMAL for MONEY, TEXT *)
(* for BYTE, BLOB for CLOB.  DECIMAL, DATE and DATETIME values stay bytes  *)
(* here: Decimals.tla, Calendar.tla and Temporals.tla decode them.  The    *)
(* contents of TEXT and BLOB columns are read with messages of their own   *)
(* and left out.                                                           *)
(***************************************************************************)
EXTENDS Integers, Sequences, FiniteSetsExt, SequencesExt

CONSTANTS
  Base,           \* the values of a byte, 256
  Space,          \* the byte ' '
  FalseBytes,     \* what a boolean column sends for false,
  TrueBytes,      \* and for true
  NonFinite,      \* the floating-point patterns that are no numbers
  PrefixLimit,    \* lengths below this one may be prefixes of a CHAR, 32
  LobBytes,       \* bytes of the descriptor in a TEXT column, 56
  LobFlag,        \* its byte whose lowest bit marks NULL, 40
  StringMax,      \* what sqli_result_get_string can return, 4095
  Layouts,        \* sequences of columns, [type, length]
  ServerRows,     \* rows of a layout: their bytes and the values in them
  Capacities,     \* sizes of the buffers an application offers
  Null, Idle

VARIABLES
  columns,        \* the layout of the result
  trim,           \* conn->trim_trailing_spaces
  row,            \* what the server means by the current row, or Null
  tuple,          \* the bytes of the current row
  spans,          \* where each column is, or <<>> without a valid row
  reply           \* the last call and its answer, until it is read

vars == <<columns, trim, row, tuple, spans, reply>>

Init ==
  /\ columns \in Layouts
  /\ trim \in BOOLEAN
  /\ row = Null /\ tuple = <<>> /\ spans = <<>>
  /\ reply = Idle

-----------------------------------------------------------------------------
(* Columns by how they are stored.                                         *)
FixedWidth(type) ==
  CASE type = "DBOOLEAN" -> 1
    [] type = "SMALLINT" -> 2
    [] type \in {"INT", "DATE", "SMFLOAT"} -> 4
    [] type \in {"FLOAT", "BIGINT"} -> 8
    [] type = "INT8" -> 10
    [] OTHER -> 0

Headed == {"BOOL", "LVARCHAR", "BLOB"}
Packed == {"DECIMAL", "DATETIME"}
Stringy == {"CHAR", "VARCHAR", "LVARCHAR"}
IntegerTypes == {"SMALLINT", "INT", "BIGINT", "INT8", "BOOL", "DBOOLEAN"}

Nowhere == [start |-> 0, len |-> 0, span |-> 0]
Place(start, len, span) == [start |-> start, len |-> len, span |-> span]

ByteAt(t, at) == t[at + 1]
Bytes(t, place) == SubSeq(t, place.start + 1, place.start + place.len)

(* width bytes as they are.                                                *)
Plain(t, at, width) ==
  IF width \in 1 .. Len(t) - at THEN Place(at, width, width) ELSE Nowhere

(* Mutant: the next column is looked for at the last byte of this one, as  *)
(* if the length byte were not part of it.                                 *)
PrefixedShort(t, at) ==
  IF at < Len(t) /\ ByteAt(t, at) <= Len(t) - at - 1
  THEN Place(at + 1, ByteAt(t, at), ByteAt(t, at)) ELSE Nowhere

(* A length byte and as many bytes.                                        *)
Prefixed(t, at) ==
  IF at < Len(t) /\ ByteAt(t, at) <= Len(t) - at - 1
  THEN Place(at + 1, ByteAt(t, at), 1 + ByteAt(t, at)) ELSE Nowhere

Number(bytes) ==
  LET n[i \in 0 .. Len(bytes)] == IF i = 0 THEN 0 ELSE n[i - 1] * Base + bytes[i]
  IN n[Len(bytes)]

(* A null marker, four bytes of length and the payload, or else two bytes  *)
(* of length.                                                              *)
WithHeader(t, at) ==
  LET room == Len(t) - at
      length == Number(SubSeq(t, at + 2, at + 5))
      short == Number(SubSeq(t, at + 1, at + 2))
  IN IF room >= 5 /\ ByteAt(t, at) # 0 /\ length = 0 THEN Place(at + 5, 0, 5)
     ELSE IF room >= 5 /\ ByteAt(t, at) = 0 /\ length <= room - 5
     THEN Place(at + 5, length, 5 + length)
     ELSE IF room >= 2 /\ short <= room - 2 THEN Place(at + 2, short, 2 + short)
     ELSE Nowhere

LobWidth(column) == IF column.length > 0 THEN column.length ELSE LobBytes

(* sqli_tuple_locate_column                                                *)
LocateColumn(column, t, at) ==
  LET prefix == ByteAt(t, at)
  IN IF at >= Len(t) THEN Nowhere
     ELSE IF column.type = "CHAR" /\ column.length > 0
     THEN IF /\ prefix \in 1 .. PrefixLimit - 1
             /\ 1 + prefix = column.length /\ prefix <= Len(t) - at - 1
          THEN Place(at + 1, prefix, column.length)
          ELSE Plain(t, at, column.length)
     ELSE IF column.type \in Packed THEN Plain(t, at, column.length)
     ELSE IF column.type = "TEXT" THEN Plain(t, at, LobWidth(column))
     ELSE IF column.type \in Headed \cup {"DBOOLEAN"} THEN WithHeader(t, at)
     ELSE IF FixedWidth(column.type) > 0 THEN Plain(t, at, FixedWidth(column.type))
     ELSE Prefixed(t, at)

(* sqli_result_prepare_row_cache, one column.                              *)
PlaceColumn(column, t, at) ==
  LET type == column.type
  IN IF at >= Len(t) THEN Nowhere
     ELSE IF type = "CHAR"
     THEN IF column.length \in 1 .. Len(t) - at THEN Plain(t, at, column.length)
          ELSE IF at + 1 < Len(t) THEN Prefixed(t, at) ELSE Nowhere
     ELSE IF type = "TEXT" THEN Plain(t, at, LobWidth(column))
     ELSE IF type \in Headed THEN LocateColumn(column, t, at)
     ELSE IF FixedWidth(type) > 0 THEN Plain(t, at, FixedWidth(type))
     ELSE IF type \in Packed THEN Plain(t, at, column.length)
     ELSE Prefixed(t, at)

Sentinel(width) == <<Base \div 2>> \o [i \in 1 .. width - 1 |-> 0]

(* Whether the column placed there is NULL.                                *)
ColumnNull(column, t, at, place) ==
  LET type == column.type
      p == Bytes(t, place)
  IN IF place.len = 0
     THEN \/ type \in {"BOOL", "BLOB"}
          \/ type = "LVARCHAR" /\ place.span >= 5 /\ ByteAt(t, at) # 0
     ELSE CASE type = "CHAR" -> p[1] = 0 /\ \A i \in 2 .. Len(p) : p[i] = Space
            [] type \in {"SMALLINT", "INT", "DATE", "BIGINT"} -> p = Sentinel(place.len)
            [] type = "INT8" -> p[1] = 0 /\ p[2] = 0
            [] type \in {"FLOAT", "SMFLOAT"} -> \A i \in DOMAIN p : p[i] = Base - 1
            [] type = "VARCHAR" -> p = <<0>>
            [] type = "TEXT" -> Len(p) >= LobFlag /\ p[LobFlag] % 2 = 1
            [] type \in Packed -> \A i \in DOMAIN p : p[i] = 0
            [] OTHER -> FALSE

(* All columns one after the other, up to the first that does not fit.     *)
PrepareRowCache(t) ==
  LET n == Len(columns)
      At(i, placed) == IF i = 1 THEN 0 ELSE placed[i - 1].at + placed[i - 1].place.span
      placed[i \in 1 .. n] ==
        LET at == At(i, placed)
        IN [at |-> at, place |-> PlaceColumn(columns[i], t, at)]
      Unplaced(i) == placed[i].place.span = 0
  IN IF \E i \in 1 .. n : Unplaced(i) THEN <<>>
     ELSE [i \in 1 .. n |->
             LET p == placed[i].place
             IN [start |-> p.start, len |-> p.len, span |-> p.span, at |-> placed[i].at,
                 null |-> ColumnNull(columns[i], t, placed[i].at, p)]]

-----------------------------------------------------------------------------
Ask == reply = Idle /\ UNCHANGED <<columns, trim, row, tuple, spans>>

Return == reply # Idle /\ reply' = Idle /\ UNCHANGED <<columns, trim, row, tuple, spans>>

(* sqli_result_move_to_index: a row that cannot be placed closes the       *)
(* result.                                                                 *)
MoveTo(sent) ==
  /\ reply = Idle
  /\ row = Null \/ spans # <<>>
  /\ spans' = PrepareRowCache(sent.bytes)
  /\ row' = sent.values
  /\ tuple' = IF spans' = <<>> THEN <<>> ELSE sent.bytes
  /\ reply' = [call |-> "move", status |-> IF spans' = <<>> THEN "protocol" ELSE "ok"]
  /\ UNCHANGED <<columns, trim>>

Valid == spans # <<>>
IsNull(c) == spans[c].null

Got(call, c, status, null, out) ==
  reply' = [call |-> call, c |-> c, status |-> status, null |-> null, out |-> out]

(* A typed getter: no row, the wrong type, NULL, or what was decoded.      *)
(* Numbers of a DECIMAL are Decimals.tla's.                                *)
TypedGet(call, c, types, decoded) ==
  /\ Ask
  /\ columns[c].type # "DECIMAL" \/ call = "bool"
  /\ IF ~ Valid THEN Got(call, c, "state", FALSE, Null)
     ELSE IF columns[c].type \notin types THEN Got(call, c, "type", FALSE, Null)
     ELSE IF IsNull(c) THEN Got(call, c, "ok", TRUE, Null)
     ELSE Got(call, c, decoded.status, FALSE, decoded.out)

Decoded(status, out) == [status |-> status, out |-> out]

DecodeBoolean(type, bytes) ==
  IF Len(bytes) # 1 \/ bytes[1] \notin TrueBytes \cup FalseBytes THEN Decoded("protocol", Null)
  ELSE Decoded("ok", bytes[1] \in TrueBytes)

SignedLimit(width) == Base ^ width \div 2

(* decode_integer: two's complement, or a sign and a magnitude whose words *)
(* are swapped.                                                            *)
DecodeInteger(type, bytes) ==
  LET boolean == DecodeBoolean(type, bytes)
      sign == Number(SubSeq(bytes, 1, 2))
      negative == sign = Base ^ 2 - 1
      magnitude == Number(SubSeq(bytes, 7, 10) \o SubSeq(bytes, 3, 6))
      n == Number(bytes)
      width == IF type = "SMALLINT" THEN 2 ELSE IF type = "BIGINT" THEN 8 ELSE 4
  IN IF type \in {"BOOL", "DBOOLEAN"}
     THEN IF boolean.status = "ok" THEN Decoded("ok", IF boolean.out THEN 1 ELSE 0) ELSE boolean
     ELSE IF type = "INT8"
     THEN IF sign # 1 /\ ~ negative THEN Decoded("protocol", Null)
          ELSE IF magnitude > SignedLimit(8) - (IF negative THEN 0 ELSE 1)
          THEN Decoded("range", Null)
          ELSE Decoded("ok", IF negative THEN - magnitude ELSE magnitude)
     ELSE IF Len(bytes) # width THEN Decoded("protocol", Null)
     ELSE Decoded("ok", IF n >= SignedLimit(width) THEN n - Base ^ width ELSE n)

DecodedAs(Decode(_, _), c) == Decode(columns[c].type, Bytes(tuple, spans[c]))

GetInt64(c) == TypedGet("int64", c, IntegerTypes, DecodedAs(DecodeInteger, c))

GetInt(c) ==
  LET wide == DecodedAs(DecodeInteger, c)
      narrow == IF wide.status = "ok" /\ wide.out \notin - SignedLimit(4) .. SignedLimit(4) - 1
                THEN Decoded("range", Null) ELSE wide
  IN TypedGet("int", c, IntegerTypes, narrow)

GetBool(c) == TypedGet("bool", c, {"BOOL", "DBOOLEAN"}, DecodedAs(DecodeBoolean, c))

(* A pattern of a floating-point column stays the pattern.                 *)
GetDouble(c) ==
  LET bytes == Bytes(tuple, spans[c])
      float == IF columns[c].type \in IntegerTypes THEN DecodedAs(DecodeInteger, c)
               ELSE IF bytes \in NonFinite THEN Decoded("range", Null)
               ELSE Decoded("ok", bytes)
  IN TypedGet("double", c, IntegerTypes \cup {"FLOAT", "SMFLOAT"}, float)

(* copy_result_buffer: all of it or the size that is needed.               *)
CopyOut(call, c, bytes, terminator, capacity) ==
  LET needed == IF IsNull(c) THEN 0 ELSE Len(bytes) + terminator
  IN IF capacity < needed THEN Got(call, c, "small", IsNull(c), needed)
     ELSE Got(call, c, "ok", IsNull(c), IF IsNull(c) THEN Null ELSE bytes)

GetBytes(c, capacity) ==
  /\ Ask
  /\ IF ~ Valid THEN Got("bytes", c, "state", FALSE, Null)
     ELSE CopyOut("bytes", c, Bytes(tuple, spans[c]), 0, capacity)

(* bytes without the spaces it ends with.                                  *)
RightTrim(bytes) ==
  SubSeq(bytes, 1, Max({0} \cup {i \in DOMAIN bytes : bytes[i] # Space}))

Trimmed(bytes) == IF trim THEN RightTrim(bytes) ELSE bytes

(* Values it formats are those of Decimals.tla, Temporals.tla and          *)
(* Calendar.tla.                                                           *)
GetStringLen(c, capacity) ==
  /\ Ask
  /\ columns[c].type \notin Packed \cup {"DATE"}
  /\ IF ~ Valid THEN Got("string_len", c, "state", FALSE, Null)
     ELSE IF columns[c].type \notin Stringy /\ ~ IsNull(c)
     THEN Got("string_len", c, "type", FALSE, Null)
     ELSE CopyOut("string_len", c, Trimmed(Bytes(tuple, spans[c])), 1, capacity)

(* sqli_result_get_string returns "" for NULL and without a row, and tells *)
(* them apart in last_was_null; what it formats itself is left out.        *)
GetString(c) ==
  /\ Ask
  /\ LET bytes == Bytes(tuple, spans[c])
         kept == SubSeq(bytes, 1, Min({Len(bytes), StringMax}))
     IN /\ Valid
        /\ columns[c].type \notin Packed \cup {"TEXT"}
        /\ Got("string", c, "ok", IsNull(c),
               IF IsNull(c) THEN <<>> ELSE IF columns[c].type \in Stringy THEN Trimmed(kept) ELSE kept)

(* sqli_result_stream_bytes, until the application stops it: the chunks    *)
(* are joined again.                                                       *)
Stream(c, chunk, stopped) ==
  /\ Ask
  /\ LET place == LocateColumn(columns[c], tuple, spans[c].at)
         bytes == Bytes(tuple, place)
     IN /\ Valid
        /\ IF IsNull(c) THEN Got("stream", c, "ok", TRUE, Null)
           ELSE IF place.span = 0 THEN Got("stream", c, "protocol", FALSE, Null)
           ELSE IF stopped /\ bytes # <<>>
           THEN Got("stream", c, "stopped", FALSE, SubSeq(bytes, 1, Min({chunk, Len(bytes)})))
           ELSE Got("stream", c, "ok", FALSE, bytes)

Next ==
  \/ Return
  \/ \E sent \in ServerRows[columns] : MoveTo(sent)
  \/ reply = Idle /\ \E c \in DOMAIN columns :
       \/ GetInt64(c) \/ GetInt(c) \/ GetBool(c) \/ GetDouble(c) \/ GetString(c)
       \/ columns[c].type \notin {"TEXT", "BLOB"} /\
            \E capacity \in Capacities :
              \/ GetBytes(c, capacity) \/ GetStringLen(c, capacity)
              \/ \E stopped \in BOOLEAN : capacity > 0 /\ Stream(c, capacity, stopped)

Spec == Init /\ [][Next]_vars

-----------------------------------------------------------------------------
(* A DBOOLEAN, a CHAR whose first byte is its length less one, and a CHAR  *)
(* sent with a length: sqli_result_stream_bytes takes the first bytes of   *)
(* the value for a length or the length for the value, and delivers        *)
(* something else than the other getters or nothing.                       *)
Mistakable(c) ==
  \/ columns[c].type = "DBOOLEAN"
  \/ /\ columns[c].type = "CHAR"
     /\ \/ tuple[spans[c].at + 1] = columns[c].length - 1
        \/ spans[c].start # spans[c].at

(* What a value of the row must read as.                                   *)
Expected(call, c) ==
  LET v == row[c]
  IN CASE call \in {"bytes", "stream"} -> v.bytes
       [] call = "string_len" -> Trimmed(v.bytes)
       [] call = "string" ->
            LET kept == SubSeq(v.bytes, 1, Min({Len(v.bytes), StringMax}))
            IN IF columns[c].type \in Stringy THEN Trimmed(kept) ELSE kept
       [] call = "double" /\ columns[c].type \in {"FLOAT", "SMFLOAT"} -> v.bytes
       [] call \in {"int64", "int", "double"} -> v.n
       [] call = "bool" -> v.n = 1

(* Whatever the bytes of a row are, its columns lie one behind the other   *)
(* within them, the value of each within its column, and what              *)
(* sqli_result_stream_bytes finds there lies within the row too            *)
(* (sqli_result_prepare_row_cache, sqli_tuple_locate_column).              *)
ColumnsPlaced ==
  \A c \in DOMAIN spans :
    /\ spans[c].at \in 0 .. spans[c].start
    /\ spans[c].start + spans[c].len <= spans[c].at + spans[c].span
    /\ IF c < Len(spans) THEN spans[c].at + spans[c].span = spans[c + 1].at
       ELSE spans[c].at + spans[c].span <= Len(tuple)
    /\ LET place == LocateColumn(columns[c], tuple, spans[c].at)
       IN place.start \in 0 .. Len(tuple) /\ place.start + place.len \in place.start .. Len(tuple)

(* A getter either tells the truth about the value the server sent in this *)
(* row and column, or refuses it for a reason the caller can see: NULL is  *)
(* NULL for all of them, no value is NULL, and a short buffer is told the  *)
(* size it needs (copy_result_buffer, decode_integer).                     *)
RowTruthful ==
  /\ reply # Idle /\ reply.call = "move" /\ row \notin {Null, <<>>} => reply.status = "ok"
  /\ reply # Idle /\ reply.call # "move" /\ Valid /\ row # <<>> =>
       LET c == reply.c
           whole == columns[c].type \notin {"TEXT", "BLOB"}
           exact == ~ (reply.call = "stream" /\ Mistakable(c))
       IN /\ reply.status \in {"ok", "small"} => (reply.null <=> row[c] = Null)
          /\ reply.status = "ok" /\ row[c] # Null /\ whole /\ exact =>
               reply.out = Expected(reply.call, c)
          /\ reply.status = "small" =>
               reply.out = Len(Expected(reply.call, c)) + IF reply.call = "string_len" THEN 1 ELSE 0
          /\ reply.status = "stopped" /\ exact => IsPrefix(reply.out, row[c].bytes)
          /\ reply.status = "range" =>
               \/ reply.call = "int" /\ row[c].n \notin - SignedLimit(4) .. SignedLimit(4) - 1
               \/ reply.call = "double" /\ row[c].bytes \in NonFinite
          /\ exact => reply.status # "protocol"
=============================================================================
