------------------------------ MODULE Binding -------------------------------
(***************************************************************************)
(* Parameters of a prepared statement (sqli_prepare.c): what the           *)
(* application binds, the rows it sets aside for a batch, the SQ_BIND      *)
(* request with the large objects streamed behind it, and what a server    *)
(* reads from it.                                                          *)
(*                                                                         *)
(* A message is a sequence of bytes; numbers are written to base Base.     *)
(***************************************************************************)
EXTENDS Integers, Sequences, SequencesExt, FiniteSets

CONSTANTS
  Base,             \* values a byte of a number can have
  DescriptorSize,   \* bytes of the descriptor of a TEXT or BYTE (56)
  LengthAt,         \* where it holds the length of the object (16)
  ChunkMax,         \* bytes of a chunk of it (1024)
  LocatorMax,       \* SQLI_SBLOB_LOCATOR_MAX
  NativeWidth,      \* bytes of the native values bound here
  Statements,       \* [select, described, actual]: how it was prepared
  Scalars, Strings, ByteStrings, Timestamps, Natives, Locators,
  Widened, Unconvertible,   \* characters the database's codeset has as two bytes, or not at all
  MaxCalls, MaxRows

VARIABLES
  statement,   \* kind, types DESCRIBE named, types of the columns, conversion
  params,      \* stmt->params
  batch,       \* stmt->batch_rows
  meant,       \* the values last accepted by a bind call
  meantBatch,  \* the same of the rows in the batch
  sent,        \* requests of the last execution
  calls

vars == <<statement, params, batch, meant, meantBatch, sent, calls>>

(* sqli_bind_type and sqli_type: codes on the wire.                        *)
Code ==
  [INT |-> 2, FLOAT |-> 3, DECIMAL |-> 5, DATE |-> 7, DATETIME |-> 10, BYTE |-> 11, TEXT |-> 12,
   VARCHAR |-> 13, INTERVAL |-> 14, UDTFIXED |-> 44, BIGINT |-> 52, None |-> 0]

Native == {"DECIMAL", "DATETIME", "INTERVAL"}
Legacy == {"TEXT", "BYTE"}

(* A bound parameter: its type, the number or the bytes, the qualifier of  *)
(* a native value (the kind of a large object), and whether it is NULL.    *)
Param(type, n, data, q, null) ==
  [type |-> type, n |-> n, data |-> data, q |-> q, null |-> null]

Unbound == Param("None", 0, <<>>, 0, FALSE)

(* sqli_free_bound_param frees strings and bytes; native bytes stay.       *)
Freed(p) ==
  [p EXCEPT !.data = IF p.type \in Native \cup {"DATE"} THEN @ ELSE <<>>, !.null = FALSE]

Count == Len(statement.actual)

(* sqli_prepare takes the columns of DESCRIBE for those of the parameters. *)
Described(i) ==
  IF i <= Len(statement.described) THEN statement.described[i] ELSE "None"

-----------------------------------------------------------------------------
(* sqli_conn_encode_client_to_db: what cannot be converted is sent as is.  *)
Convertible(s) == \A i \in DOMAIN s : s[i] \notin Unconvertible

Converted(s) ==
  FlattenSeq([i \in DOMAIN s |-> IF s[i] \in Widened THEN <<s[i], s[i]>> ELSE <<s[i]>>])

Encode(s) == IF statement.converting /\ Convertible(s) THEN Converted(s) ELSE s

(* Numbers, big-endian and in two's complement.                            *)
Power(k) == Base ^ k

Digits(n, width) ==
  LET m == IF n < 0 THEN Power(width) + n ELSE n
  IN [i \in 1 .. width |-> (m \div Power(width - i)) % Base]

Number(bytes) == FoldLeft(LAMBDA n, b : n * Base + b, 0, bytes)

Even(bytes) == IF Len(bytes) % 2 = 1 THEN Append(bytes, 0) ELSE bytes

RoundedUp(n) == n + (n % 2)

-----------------------------------------------------------------------------
(* TEXT and BYTE columns get a descriptor unless the value is native.      *)
IsLegacyLob(p, i) == Described(i) \in Legacy /\ p.type \notin Native \cup {"DATE"}

NeedsLobStreaming(p, i) ==
  ~ p.null /\ Described(i) \in Legacy /\ p.type \in {"BYTE", "VARCHAR"}

(* What is streamed for it: only a TEXT is converted.                      *)
LobData(p, i) ==
  IF Described(i) = "TEXT" /\ p.type = "VARCHAR" THEN Encode(p.data) ELSE p.data

AnnouncedUnconverted(p, i) ==
  IF p.type \in {"BYTE", "VARCHAR"} THEN Len(p.data) ELSE 0

(* The length announced for it; a number or a locator has none.            *)
AnnouncedLength(p, i) ==
  IF p.type \in {"BYTE", "VARCHAR"} THEN Len(LobData(p, i)) ELSE 0

EstimateData(p) ==
  CASE p.type \in Native -> 2 + RoundedUp(Len(p.data))
    [] p.type \in {"INT", "DATE"} -> 4
    [] p.type \in {"BIGINT", "FLOAT"} -> 8
    [] p.type = "VARCHAR" -> RoundedUp(2 + 8 * Len(p.data) + 32)
    [] p.type = "BYTE" -> RoundedUp(Len(p.data))
    [] p.type = "UDTFIXED" -> RoundedUp(4 + Len(p.data))
    [] OTHER -> 0

(* Mutant: the value is counted where its descriptor is sent.              *)
EstimateParamInline(p, i) ==
  6 + (IF p.type = "UDTFIXED" THEN 8 ELSE 0) + (IF p.null THEN 0 ELSE EstimateData(p))

EstimateParam(p, i) ==
  6 + (IF p.type = "UDTFIXED" THEN 8 ELSE 0)
    + (IF p.null THEN 0 ELSE IF IsLegacyLob(p, i) THEN DescriptorSize ELSE EstimateData(p))

EstimateBindMsgSize(ps, eot) ==
  LET size[i \in 0 .. Count] == IF i = 0 THEN 8 ELSE size[i - 1] + EstimateParam(ps[i], i)
  IN size[Count] + (IF eot THEN 2 ELSE 0)

TypeName(kind) == IF kind = 1 THEN <<3, 12, 15, 2>> ELSE <<2, 12, 15, 2>>

Trimmed(bytes) ==   \* trailing zeros of a native value but never its first byte
  LET kept == {k \in 1 .. Len(bytes) : k = 1 \/ bytes[k] # 0}
  IN SubSeq(bytes, 1, CHOOSE k \in kept : \A other \in kept : other <= k)

Shortened(bytes) == SubSeq(bytes, 1, IF Len(bytes) < Power(2) THEN Len(bytes) ELSE Power(2) - 1)

Descriptor(length) ==
  [k \in 1 .. DescriptorSize |->
     IF k - LengthAt \in 1 .. 4 THEN Digits(length, 4)[k - LengthAt] ELSE 0]

(* Length or qualifier, and the data behind it.                            *)
Payload(p) ==
  CASE p.type \in Native ->
         LET bytes == Trimmed(p.data) IN Digits(p.q, 2) \o Digits(Len(bytes), 2) \o Even(bytes)
    [] p.type = "INT" -> <<0, 0>> \o Digits(p.n, 4)
    [] p.type \in {"BIGINT", "FLOAT"} -> <<0, 0>> \o Digits(p.n, 8)
    [] p.type = "DATE" -> <<0, 0>> \o p.data
    [] p.type = "VARCHAR" ->
         LET bytes == Shortened(Encode(p.data))
         IN Digits(Len(bytes), 2) \o Digits(Len(bytes), 2) \o Even(bytes)
    [] p.type = "BYTE" -> Digits(Len(p.data), 2) \o Even(p.data)
    [] p.type = "UDTFIXED" -> <<0, 0>> \o Digits(Len(p.data), 4) \o Even(p.data)
    [] OTHER -> <<0, 0>>

BindParam(p, i) ==
  <<0, IF IsLegacyLob(p, i) THEN Code[Described(i)] ELSE Code[p.type]>>
  \o (IF p.type = "UDTFIXED" THEN <<0, 0, 0, 4>> \o TypeName(p.q) ELSE <<>>)
  \o (CASE p.null -> <<Base - 1, Base - 1, 0, 0>>
        [] ~ p.null /\ IsLegacyLob(p, i) ->
             <<0, 0>> \o Digits(DescriptorSize, 2) \o Descriptor(AnnouncedLength(p, i))
        [] OTHER -> <<0, 0>> \o Payload(p))

SqId == <<0, 4, 0, 1>>
Eot == <<0, 12>>
Execute == <<0, 7>>
SqBind == <<0, 5>>
Bbind == <<0, 41>>
Blob == <<0, 39>>

BuildBindMsg(ps, eot) ==
  SqId \o SqBind \o Digits(Count, 2)
  \o FlattenSeq([i \in 1 .. Count |-> BindParam(ps[i], i)])
  \o (IF eot THEN Eot ELSE <<>>)

(* The chunks of one object, and an empty one.                             *)
Chunks(data) ==
  LET n == (Len(data) + ChunkMax - 1) \div ChunkMax
      Chunk(k) == SubSeq(data, (k - 1) * ChunkMax + 1,
                         IF k * ChunkMax < Len(data) THEN k * ChunkMax ELSE Len(data))
  IN FlattenSeq([k \in 1 .. n |-> Blob \o Digits(Len(Chunk(k)), 2) \o Even(Chunk(k))])
     \o Blob \o <<0, 0>>

StreamLobs(ps) ==
  LET lobs == SelectSeq([i \in 1 .. Count |-> i], LAMBDA i : NeedsLobStreaming(ps[i], i))
  IN IF lobs = <<>> THEN <<>>
     ELSE Bbind \o Digits(Len(lobs), 2)
          \o FlattenSeq([k \in DOMAIN lobs |-> Chunks(LobData(ps[lobs[k]], lobs[k]))])

(* A SELECT ends its group behind the parameters and streams nothing.      *)
Request(ps) ==
  CASE Count = 0 /\ statement.select -> <<>>
    [] Count = 0 /\ ~ statement.select -> SqId \o Execute \o Eot
    [] Count > 0 /\ statement.select -> BuildBindMsg(ps, TRUE)
    [] Count > 0 /\ ~ statement.select ->
         BuildBindMsg(ps, FALSE) \o StreamLobs(ps) \o Execute \o Eot

-----------------------------------------------------------------------------
(* The bind calls.  One that is refused for its index, its value or for    *)
(* want of memory changes nothing, with the exception of BindSblob.        *)
SetScalar(p, v) ==
  [Freed(p) EXCEPT !.type = v.type, !.data = <<>>, !.n = IF v.null THEN @ ELSE v.n, !.null = v.null]

SetBytes(p, v) ==   \* set_param_string, set_param_bytes, sqli_bind_null
  [Freed(p) EXCEPT !.type = v.type, !.data = v.data, !.null = v.null]

SetNative(v) == v

SblobKind(i) == IF Described(i) = "CLOB" THEN 1 ELSE 0

SetSblob(p, i, v) ==
  IF v.null THEN [Freed(p) EXCEPT !.type = "UDTFIXED", !.data = <<>>, !.q = SblobKind(i), !.null = TRUE]
  ELSE [Freed(p) EXCEPT !.type = "UDTFIXED", !.data = v.data, !.q = v.q]

Bound(i, p, m) ==
  /\ calls < MaxCalls
  /\ calls' = calls + 1
  /\ params' = [params EXCEPT ![i] = p]
  /\ meant' = [meant EXCEPT ![i] = m]
  /\ UNCHANGED <<statement, batch, meantBatch, sent>>

BindScalar(i) == \E v \in Scalars : Bound(i, SetScalar(params[i], v), v)

BindString(i) == \E v \in Strings : Bound(i, SetBytes(params[i], v), v)

BindBytes(i) ==
  \E v \in ByteStrings :
    /\ v.data # <<>> /\ Len(v.data) < Power(2)
    /\ Bound(i, SetBytes(params[i], v), v)

BindNative(i) == \E v \in Natives : Bound(i, SetNative(v), v)

(* sqli_bind_timestamp replaces fields that are out of range.              *)
FieldRange == <<1 .. 9999, 1 .. 12, 1 .. 31, 0 .. 23, 0 .. 59, 0 .. 59, 0 .. 999999>>
Substitute == <<1970, 1, 1, 0, 0, 0, 0>>

Clamped(t) == [k \in DOMAIN t |-> IF t[k] \in FieldRange[k] THEN t[k] ELSE Substitute[k]]

BindTimestamp(i) ==
  \E t \in Timestamps :
    LET v == Param("VARCHAR", 0, Clamped(t), 0, FALSE) IN Bound(i, SetBytes(params[i], v), v)

(* A locator that is refused has already cost the old value.               *)
Spoilt == Param("Spoilt", 0, <<>>, 0, FALSE)

BindSblob(i) ==
  \E v \in Locators :
    IF v.null \/ Len(v.data) \in 1 .. LocatorMax
    THEN Bound(i, SetSblob(params[i], i, v), [v EXCEPT !.q = IF v.null THEN SblobKind(i) ELSE @])
    ELSE Bound(i, Freed(params[i]), Spoilt)

(* The application executes what it has bound completely.                  *)
Complete == \A i \in 1 .. Count : meant[i] # Unbound

BatchAdd ==
  /\ calls < MaxCalls /\ Complete /\ Len(batch) < MaxRows
  /\ calls' = calls + 1
  /\ batch' = Append(batch, params)
  /\ meantBatch' = Append(meantBatch, meant)
  /\ UNCHANGED <<statement, params, meant, sent>>

BatchClear ==
  /\ calls < MaxCalls /\ batch # <<>>
  /\ calls' = calls + 1
  /\ batch' = <<>> /\ meantBatch' = <<>>
  /\ UNCHANGED <<statement, params, meant, sent>>

Sending(ps, ms) ==
  [bytes |-> Request(ps), meant |-> ms,
   built |-> Len(BuildBindMsg(ps, statement.select)),
   allocated |-> EstimateBindMsgSize(ps, statement.select)]

ExecuteStmt ==
  /\ calls < MaxCalls /\ Complete
  /\ calls' = calls + 1
  /\ sent' = <<Sending(params, meant)>>
  /\ UNCHANGED <<statement, params, batch, meant, meantBatch>>

(* The rows stay in the batch when the connection fails at one of them.    *)
BatchExecute ==
  /\ calls < MaxCalls /\ ~ statement.select /\ batch # <<>>
  /\ calls' = calls + 1
  /\ \E done \in 1 .. Len(batch) :
       /\ sent' = [k \in 1 .. done |-> Sending(batch[k], meantBatch[k])]
       /\ IF done = Len(batch) THEN batch' = <<>> /\ meantBatch' = <<>>
          ELSE UNCHANGED <<batch, meantBatch>>
  /\ UNCHANGED <<statement, params, meant>>

(* sqli_stmt_close and the statement prepared again.                       *)
Unprepared == [i \in 1 .. Count |-> Unbound]

PrepareAgain ==
  /\ params' = Unprepared /\ meant' = Unprepared
  /\ batch' = <<>> /\ meantBatch' = <<>>
  /\ sent' = <<>>
  /\ calls' = 0
  /\ UNCHANGED statement

Init ==
  /\ statement \in Statements
  /\ params = Unprepared
  /\ meant = params
  /\ batch = <<>> /\ meantBatch = <<>>
  /\ sent = <<>>
  /\ calls = 0

Bind(i) ==
  BindScalar(i) \/ BindString(i) \/ BindBytes(i) \/ BindNative(i) \/ BindTimestamp(i) \/ BindSblob(i)

Next ==
  \/ \E i \in 1 .. Count : Bind(i)
  \/ BatchAdd \/ BatchClear \/ ExecuteStmt \/ BatchExecute \/ PrepareAgain

Spec == Init /\ [][Next]_vars

-----------------------------------------------------------------------------
(* The server: it knows its columns and reads one parameter for each.      *)
Span(bytes, at, n) == SubSeq(bytes, at, at + n - 1)
Short(bytes, at) == Number(Span(bytes, at, 2))

Value(code, name, q, null, data) ==
  [code |-> code, name |-> name, q |-> q, null |-> null, data |-> data]

NativeCodes == {Code[t] : t \in Native}

IsLob(i) == statement.actual[i] \in Legacy

IsDescriptor(code, i) == IsLob(i) /\ code \in {Code["TEXT"], Code["BYTE"]}

(* Bytes of the length in front of a value, and of the value itself.       *)
Prefix(code) ==
  CASE code \in {Code["VARCHAR"]} \cup NativeCodes -> 2
    [] code = Code["UDTFIXED"] -> 4
    [] OTHER -> 0

Width(code, bytes, at, length) ==
  CASE Prefix(code) > 0 -> Number(Span(bytes, at, Prefix(code)))
    [] code \in {Code["INT"], Code["DATE"]} -> 4
    [] code \in {Code["BIGINT"], Code["FLOAT"]} -> 8
    [] OTHER -> length

Meaning(code, null, data, i) ==
  CASE code \in NativeCodes /\ ~ null -> data \o [k \in 1 .. NativeWidth - Len(data) |-> 0]
    [] IsDescriptor(code, i) /\ ~ null -> Span(data, LengthAt + 1, 4)
    [] OTHER -> data

ReadData(bytes, start, width, code, name, null, q, i) ==
  [at |-> start + RoundedUp(width),
   value |-> Value(code, name, IF code \in NativeCodes THEN q ELSE 0, null,
                   Meaning(code, null, Span(bytes, start, width), i))]

ReadIndicated(bytes, at, code, name, null, q, i) ==
  IF null THEN ReadData(bytes, at, 0, code, name, null, q, i)
  ELSE ReadData(bytes, at + Prefix(code), Width(code, bytes, at, q), code, name, null, q, i)

ReadBehindName(bytes, at, code, name, i) ==
  ReadIndicated(bytes, at + 4, code, name, Short(bytes, at) # 0, Short(bytes, at + 2), i)

ReadNamed(bytes, at, length, code, i) ==
  ReadBehindName(bytes, at + RoundedUp(length), code, Span(bytes, at, length), i)

ReadParam(bytes, at, i) ==
  IF bytes[at + 1] = Code["UDTFIXED"]
  THEN ReadNamed(bytes, at + 6, Short(bytes, at + 4), bytes[at + 1], i)
  ELSE ReadBehindName(bytes, at + 2, bytes[at + 1], <<>>, i)

ReadParams(bytes) ==
  FoldLeft(LAMBDA read, i :
             LET next == ReadParam(bytes, read.at, i)
             IN [at |-> next.at, values |-> Append(read.values, next.value)],
           [at |-> 9, values |-> <<>>], [i \in 1 .. Count |-> i])

(* The object that starts at a place in the message.                       *)
ReadObject(bytes, at) ==
  LET read[place \in 1 .. Len(bytes)] ==
        LET n == Short(bytes, place + 2)
        IN IF n = 0 THEN [at |-> place + 4, data |-> <<>>]
           ELSE LET rest == read[place + 4 + RoundedUp(n)]
                IN [at |-> rest.at, data |-> Span(bytes, place + 4, n) \o rest.data]
  IN read[at]

Announces(value, i) == IsDescriptor(value.code, i) /\ ~ value.null

ReadObjects(bytes, start) ==
  FoldLeft(LAMBDA read, i :
             IF ~ Announces(read.values[i], i) THEN read
             ELSE LET object == ReadObject(bytes, read.at)
                  IN [at |-> object.at,
                      values |-> [read.values EXCEPT ![i].data = Append(@, object.data)]],
           start, [i \in 1 .. Count |-> i])

Closed(bytes, announced, read) ==
  [rest |-> SubSeq(bytes, read.at, Len(bytes)), announced |-> announced, values |-> read.values]

ReadBehindParams(bytes, read) ==
  IF Span(bytes, read.at, 2) # Bbind THEN Closed(bytes, 0, read)
  ELSE Closed(bytes, Short(bytes, read.at + 2), ReadObjects(bytes, [read EXCEPT !.at = @ + 4]))

ReadRequest(bytes) == ReadBehindParams(bytes, ReadParams(bytes))

-----------------------------------------------------------------------------
(* What a server should see of a value in its column.                      *)
AsSeen(m, i) ==
  LET lob == IsLob(i) /\ m.type \in {"BYTE", "VARCHAR"}
      text == IF m.type = "VARCHAR" /\ statement.converting /\ statement.actual[i] # "BYTE"
              THEN Converted(m.data) ELSE m.data
      code == IF IsLob(i) /\ m.type \notin Native \cup {"DATE"} THEN statement.actual[i] ELSE m.type
  IN Value(Code[code],
           IF m.type = "UDTFIXED" THEN TypeName(m.q) ELSE <<>>,
           IF m.type \in Native /\ ~ m.null THEN m.q ELSE 0,
           m.null,
           CASE m.null -> <<>>
             [] ~ m.null /\ lob -> Digits(Len(text), 4) \o <<text>>
             [] ~ m.null /\ ~ lob ->
                  CASE m.type = "INT" -> Digits(m.n, 4)
                    [] m.type \in {"BIGINT", "FLOAT"} -> Digits(m.n, 8)
                    [] OTHER -> text)

(* Values the code is known to send wrongly: a value spoilt by a refused   *)
(* locator; a number or a locator for a TEXT or BYTE column; a text that   *)
(* is too long or that the database's codeset lacks; a parameter of a      *)
(* SELECT for which DESCRIBE has a TEXT or BYTE, since its columns are     *)
(* those of the result; and objects, which a SELECT does not stream.       *)
Misfit(m, i) ==
  \/ m.type = "Spoilt"
  \/ ~ m.null /\ m.type \in {"INT", "BIGINT", "FLOAT"} /\ IsLob(i)
  \/ m.type = "UDTFIXED" /\ IsLob(i)
  \/ m.type = "VARCHAR"
     /\ ((~ Convertible(m.data) /\ statement.converting) \/ Len(Converted(m.data)) >= Power(2))
  \/ (Described(i) \in Legacy) # IsLob(i)
  \/ statement.select /\ ~ m.null /\ IsLob(i)

(* build_bind_msg never writes more than estimate_bind_msg_size allocated. *)
MessageFits == \A k \in DOMAIN sent : Count > 0 => sent[k].built <= sent[k].allocated

(* The server reads each parameter as it was last bound, or as it was      *)
(* bound when the row was added, every object has the length announced for *)
(* it, and the request ends where it should.                               *)
Understood(read, r, lobs) ==
  /\ read.values = [i \in 1 .. Count |-> AsSeen(r.meant[i], i)]
  /\ read.announced = Cardinality(lobs)
  /\ read.rest = IF statement.select THEN Eot ELSE Execute \o Eot

RequestTruthful(r) ==
  \/ \E i \in 1 .. Count : Misfit(r.meant[i], i)
  \/ Understood(ReadRequest(r.bytes), r,
                {i \in 1 .. Count : IsLob(i) /\ r.meant[i].type \in {"BYTE", "VARCHAR"}
                                    /\ ~ r.meant[i].null})

BindTruthful == \A k \in DOMAIN sent : Count > 0 => RequestTruthful(sent[k])
=============================================================================
