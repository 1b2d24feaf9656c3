----------------------------- MODULE Reception ------------------------------
(***************************************************************************)
(* How a reply becomes a result (sqli_dispatch.c): sqli_receive_dispatch   *)
(* reads opcode after opcode through the connection's read buffer, and     *)
(* sqli_fetchblob_materialize reads an object the same way.                *)
(*                                                                         *)
(* The server has sent everything it will send before the client reads;    *)
(* what it means for a group of replies to arrive late is the subject of   *)
(* Session.  A reply may end early.  Numbers are the bytes they are sent   *)
(* as.  The memory of the rows is an arena that moves when it grows.       *)
(***************************************************************************)
EXTENDS Integers, Sequences, SequencesExt, FiniteSets

CONSTANTS
  Base, MaxBytes, HeaderBytes, FieldBytes, NameMax, MaxPrecision, Missing,   \* Describe
  TupleMax,      \* SQLI_MAX_TUPLE_BYTES
  ArenaMin,      \* memory of the first rows
  MessageMax,    \* a server's message with its terminator
  ExtraMax,      \* bytes skipped behind an INSERTDONE
  TurnMax,       \* turns of a loop within a token: more than any reply needs
  BufferSizes,   \* what fits into the read buffer
  Replies        \* [tokens, context, longRowId, remove64k, strict, extended]

VARIABLES
  reply,         \* the reply the server has sent
  capacity,      \* of the read buffer
  wire,          \* its bytes, as far as they arrive
  reader,        \* next byte, end of what is buffered, status
  result,        \* the result without its rows
  arena,         \* memory of the rows: its address, size and contents
  rows,          \* pointers into the arena
  blob           \* object being fetched

vars == <<reply, capacity, wire, reader, result, arena, rows, blob>>

F == INSTANCE Describe

Opcode ==
  [DBOPEN_FLAGS |-> 0, COMMAND |-> 1, PREPARE |-> 2, ID |-> 4, BIND |-> 5, EXECUTE |-> 7,
   DESCRIBE |-> 8, NFETCH |-> 9, CLOSE |-> 10, RELEASE |-> 11, EOT |-> 12, ERR |-> 13,
   TUPLE |-> 14, DONE |-> 15, TUPID |-> 25, BEGIN |-> 35, DBOPEN |-> 36, DBCLOSE |-> 37,
   FETCHBLOB |-> 38, BLOB |-> 39, VERSION |-> 53, COST |-> 55, EXIT |-> 56, INFO |-> 81,
   REASSOC |-> 86, INSERTDONE |-> 94, LODATA |-> 97, FILE |-> 98, XACTSTAT |-> 99,
   RET_TYPE |-> 100, PROTOCOLS |-> 126]

Turns == [i \in 1 .. TurnMax |-> i]

Codes(names) == {Opcode[name] : name \in names}
Likely(code) == code \in Codes(DOMAIN Opcode \ {"TUPID"})

-----------------------------------------------------------------------------
(* A reader: nothing is read any more once it has failed.                  *)
Word(bytes) == F!Number(bytes)
Odd(n) == n % 2

(* The buffer is filled when it is empty, with as much as fits.            *)
Filled(s, last) ==
  IF last <= s.upto THEN s.upto
  ELSE LET fillings == (last - s.upto + capacity - 1) \div capacity
           end == s.upto + fillings * capacity
       IN IF end < Len(wire) THEN end ELSE Len(wire)

(* read_exact                                                              *)
Take(s, n) ==
  IF s.status # "OK" \/ n = 0 THEN s
  ELSE IF s.at + n - 1 > Len(wire)
  THEN [s EXCEPT !.at = Len(wire) + 1, !.upto = Len(wire), !.status = "IO_ERROR"]
  ELSE [s EXCEPT !.at = @ + n, !.upto = Filled(s, s.at + n - 1)]

Taken(s, n) == SubSeq(wire, s.at, IF s.at + n - 1 < Len(wire) THEN s.at + n - 1 ELSE Len(wire))

(* sqli_tcp_peek sees what is behind the buffer; sqli_peek_bytes the rest  *)
(* of the buffer, even if that is less than was asked for.                 *)
SocketPeek(s, n) == Taken([s EXCEPT !.at = s.upto + 1], n)

Peek(s, n) ==
  IF s.at > s.upto THEN SocketPeek(s, n)
  ELSE SubSeq(wire, s.at, IF s.at + n - 1 < s.upto THEN s.at + n - 1 ELSE s.upto)

Sees(bytes, name) == bytes = <<0, Opcode[name]>>

(* drain_sq_info: items up to an empty one.                                *)
SkipItem(s) ==
  LET type == Take(s, 2)
      head == Take(type, 2)
      length == Word(Taken(type, 2))
  IN IF s.status # "OK" \/ s.ended THEN s
     ELSE IF type.status # "OK" \/ Word(Taken(s, 2)) = 0 THEN [type EXCEPT !.ended = TRUE]
     ELSE Take(head, length + Odd(length))

SkipInfo(s) == [FoldLeft(LAMBDA r, i : SkipItem(r), s, Turns) EXCEPT !.ended = FALSE]

(* read_str: a text that is too long is cut.                               *)
ReadStr(s) ==
  LET body == Take(s, 2)
      length == Word(Taken(s, 2))
      kept == IF length < MessageMax THEN length ELSE MessageMax - 1
  IN [reader |-> Take(body, length + Odd(length)),
      text |-> IF body.status = "OK" THEN Taken(body, kept) ELSE <<>>]

-----------------------------------------------------------------------------
Opened == Take(reader, 2)
Next2 == Word(Taken(reader, 2))
Running == reader.status = "OK" /\ ~ result.eof /\ reply.context # "blob"
On(name) == Running /\ Opened.status = "OK" /\ Next2 = Opcode[name]

Keep == UNCHANGED <<reply, capacity, wire>>
KeepRows == UNCHANGED <<arena, rows>>

(* Tokens the dispatcher reads over.                                       *)
Fixed == [PREPARE |-> 0, CLOSE |-> 0, RELEASE |-> 0, DBCLOSE |-> 0, REASSOC |-> 0,
          DBOPEN_FLAGS |-> 2, TUPID |-> 4, XACTSTAT |-> 6, COST |-> 8]

ReadOver ==
  /\ \E name \in DOMAIN Fixed : On(name) /\ reader' = Take(Opened, Fixed[name])
  /\ UNCHANGED <<result, blob>> /\ Keep /\ KeepRows

ReceiveInfo ==
  /\ On("INFO") /\ reader' = SkipInfo(Opened)
  /\ UNCHANGED <<result, blob>> /\ Keep /\ KeepRows

(* receive_command asks the socket whether a payload follows, not the      *)
(* buffer.                                                                 *)
ReceiveCommand ==
  /\ On("COMMAND")
  /\ LET peek == SocketPeek(Opened, 2)
     IN reader' = IF Len(peek) = 2 /\ Likely(Word(peek)) THEN Opened ELSE Take(Opened, 4)
  /\ UNCHANGED <<result, blob>> /\ Keep /\ KeepRows

(* The echo of a name, two bytes more, and an EOT; only the skipping of    *)
(* the name may fail unnoticed.                                            *)
ReceiveDbopen ==
  /\ On("DBOPEN")
  /\ LET body == Take(Opened, 2)
     IN reader' = Take(Take(body, Word(Taken(Opened, 2)) + 2), 2)
  /\ UNCHANGED <<result, blob>> /\ Keep /\ KeepRows

Described(frame) ==
  /\ reader' = [Take(Opened, frame.at - Opened.at) EXCEPT !.status = frame.status]
  /\ result' = IF frame.status # "OK" THEN result
               ELSE [result EXCEPT !.columns = F!LegacyColumns(frame.descriptor),
                                   !.statement_type = frame.descriptor.header.statement_type,
                                   !.stmt_id = frame.descriptor.header.statement_id]

ReceiveDescribe ==
  /\ On("DESCRIBE") /\ Described(F!ReadFrame(wire, Opened.at, reply.extended))
  /\ UNCHANGED blob /\ Keep /\ KeepRows

-----------------------------------------------------------------------------
(* grow_capacity_doubling                                                  *)
Doubled(current, needed) ==
  current * 2 ^ (CHOOSE k \in 0 .. needed :
                   /\ current * 2 ^ k >= needed
                   /\ \A j \in 0 .. k - 1 : current * 2 ^ j < needed)

(* Mutant: the rows keep pointing to where the arena was.                  *)
RebasedNever(address) == rows

(* The rows follow the arena to its new address.                           *)
Rebased(address) == [i \in DOMAIN rows |-> [rows[i] EXCEPT !.address = address]]

(* The arena grows before the row is read; realloc may move it.            *)
ReceiveTuple ==
  LET head == Take(Opened, 6)
      size == Word(Taken(Take(Opened, 2), 4))
      data == Take(head, size)
      read == Take(data, Odd(size))
      length == Len(arena.bytes)
      grows == arena.size < length + size \/ arena.size = 0
      base == IF arena.size > 0 THEN arena.size ELSE ArenaMin
  IN /\ On("TUPLE")
     /\ \/ /\ head.status # "OK" \/ size > TupleMax
           /\ reader' = IF head.status # "OK" THEN head ELSE [head EXCEPT !.status = "PROTO_ERROR"]
           /\ KeepRows
        \/ /\ head.status = "OK" /\ size <= TupleMax /\ grows
           /\ reader' = [head EXCEPT !.status = "ALLOC_FAIL"] /\ KeepRows
        \/ /\ head.status = "OK" /\ size <= TupleMax
           /\ reader' = read
           /\ \E address \in IF grows THEN {arena.address, 1 - arena.address} ELSE {arena.address} :
                LET moved == IF grows THEN Rebased(address) ELSE rows
                IN /\ arena' = [address |-> address,
                                size |-> IF grows THEN Doubled(base, length + size) ELSE arena.size,
                                bytes |-> IF data.status = "OK" THEN arena.bytes \o Taken(head, size)
                                          ELSE arena.bytes]
                   /\ rows' = IF read.status # "OK" THEN moved
                              ELSE Append(moved, [address |-> address, from |-> length + 1,
                                                  length |-> size])
     /\ UNCHANGED <<result, blob>> /\ Keep

(* What the application finds where a row points to.                       *)
RowAt(p) ==
  IF p.address = arena.address THEN SubSeq(arena.bytes, p.from, p.from + p.length - 1) ELSE <<Missing>>

-----------------------------------------------------------------------------
Negative(bytes) == bytes[1] >= Base \div 2
Zero(bytes) == \A i \in DOMAIN bytes : bytes[i] = 0

RowWidth == IF reply.longRowId THEN 8 ELSE 4

(* errd[2..3] are there if no opcode comes next, or eight bytes on.        *)
SkipErrd(s) ==
  LET next == Peek(s, 2)
      after == Peek(s, 8)
  IN IF Len(next) < 2 THEN s
     ELSE IF ~ Likely(Word(next)) THEN Take(s, 8)
     ELSE IF Word(next) = 0 /\ Len(after) = 8 /\ Likely(Word(SubSeq(after, 7, 8))) THEN Take(s, 8)
     ELSE s

(* What trails a DONE and is there already is taken along; a failure is    *)
(* not reported.                                                           *)
SkipTrailing(s) ==
  LET next == Peek(s, 2)
  IN IF s.status # "OK" THEN s
     ELSE IF Sees(next, "COST") THEN Take(s, 10)
     ELSE IF Sees(next, "INFO") THEN SkipInfo(Take(s, 2))
     ELSE IF Sees(next, "DBOPEN_FLAGS") THEN Take(s, 4)
     ELSE IF Sees(next, "EOT") THEN Take(s, 2)
     ELSE s

Trailing(s) == [FoldLeft(LAMBDA r, i : SkipTrailing(r), s, Turns) EXCEPT !.status = "OK"]

ReceiveDone ==
  LET counts == Take(Opened, 2)
      tail == Take(Take(counts, RowWidth), RowWidth)
      last == Take(tail, 4)
      affected == Taken(counts, RowWidth)
      serial == Taken(tail, 4)
      generated == ~ Zero(serial) /\ ~ Zero(affected) /\ ~ Negative(affected)
      body == SkipErrd(last)
      counted == [result EXCEPT !.affected = affected,
                                !.serial = IF last.status = "OK" /\ generated THEN serial ELSE @]
  IN /\ On("DONE")
     /\ IF tail.status # "OK" THEN reader' = tail /\ UNCHANGED result
        ELSE IF last.status # "OK" \/ body.status # "OK"
        THEN reader' = body /\ result' = counted
        ELSE /\ reader' = Trailing(body)
             /\ result' = [counted EXCEPT !.eof = TRUE, !.saw_done = TRUE]
     /\ UNCHANGED blob /\ Keep /\ KeepRows

(* sqli_decode_ifx_int8: a sign, and the low word before the high one.     *)
DecodeInt8(bytes) ==
  LET high == SubSeq(bytes, 7, 10)
      low == SubSeq(bytes, 3, 6)
  IN [negative |-> Negative(bytes),
      magnitude |-> IF Negative(high) THEN "limit" ELSE high \o low]

SkipExtra(s) ==
  LET next == Peek(s, 2)
  IN IF s.status # "OK" \/ Len(next) < 2
        \/ Word(next) \in Codes({"DONE", "EOT", "ERR", "TUPLE", "INSERTDONE", "XACTSTAT", "EXIT",
                                "COST", "INFO"})
     THEN s ELSE Take(s, 2)

ReceiveInsertdone ==
  LET body == Take(Opened, 10)
      bytes == Taken(Opened, 10)
  IN /\ On("INSERTDONE")
     /\ reader' = FoldLeft(LAMBDA r, i : SkipExtra(r), body, [i \in 1 .. ExtraMax \div 2 |-> i])
     /\ result' = IF body.status = "OK" /\ ~ Zero(SubSeq(bytes, 1, 2))
                  THEN [result EXCEPT !.serial8 = DecodeInt8(bytes)] ELSE result
     /\ UNCHANGED blob /\ Keep /\ KeepRows

(* sqli_receive_error: what follows the two codes depends on the first;    *)
(* failures behind them go unnoticed.                                      *)
Code(n) == F!Digits(IF n < 0 THEN n + Base * Base ELSE n, 2)
NoMessage == {Code(-368)}
WithSqlstate == {Code(0), Code(-937), Code(100)}

Offset(code) ==
  LET wide == IF reply.remove64k THEN 2 ELSE 0
  IN IF code = Code(-619) THEN 4 + wide ELSE IF code \in WithSqlstate THEN 5 ELSE 2 + wide

EotBehind(s) ==
  LET peek == IF s.upto - s.at >= 1 THEN Peek(s, 2) ELSE SocketPeek(s, 2)
  IN IF Sees(peek, "EOT") THEN Take([s EXCEPT !.status = "OK"], 2) ELSE s

ReadError(s) ==
  LET body == Take(s, 4)
      code == Taken(s, 2)
      rest == IF code \in NoMessage THEN [reader |-> body, text |-> <<>>]
              ELSE ReadStr(Take(body, Offset(code)))
  IN IF body.status # "OK" THEN [reader |-> body, code |-> Missing, message |-> <<>>]
     ELSE [reader |-> [EotBehind(rest.reader) EXCEPT !.status = "PROTO_ERROR"],
           code |-> code, message |-> rest.text]

ReceiveErr ==
  LET read == ReadError(Opened)
  IN /\ On("ERR")
     /\ reader' = read.reader
     /\ result' = IF read.code = Missing THEN result
                  ELSE [result EXCEPT !.error = read.code, !.message = read.message,
                                      !.eof = TRUE, !.saw_error = TRUE]
     /\ UNCHANGED blob /\ Keep /\ KeepRows

(* An EOT with nothing behind it ends the group, unless the phase still    *)
(* needs its first answer.                                                 *)
MayEnd ==
  CASE reply.context = "prepare" ->
         result.statement_type # 0 \/ result.stmt_id # 0 \/ result.columns # <<>>
    [] reply.context = "fetch" -> result.saw_done \/ rows # <<>>
    [] OTHER -> TRUE

ReceiveEot ==
  /\ On("EOT")
  /\ reader' = Opened
  /\ result' = [result EXCEPT !.eof = Peek(Opened, 1) = <<>> /\ MayEnd]
  /\ UNCHANGED blob /\ Keep /\ KeepRows

ReceiveExit ==
  /\ On("EXIT")
  /\ reader' = [Opened EXCEPT !.status = "IO_ERROR"]
  /\ result' = [result EXCEPT !.eof = TRUE]
  /\ UNCHANGED blob /\ Keep /\ KeepRows

(* Only the opcode of an unknown token is read; strictly it is an error.   *)
Handled ==
  DOMAIN Fixed \cup {"INFO", "COMMAND", "DBOPEN", "DESCRIBE", "TUPLE", "DONE", "INSERTDONE",
                     "ERR", "EOT", "EXIT"}

ReceiveUnknown ==
  /\ Running /\ Opened.status = "OK" /\ Next2 \notin Codes(Handled)
  /\ reader' = [Opened EXCEPT !.status = IF reply.strict THEN "PROTO_ERROR" ELSE @]
  /\ result' = [result EXCEPT !.eof = reply.strict]
  /\ UNCHANGED blob /\ Keep /\ KeepRows

ReceiveNothing ==
  /\ Running /\ Opened.status # "OK"
  /\ reader' = Opened
  /\ UNCHANGED <<result, blob>> /\ Keep /\ KeepRows
-----------------------------------------------------------------------------
(* sqli_fetchblob_materialize: chunks up to an EOT; what was read before a *)
(* failure is given up.                                                    *)
BlobOn(name) ==
  blob.fetching /\ reader.status = "OK" /\ Opened.status = "OK" /\ Next2 = Opcode[name]

BlobReads(s, bytes) ==
  /\ reader' = s
  /\ blob' = [fetching |-> s.status = "OK", bytes |-> IF s.status = "OK" THEN bytes ELSE <<>>]
  /\ UNCHANGED result /\ Keep /\ KeepRows

(* read_padded_chunk, behind its length                                    *)
Chunk(s) ==
  LET body == Take(s, 2)
      length == Word(Taken(s, 2))
  IN [reader |-> Take(body, length + Odd(length)), length |-> length, bytes |-> Taken(body, length)]

BlobSkip ==
  \/ BlobOn("COST") /\ BlobReads(Take(Opened, 8), blob.bytes)
  \/ BlobOn("INFO") /\ BlobReads(SkipInfo(Opened), blob.bytes)
  \/ BlobOn("DONE") /\ BlobReads(Take(Opened, 22), blob.bytes)

BlobChunk ==
  /\ BlobOn("BLOB")
  /\ BlobReads(Chunk(Opened).reader, blob.bytes \o Chunk(Opened).bytes)

NextChunk(l) ==
  LET chunk == Chunk(l.reader)
  IN IF l.reader.status # "OK" \/ l.remaining = 0 THEN l
     ELSE IF Take(l.reader, 2).status = "OK" /\ chunk.length > l.remaining
     THEN [l EXCEPT !.reader.status = "PROTO_ERROR"]
     ELSE [reader |-> chunk.reader, remaining |-> l.remaining - chunk.length,
           bytes |-> l.bytes \o chunk.bytes]

(* An object announced with its size comes in chunks that fill it exactly. *)
BlobLodata ==
  LET head == Take(Opened, 6)
      size == Taken(Take(Opened, 2), 4)
      loaded == FoldLeft(LAMBDA l, i : NextChunk(l),
                         [reader |-> head, remaining |-> Word(size), bytes |-> blob.bytes], Turns)
  IN /\ BlobOn("LODATA")
     /\ IF head.status = "OK" /\ Negative(size)
        THEN BlobReads([head EXCEPT !.status = "PROTO_ERROR"], <<>>)
        ELSE BlobReads(loaded.reader, loaded.bytes)

BlobEnd ==
  /\ BlobOn("EOT")
  /\ reader' = Opened /\ blob' = [blob EXCEPT !.fetching = FALSE]
  /\ UNCHANGED result /\ Keep /\ KeepRows

BlobErr == BlobOn("ERR") /\ BlobReads(ReadError(Opened).reader, <<>>)

BlobOther ==
  /\ blob.fetching /\ reader.status = "OK"
  /\ \/ Opened.status # "OK" /\ BlobReads(Opened, <<>>)
     \/ /\ Opened.status = "OK"
        /\ Next2 \notin Codes({"COST", "INFO", "DONE", "BLOB", "LODATA", "EOT", "ERR"})
        /\ BlobReads([Opened EXCEPT !.status = "PROTO_ERROR"], <<>>)

-----------------------------------------------------------------------------
(* The server's side: what it writes for a token, and what it means by it. *)
Wide(bytes) ==
  IF ~ reply.longRowId THEN bytes
  ELSE [i \in 1 .. 4 |-> IF Negative(bytes) THEN Base - 1 ELSE 0] \o bytes

Body(t) ==
  CASE t.op = "TUPLE" -> F!Digits(0, 2) \o F!Digits(Len(t.data), 4) \o F!Padded(t.data)
    [] t.op = "DONE" ->
         F!Digits(0, 2) \o Wide(t.affected) \o Wide(F!Digits(9, 4)) \o t.serial \o t.errd
    [] t.op = "INSERTDONE" -> t.sign \o t.low \o t.high \o t.extra
    [] t.op = "ERR" ->
         Code(t.code) \o Code(-1)
         \o IF Code(t.code) \in NoMessage THEN <<>>
            ELSE [i \in 1 .. Offset(Code(t.code)) |-> 12]
                 \o F!Digits(Len(t.message), 2) \o F!Padded(t.message)
    [] t.op = "DESCRIBE" -> F!WriteFrame(t.descriptor, F!NameTable(t.descriptor.fields, <<>>))
    [] t.op = "BLOB" -> F!Digits(Len(t.data), 2) \o F!Padded(t.data)
    [] OTHER -> t.bytes

CodeOf(op) == IF op \in DOMAIN Opcode THEN Opcode[op] ELSE 3

Write(tokens) ==
  FlattenSeq([i \in DOMAIN tokens |-> F!Digits(CodeOf(tokens[i].op), 2) \o Body(tokens[i])])

NothingMeant ==
  [rows |-> <<>>, affected |-> Missing, serial |-> Missing, serial8 |-> Missing, error |-> Missing,
   message |-> <<>>, columns |-> <<>>, blob |-> <<>>]

Cut(text) == SubSeq(text, 1, IF Len(text) < MessageMax THEN Len(text) ELSE MessageMax - 1)

MeantBy(m, t) ==
  CASE t.op = "TUPLE" -> [m EXCEPT !.rows = Append(@, t.data)]
    [] t.op = "DONE" /\ reply.context # "blob" ->
         [m EXCEPT !.affected = Wide(t.affected),
                   !.serial = IF Zero(t.serial) \/ Zero(t.affected) \/ Negative(t.affected) THEN @
                              ELSE t.serial]
    [] t.op = "INSERTDONE" ->
         [m EXCEPT !.serial8 = IF Zero(t.sign) THEN @
                               ELSE [negative |-> Negative(t.sign),
                                     magnitude |-> IF Negative(t.high) THEN "limit" ELSE t.high \o t.low]]
    [] t.op = "ERR" ->
         IF reply.context = "blob" THEN [m EXCEPT !.blob = <<>>]
         ELSE [m EXCEPT !.error = Code(t.code),
                        !.message = IF Code(t.code) \in NoMessage THEN <<>> ELSE Cut(t.message)]
    [] t.op = "DESCRIBE" -> [m EXCEPT !.columns = F!LegacyColumns(t.descriptor)]
    [] t.op \in {"BLOB", "LODATA"} -> [m EXCEPT !.blob = @ \o t.data]
    [] OTHER -> m

Meaning(tokens) == FoldLeft(MeantBy, NothingMeant, tokens)

(* What a client that understands it does not take.                        *)
Refused(t) ==
  (t.op = "TUPLE" /\ Len(t.data) > TupleMax) \/ (t.op = "UNKNOWN" /\ reply.strict) \/ t.op = "FILE"

Outcome(tokens) ==
  IF \E i \in DOMAIN tokens : tokens[i].op = "ERR" \/ Refused(tokens[i]) THEN "PROTO_ERROR"
  ELSE IF \E i \in DOMAIN tokens : tokens[i].op = "EXIT" THEN "IO_ERROR" ELSE "OK"

-----------------------------------------------------------------------------
(* A new result, and a connection without anything buffered.              *)
Waiting(r, size) ==
  /\ reply = r /\ capacity = size
  /\ reader = [at |-> 1, upto |-> 0, status |-> "OK", ended |-> FALSE]
  /\ result = [eof |-> FALSE, saw_done |-> FALSE, saw_error |-> FALSE, affected |-> Missing,
               serial |-> Missing, serial8 |-> Missing, error |-> Missing, message |-> <<>>,
               columns |-> <<>>, statement_type |-> 0, stmt_id |-> 0]
  /\ arena = [address |-> 0, size |-> 0, bytes |-> <<>>] /\ rows = <<>>
  /\ blob = [fetching |-> r.context = "blob", bytes |-> <<>>]

(* Whole replies arrive in pieces of every size, parts of them in one.     *)
Init ==
  \E r \in Replies, size \in BufferSizes :
    /\ Waiting(r, size)
    /\ LET sent == Write(reply.tokens)
       IN \/ wire = sent
          \/ /\ \A other \in BufferSizes : other <= size
             /\ \E n \in 0 .. Len(sent) - 1 : wire = SubSeq(sent, 1, n)

Ended ==
  reader.status # "OK" \/ result.eof \/ (reply.context = "blob" /\ ~ blob.fetching)

Answered == Ended /\ UNCHANGED vars

Next ==
  \/ ReadOver \/ ReceiveInfo \/ ReceiveCommand \/ ReceiveDbopen \/ ReceiveDescribe
  \/ ReceiveTuple \/ ReceiveDone \/ ReceiveInsertdone \/ ReceiveErr \/ ReceiveEot
  \/ ReceiveExit \/ ReceiveUnknown \/ ReceiveNothing
  \/ BlobSkip \/ BlobChunk \/ BlobLodata \/ BlobEnd \/ BlobErr \/ BlobOther
  \/ Answered

Spec == Init /\ [][Next]_vars

-----------------------------------------------------------------------------
Told ==
  [rows |-> [i \in DOMAIN rows |-> RowAt(rows[i])], affected |-> result.affected,
   serial |-> result.serial, serial8 |-> result.serial8, error |-> result.error,
   message |-> result.message, columns |-> result.columns, blob |-> blob.bytes]

(* Looking ahead is in vain where the buffer ends within the bytes looked  *)
(* at: the opcodes behind a DONE or an ERR, and what may be errd[2..3].    *)
Splits(first, n) == \E last \in first .. first + n - 2 : last % capacity = 0

SplitLookAhead ==
  \E i \in DOMAIN reply.tokens :
    LET behind == Len(Write(SubSeq(reply.tokens, 1, i)))
        t == reply.tokens[i]
    IN \/ Splits(behind + 1, 2) /\ \E j \in 1 .. i : reply.tokens[j].op \in {"DONE", "ERR"}
       \/ t.op = "DONE" /\ Splits(behind + 1 - Len(t.errd), 8)

(* The rows are the ones sent, in their order, wherever the arena is; a    *)
(* whole reply is read to its last byte, and the result and the status are *)
(* what the server meant; one that ends early is never taken for more than *)
(* the tokens that arrived, nor its error for another.                     *)
ReplyTruthful ==
  LET tokens == reply.tokens
      meant == Meaning(tokens)
      whole == wire = Write(tokens)
  IN /\ IsPrefix(Told.rows, meant.rows)
     /\ result.error \in {Missing, meant.error}
     /\ Ended /\ reader.status = "OK" =>
          \E n \in 0 .. Len(tokens) : Told = Meaning(SubSeq(tokens, 1, n))
     /\ Ended /\ whole /\ reader.status # "ALLOC_FAIL" =>
          /\ reader.status = Outcome(tokens)
          /\ (\A i \in DOMAIN tokens : ~ Refused(tokens[i])) =>
               /\ Told = meant
               /\ SplitLookAhead \/ reader.at = Len(wire) + 1
=============================================================================
