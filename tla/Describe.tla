------------------------------ MODULE Describe ------------------------------
(***************************************************************************)
(* The DESCRIBE frame: how receive_describe (sqli_dispatch.c) reads it     *)
(* into a descriptor, what the getters (sqli_descriptor.c) say of a field, *)
(* and the column the result keeps beside it.                              *)
(*                                                                         *)
(* A frame is a sequence of bytes to base Base; reading starts at a place  *)
(* of the bytes that have arrived and fails where they end.                *)
(***************************************************************************)
EXTENDS Integers, Sequences, SequencesExt

CONSTANTS
  Base,            \* values a byte can have
  MaxBytes,        \* SQLI_DESCRIPTOR_MAX_BYTES
  HeaderBytes,     \* memory of a descriptor
  FieldBytes,      \* and of one of its fields
  NameMax,         \* characters of a column's name
  MaxPrecision,    \* of a DECIMAL
  Missing          \* information the server did not send

Number(bytes) == FoldLeft(LAMBDA n, b : n * Base + b, 0, bytes)
Even(n) == n + (n % 2)
Arrived(wire, at, n) == at + n - 1 <= Len(wire)

(* sqli_column_type                                                        *)
Type ==
  [CHAR |-> 0, SMALLINT |-> 1, INT |-> 2, FLOAT |-> 3, SMFLOAT |-> 4, DECIMAL |-> 5,
   SERIAL |-> 6, DATE |-> 7, MONEY |-> 8, NULL |-> 9, DATETIME |-> 10, BYTE |-> 11, TEXT |-> 12,
   VARCHAR |-> 13, INTERVAL |-> 14, NCHAR |-> 15, NVCHAR |-> 16, INT8 |-> 17, SERIAL8 |-> 18,
   LVARCHAR |-> 40, BOOL |-> 41, DBOOLEAN |-> 45, BIGINT |-> 52, BIGSERIAL |-> 53,
   CLOB |-> 101, BLOB |-> 102]

KnownTypes == {Type[t] : t \in DOMAIN Type}

Extension ==
  [info \in {1, 5, 10, 11} |->
     CASE info = 1 -> Type.LVARCHAR [] info = 5 -> Type.BOOL
       [] info = 10 -> Type.BLOB [] info = 11 -> Type.CLOB]

-----------------------------------------------------------------------------
(* What is read next: a number of some bytes, or a text behind its length. *)
Word(name, width) == [name |-> name, width |-> width, text |-> FALSE]
Text(name) == [name |-> name, width |-> 2, text |-> TRUE]

HeaderParts(extended) ==
  <<Word("statement_type", 2), Word("statement_id", 2), Word("cost", 4), Word("tuple_size", 2),
    Word("field_count", 2), Word("names_length", IF extended THEN 4 ELSE 2)>>

FieldParts(extended) ==
  <<Word("field_index", 4), Word("tuple_offset", 4), Word("type_raw", 2)>>
  \o IF ~ extended THEN <<Word("encoded_length", 2)>>
     ELSE <<Word("extended_info", 4), Text("type_owner"), Text("type_name"), Word("reference", 2),
            Word("alignment", 2), Word("source_type", 4), Word("encoded_length", 4)>>

EmptyHeader ==
  [statement_type |-> 0, statement_id |-> 0, cost |-> 0, tuple_size |-> 0, field_count |-> 0,
   names_length |-> 0]

EmptyField ==
  [field_index |-> 0, tuple_offset |-> 0, type_raw |-> 0, encoded_length |-> 0,
   extended_info |-> 0, type_owner |-> Missing, type_name |-> Missing, reference |-> 0,
   alignment |-> 0, source_type |-> 0, name |-> Missing]

Reading(at) ==
  [at |-> at, status |-> "OK", retained |-> 0, record |-> EmptyHeader, fields |-> <<>>]

Failing(read, status) == [read EXCEPT !.status = status]

(* A text costs memory of the descriptor's allowance.                      *)
ReadText(read, part, wire, length) ==
  LET start == read.at + part.width
  IN IF read.retained + length > MaxBytes THEN Failing([read EXCEPT !.at = start], "LIMIT_EXCEEDED")
     ELSE IF ~ Arrived(wire, start, Even(length)) THEN Failing(read, "IO_ERROR")
     ELSE [read EXCEPT !.at = start + Even(length), !.retained = @ + length,
                       !.record[part.name] = SubSeq(wire, start, start + length - 1)]

ReadPart(read, part, wire) ==
  LET n == Number(SubSeq(wire, read.at, read.at + part.width - 1))
  IN IF read.status # "OK" THEN read
     ELSE IF ~ Arrived(wire, read.at, part.width) THEN Failing(read, "IO_ERROR")
     ELSE IF part.text THEN ReadText(read, part, wire, n)
     ELSE [read EXCEPT !.at = @ + part.width, !.record[part.name] = n]

ReadParts(read, parts, wire) == FoldLeft(LAMBDA r, part : ReadPart(r, part, wire), read, parts)

Collected(next) ==
  IF next.status # "OK" THEN next ELSE [next EXCEPT !.fields = Append(@, next.record)]

ReadField(read, extended, wire) ==
  Collected(ReadParts([read EXCEPT !.record = EmptyField], FieldParts(extended), wire))

(* The fields and the table of names are limited before they are read.     *)
Limited(read) ==
  LET size == HeaderBytes + read.record.field_count * FieldBytes
  IN IF read.status # "OK" THEN read
     ELSE IF read.record.names_length > MaxBytes \/ size > MaxBytes
     THEN Failing(read, "LIMIT_EXCEEDED")
     ELSE [read EXCEPT !.retained = size]

ReadHeader(start, extended, wire) ==
  Limited(ReadParts(Reading(start), HeaderParts(extended), wire))

(* Names end with a zero; fields without one keep none, and what follows   *)
(* the last name is left alone.                                            *)
AssignNames(fields, names) ==
  FoldLeft(LAMBDA done, i :
             LET ends == {k \in done.offset + 1 .. Len(names) : names[k] = 0}
                 end == CHOOSE k \in ends : \A other \in ends : k <= other
             IN IF done.status # "OK" \/ done.offset >= Len(names) THEN done
                ELSE IF ends = {} THEN [done EXCEPT !.status = "PROTO_ERROR"]
                ELSE [status |-> "OK", offset |-> end,
                      fields |-> [done.fields EXCEPT ![i].name =
                                    SubSeq(names, done.offset + 1, end - 1)]],
           [status |-> "OK", offset |-> 0, fields |-> fields],
           [i \in DOMAIN fields |-> i])

Named(read, length, names) ==
  [read EXCEPT !.at = @ + Even(length), !.retained = @ + length,
               !.status = names.status, !.fields = names.fields]

ReadNames(read, length, wire) ==
  IF read.status # "OK" THEN read
  ELSE IF read.retained + length > MaxBytes THEN Failing(read, "LIMIT_EXCEEDED")
  ELSE IF ~ Arrived(wire, read.at, Even(length)) THEN Failing(read, "IO_ERROR")
  ELSE Named(read, length, AssignNames(read.fields, SubSeq(wire, read.at, read.at + length - 1)))

Descriptor(header, extended, fields) ==
  [header |-> header, extended |-> extended, fields |-> fields]

ReadBody(head, extended, wire) ==
  IF head.status # "OK" THEN head
  ELSE ReadNames(FoldLeft(LAMBDA r, i : ReadField(r, extended, wire), head,
                          [i \in 1 .. head.record.field_count |-> i]),
                 head.record.names_length, wire)

Frame(head, read, extended) ==
  [status |-> read.status, at |-> read.at,
   descriptor |-> Descriptor(head.record, extended, read.fields)]

(* receive_describe: status, place behind the frame and the descriptor.    *)
ReadBehind(head, extended, wire) == Frame(head, ReadBody(head, extended, wire), extended)
ReadFrame(wire, start, extended) == ReadBehind(ReadHeader(start, extended, wire), extended, wire)

-----------------------------------------------------------------------------
(* The column a result keeps: its name falls back on the type's owner and  *)
(* is cut, its type ignores flags and extensions nobody knows.             *)
LowByte(f) == f.type_raw % Base
Flags(f) == f.type_raw \div Base

SignedIndex(n) == IF n < (Base ^ 4) \div 2 THEN n ELSE n - Base ^ 4

Cut(text) == SubSeq(text, 1, IF Len(text) < NameMax THEN Len(text) ELSE NameMax)

LegacyColumn(f, extended) ==
  LET text == IF f.name # Missing THEN f.name ELSE f.type_owner
  IN [flags |-> f.type_raw, encoded_length |-> f.encoded_length, start |-> f.tuple_offset,
      field_index |-> SignedIndex(f.field_index),
      type |-> IF extended /\ f.extended_info \in DOMAIN Extension
               THEN Extension[f.extended_info] ELSE LowByte(f),
      name |-> IF text = Missing THEN <<>> ELSE Cut(text)]

LegacyColumns(d) == [i \in DOMAIN d.fields |-> LegacyColumn(d.fields[i], d.extended)]

(* sqli_descriptor_field_get_type and the getters built on it: a value or  *)
(* the reason there is none.                                               *)
GetType(f, extended) ==
  IF Flags(f) \notin {0, 1} THEN Missing
  ELSE IF extended /\ f.extended_info # 0
  THEN IF f.extended_info \in DOMAIN Extension THEN Extension[f.extended_info] ELSE Missing
  ELSE IF LowByte(f) \in KnownTypes THEN LowByte(f) ELSE Missing

Precision(f) == f.encoded_length \div Base
Scale(f) == f.encoded_length % Base
FloatingScale == Base - 1

DecimalQualifier(f, extended) ==
  IF GetType(f, extended) \notin {Type.DECIMAL, Type.MONEY} THEN "METADATA_UNAVAILABLE"
  ELSE IF f.encoded_length >= Base * Base THEN "PROTO_ERROR"
  ELSE IF Precision(f) \notin 1 .. MaxPrecision THEN "PROTO_ERROR"
  ELSE IF Scale(f) # FloatingScale /\ Scale(f) > Precision(f) THEN "PROTO_ERROR"
  ELSE "OK"

GetPrecision(f, extended) ==
  IF DecimalQualifier(f, extended) = "OK" THEN Precision(f) ELSE Missing

GetScale(f, extended) ==
  IF DecimalQualifier(f, extended) = "OK" /\ Scale(f) # FloatingScale THEN Scale(f) ELSE Missing

-----------------------------------------------------------------------------
(* The server's side: it writes the parts of a declaration in their order. *)
Digits(n, width) == [i \in 1 .. width |-> (n \div Base ^ (width - i)) % Base]

Padded(bytes) == IF Len(bytes) % 2 = 1 THEN Append(bytes, 0) ELSE bytes

WriteParts(record, parts) ==
  FlattenSeq([k \in DOMAIN parts |->
    LET v == record[parts[k].name]
    IN IF parts[k].text THEN Digits(Len(v), 2) \o Padded(v) ELSE Digits(v, parts[k].width)])

WriteFrame(d, names) ==
  WriteParts([d.header EXCEPT !.field_count = Len(d.fields), !.names_length = Len(names)],
             HeaderParts(d.extended))
  \o FlattenSeq([k \in DOMAIN d.fields |-> WriteParts(d.fields[k], FieldParts(d.extended))])
  \o Padded(names)

(* The table of the names of the fields that have one.                     *)
NameTable(fields, tail) ==
  FlattenSeq([k \in DOMAIN fields |-> IF fields[k].name = Missing THEN <<>> ELSE Append(fields[k].name, 0)])
  \o tail

(* What arrives of a declaration, and what is read of it.                  *)
WireOf(declaration) ==
  LET frame == WriteFrame(declaration.descriptor, declaration.names)
  IN SubSeq(frame, 1, Len(frame) - declaration.cut)

ReadDeclaration(declaration) ==
  ReadFrame(WireOf(declaration), 1, declaration.descriptor.extended)

(* What is kept of a frame and of its names.                               *)
Retained(d, names) ==
  HeaderBytes + Len(d.fields) * FieldBytes + Len(names)
  + FoldLeft(LAMBDA n, f : n + (IF d.extended THEN Len(f.type_owner) + Len(f.type_name) ELSE 0),
             0, d.fields)
=============================================================================
