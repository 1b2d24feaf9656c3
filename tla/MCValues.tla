------------------------------ MODULE MCValues ------------------------------
(* Limbs, limits and bytes small enough for every boundary to be met.      *)
EXTENDS Values, Sequences, FiniteSetsExt

(* Decimals on two-digit limbs.                                            *)
Signed(S) == S \cup {- n : n \in S}

FloatingScale == 255

MCDecimalCoefficients ==
  Signed({0, 1, 9, 10, 99, 100, 327, 328, 329, 950, 1000, 9999, 10000, 70070, 99999})

MCDecimalComparands == Signed({0, 10, 327, 9999})

MCDecimalTargets == -3 .. 2

MCDecimalColumns ==
  [precision : 1 .. 4, scale : 0 .. 4] \cup [precision : 1 .. 5, scale : {FloatingScale}]

MCDecimalSources ==
  [limbs : {<<>>, <<0, 0>>, <<5, 0>>, <<0, 7, 0>>, <<99, 99, 9>>, <<0, 0, 10>>, <<100>>, <<1, 1, 1, 0>>},
   scale : {0, 1}, negative : BOOLEAN, is_null : {FALSE}]

MCDecimalTexts ==
  [negative : BOOLEAN, mantissa : {<<>>, <<0>>, <<0, 0, 5, 0>>, <<1, 2, 3>>, <<1, 0, 0, 0, 0, 0>>},
   fractional : {0}, exponent : {-3, 0, 4, 9, 10}, scientific : {FALSE}]
  \cup [negative : BOOLEAN, mantissa : {<<0, 0, 5, 0>>, <<1, 2, 3>>},
   fractional : {2}, exponent : {-3, 0, 4}, scientific : {FALSE}]

(* An exponent byte of 0 .. 7 and one or two groups.                       *)
MCDecimalReceived ==
  {<<lead>> \o groups : lead \in 0 .. 7,
     groups \in [1 .. 1 -> {0, 2, 20, 99, 100}] \cup [1 .. 2 -> {0, 1, 10, 99, 100}]}

-----------------------------------------------------------------------------
(* DATETIMEs and INTERVALs of every shape, their fields at the limits.     *)
V == INSTANCE TemporalCodec

R(first, last, digits) == [first |-> first, last |-> last, digits |-> digits]

Ranges ==
  {R(1, 1, 0), R(1, 2, 0), R(1, 3, 0), R(1, 6, 0), R(1, 7, 3), R(2, 3, 0), R(3, 3, 0),
   R(3, 6, 0), R(3, 7, 1), R(4, 5, 0), R(6, 7, 5), R(7, 7, 3), R(7, 7, 9)}

Sample ==
  <<{0, 1, 1900, 2000, 9999, 10000}, {0, 2, 12}, {0, 29, 30, 100}, {0, 23}, {0, 60}, {0, 59, 1000}>>

Inside(r) == [i \in 1 .. 6 |-> IF i \in r.first .. r.last THEN Sample[i] ELSE {0}]

MCTemporalGiven ==
  UNION {{V!ValueOf(r, <<y, m, d, h, mi, s>>, nano, negative) :
            y \in Inside(r)[1], m \in Inside(r)[2], d \in Inside(r)[3], h \in Inside(r)[4],
            mi \in Inside(r)[5], s \in Inside(r)[6],
            nano \in IF r.last = 7 THEN {0, 1, 120000000, 999000000} ELSE {0},
            negative \in BOOLEAN} : r \in Ranges}
  \cup {V!NullOf(r) : r \in Ranges \cup {V!NoRange}}

Q(digits, start, end) == [digits |-> digits, start |-> start, end |-> end]

MCTemporalQualifiers ==
  {Q(4, 0, 0), Q(6, 0, 2), Q(8, 0, 4), Q(14, 0, 10), Q(17, 0, 13), Q(19, 0, 15), Q(4, 2, 4),
   Q(2, 4, 4), Q(3, 4, 4), Q(8, 4, 10), Q(9, 4, 11), Q(10, 4, 12), Q(4, 6, 8), Q(7, 10, 15),
   Q(10, 10, 13), Q(3, 12, 13), Q(5, 12, 15), Q(7, 0, 2), Q(3, 3, 3)}

N(n, width) == [n |-> n, width |-> width]

MCTemporalTexts ==
  {[text |-> [sign |-> sign, iso |-> iso, numbers |-> numbers], range |-> range] :
     sign \in {"", "+", "-"}, iso \in BOOLEAN,
     numbers \in {<<>>, <<N(2024, 4), N(2, 2), N(29, 2)>>, <<N(2023, 4), N(2, 2), N(29, 2)>>,
                  <<N(7, 1)>>, <<N(7, 2)>>, <<N(70, 3), N(11, 2)>>,
                  <<N(2024, 4), N(2, 2), N(29, 2), N(23, 2), N(59, 2), N(59, 2)>>,
                  <<N(2024, 4), N(2, 2), N(29, 2), N(23, 2), N(59, 2), N(59, 2), N(12, 3)>>},
     range \in Ranges \cup {V!NoRange}}

MCTemporalReceived ==
  {[q |-> Q(4, 6, 8), bytes |-> <<lead, a, b>>] :
     lead \in {0, 63, 64, 128, 194, 195}, a \in {0, 1, 23, 99, 100}, b \in {0, 59, 60}}
  \cup {[q |-> Q(7, 10, 15), bytes |-> <<lead, a, b, 0, c>>] :
     lead \in {62, 63, 192, 193}, a \in {0, 1}, b \in {0, 7}, c \in {0, 10, 15}}

-----------------------------------------------------------------------------
(* Stretches of the calendar around leap days, centuries and both epochs.  *)
From(y, m, d, n) == [date |-> V!DateOf(y, m, d), number |-> n]

MCCalendarStarts ==
  {From(1, 1, 1, -693594), From(4, 2, 1, -692468), From(1600, 1, 1, -109572),
   From(1899, 1, 1, -364), From(1969, 1, 1, 25203), From(1999, 12, 1, 36494),
   From(2100, 1, 1, 73050), From(9998, 12, 1, 2958069)}

-----------------------------------------------------------------------------
(* Rows of two columns, each type before and after another one; bytes have *)
(* eight values: 2 is a space, 4 has the top bit set, 7 has all bits set.  *)
Column(type, length) == [type |-> type, length |-> length]

ColumnTypes ==
  {Column("CHAR", 1), Column("CHAR", 3), Column("VARCHAR", 3), Column("LVARCHAR", 0),
   Column("BOOL", 0), Column("DBOOLEAN", 0), Column("SMALLINT", 0), Column("INT", 0),
   Column("BIGINT", 0), Column("INT8", 0), Column("FLOAT", 0), Column("SMFLOAT", 0),
   Column("DATE", 0), Column("DECIMAL", 3), Column("DATETIME", 2), Column("TEXT", 0),
   Column("BLOB", 0)}

MCLayouts ==
  {<<c, Column("VARCHAR", 3)>> : c \in ColumnTypes}
  \cup {<<Column("SMALLINT", 0), c>> : c \in ColumnTypes}

Fill(n, b) == [i \in 1 .. n |-> b]
Padded(bytes, n) == bytes \o Fill(n - Len(bytes), Space)
Digits(n, width) == [i \in 1 .. width |-> (n \div Base ^ (width - i)) % Base]
Complement(n, width) == IF n < 0 THEN Digits(Base ^ width + n, width) ELSE Digits(n, width)

(* A value and the bytes a server sends for it.                            *)
Sent(v, wire) == [v |-> v, wire |-> wire]
Raw(bytes) == Sent([n |-> 0, bytes |-> bytes], bytes)
Whole(n, width) == Sent([n |-> n, bytes |-> Complement(n, width)], Complement(n, width))
Headered(n, bytes) == Sent([n |-> n, bytes |-> bytes], <<0>> \o Digits(Len(bytes), 4) \o bytes)
Counted(bytes) == Sent([n |-> 0, bytes |-> bytes], <<Len(bytes)>> \o bytes)

Swapped(n) ==
  LET m == IF n < 0 THEN - n ELSE n
      bytes == (IF n < 0 THEN <<Base - 1, Base - 1>> ELSE <<0, 1>>)
               \o Digits(m % Base ^ 4, 4) \o Digits(m \div Base ^ 4, 4)
  IN Sent([n |-> n, bytes |-> bytes], bytes)

NoHeader == Sent(Null, <<1, 0, 0, 0, 0>>)
Lowest(width) == Sent(Null, <<Base \div 2>> \o Fill(width - 1, 0))

ValuesOf(c) ==
  CASE c.type = "CHAR" ->
         {Raw(Padded(b, c.length)) :
            b \in {x \in {<<>>, <<1>>, <<5, 0>>, <<2, 3, 1>>} : Len(x) <= c.length}}
         \cup {Sent(Null, Padded(<<0>>, c.length))}
    [] c.type = "VARCHAR" ->
         {Counted(b) : b \in {<<>>, <<2>>, <<5, 2>>, <<3, 0, 6>>}} \cup {Sent(Null, <<1, 0>>)}
    [] c.type = "LVARCHAR" -> {Headered(0, b) : b \in {<<>>, <<0>>, <<5, 2>>}} \cup {NoHeader}
    [] c.type = "BOOL" -> {Headered(0, <<0>>), Headered(1, <<1>>), Headered(1, <<7>>), NoHeader}
    [] c.type = "DBOOLEAN" -> {Whole(0, 1), Whole(1, 1)}
    [] c.type = "SMALLINT" -> {Whole(n, 2) : n \in {0, 1, -1, -31, 31}} \cup {Lowest(2)}
    [] c.type = "INT" -> {Whole(n, 4) : n \in {0, -1, 2047, -2047, 33}} \cup {Lowest(4)}
    [] c.type = "BIGINT" ->
         {Whole(n, 8) : n \in {0, -1, 2047, 2048, -2048, -2049, 8388607, -8388607}}
         \cup {Lowest(8)}
    [] c.type = "INT8" ->
         {Swapped(n) : n \in {0, -1, 2048, 8388607, -8388608}} \cup {Sent(Null, Fill(10, 0))}
    [] c.type = "FLOAT" ->
         {Raw(Padded(b, 8)) : b \in {<<0, 1>>, <<4>>, <<7, 7, 7>>}} \cup {Sent(Null, Fill(8, 7))}
    [] c.type = "SMFLOAT" ->
         {Raw(Padded(b, 4)) : b \in {<<0, 1>>, <<4>>, <<7, 7, 7>>}} \cup {Sent(Null, Fill(4, 7))}
    [] c.type = "DATE" -> {Raw(<<0, 0, 0, 0>>), Raw(<<7, 7, 7, 7>>), Lowest(4)}
    [] c.type \in {"DECIMAL", "DATETIME"} ->
         {Raw(Padded(<<4>>, c.length)), Raw(Padded(<<0, 1>>, c.length)),
          Sent(Null, Fill(c.length, 0))}
    [] c.type = "TEXT" -> {Raw(<<0, 2, 0>>), Sent(Null, <<0, 3, 0>>)}
    [] c.type = "BLOB" -> {Headered(0, <<3>>), NoHeader}

(* A server that does not pad may shorten a CHAR at the end of a row.      *)
Short(c) ==
  IF c.type = "CHAR" /\ c.length > 2
  THEN {Sent([n |-> 0, bytes |-> <<5>>], <<1, 5>>), Sent(Null, <<1, 0>>)} ELSE {}

(* Whole rows, and rows that are cut off.                                  *)
RowsOf(layout) ==
  LET whole == {[bytes |-> a.wire \o b.wire, values |-> <<a.v, b.v>>] :
                  a \in ValuesOf(layout[1]), b \in ValuesOf(layout[2]) \cup Short(layout[2])}
      Cut(k) == {[bytes |-> SubSeq(r.bytes, 1, k), values |-> <<>>] : r \in whole}
  IN whole \cup Cut(2)
     \cup {[bytes |-> SubSeq(r.bytes, 1, Len(r.bytes) - 1), values |-> <<>>] : r \in whole}

MCServerRows == [layout \in MCLayouts |-> RowsOf(layout)]

-----------------------------------------------------------------------------
(* Statements with one and two parameters, whose described columns are     *)
(* those of the parameters or others; character 3 becomes two in the       *)
(* database and 6 has no equivalent there; 64 bytes are too many.          *)
Stmt(select, described, actual, converting) ==
  [select |-> select, described |-> described, actual |-> actual, converting |-> converting]

MCStatements ==
  {Stmt(select, <<"TEXT", "CHAR">>, <<"TEXT", "CHAR">>, TRUE) : select \in BOOLEAN}
  \cup {Stmt(FALSE, columns_, columns_, converting) :
          columns_ \in {<<"BYTE">>, <<"TEXT">>, <<"CLOB">>}, converting \in BOOLEAN}
  \cup {Stmt(FALSE, <<>>, <<"CHAR">>, TRUE), Stmt(TRUE, <<"TEXT">>, <<"CHAR">>, TRUE),
        Stmt(FALSE, <<>>, <<>>, FALSE)}

MCParam(type, n, data, q, null) == [type |-> type, n |-> n, data |-> data, q |-> q, null |-> null]
Bound(type, n, data, q) == MCParam(type, n, data, q, FALSE)
BoundNull(type) == MCParam(type, 0, <<>>, 0, TRUE)

MCBoundScalars ==
  {Bound("INT", n, <<>>, 0) : n \in {-1, 9}}
  \cup {Bound("BIGINT", -2, <<>>, 0), Bound("FLOAT", 77, <<>>, 0), BoundNull("INT"), BoundNull("BIGINT")}

MCBoundStrings ==
  {Bound("VARCHAR", 0, s, 0) : s \in {<<>>, <<1>>, <<3, 1, 3>>, <<1, 6>>, Fill(64, 1)}}
  \cup {BoundNull("VARCHAR")}

MCBoundBytes == {Bound("BYTE", 0, s, 0) : s \in {<<>>, <<3>>, <<0, 1, 2, 3, 4, 5>>}}

MCBoundTimestamps == {<<2024, 2, 31, 23, 59, 59, 999999>>, <<10000, 13, 1, 24, 0, 60, 7>>}

MCBoundNatives ==
  {Bound("DATE", 0, <<0, 0, 1, 0>>, 0), Bound("DECIMAL", 0, <<5, 0, 0>>, 17),
   Bound("DATETIME", 0, <<0, 0, 0>>, 18), Bound("INTERVAL", 0, <<5, 0, 1>>, 9),
   MCParam("DECIMAL", 0, <<0, 0, 0>>, 17, TRUE), MCParam("DATE", 0, <<4, 0, 0, 0>>, 0, TRUE)}

MCBoundLocators ==
  {Bound("UDTFIXED", 0, locator, Len(locator) % 2) : locator \in {<<>>, <<1>>, <<1, 0, 2, 1>>, Fill(5, 1)}}
  \cup {BoundNull("UDTFIXED")}

-----------------------------------------------------------------------------
(* Descriptors: plain fields with and without names, with qualifiers that  *)
(* make sense and that do not; extended ones; one that is too large; and   *)
(* frames that end early.                                                  *)
DescribedField(type, length, name) ==
  [F!EmptyField EXCEPT !.type_raw = type, !.encoded_length = length, !.name = name]

ExtendedField(type, info, owner, name, length) ==
  [DescribedField(type, length, name) EXCEPT
     !.extended_info = info, !.type_owner = owner, !.type_name = <<7>>,
     !.field_index = 128 ^ 4 - 1, !.tuple_offset = 5, !.reference = 3, !.alignment = 4,
     !.source_type = 300]

Declares(extended, fields) ==
  F!Descriptor([F!EmptyHeader EXCEPT !.statement_type = 2, !.statement_id = 200,
                                         !.cost = 300, !.tuple_size = 9],
                 extended, fields)

Declaration(d, tail, cut) ==
  [descriptor |-> d, names |-> F!NameTable(d.fields, tail), cut |-> cut]

Plain ==
  Declares(FALSE, <<DescribedField(128 + 5, 3 * 128 + 2, <<9>>),
                    DescribedField(5, 2 * 128 + 127, <<>>),
                    DescribedField(300, 4, <<8, 8, 8>>),
                    DescribedField(8, 9 * 128, Missing)>>)

Rich ==
  Declares(TRUE, <<ExtendedField(45, 10, <<6, 6, 6>>, <<>>, 7),
                   ExtendedField(256 + 13, 0, <<>>, <<2, 2, 2>>, 7),
                   ExtendedField(13, 99, <<5>>, Missing, 7)>>)

Oversized == [Rich EXCEPT !.fields[2].type_owner = Fill(6, 1)]

MCDeclarations ==
  {Declaration(Rich, <<>>, cut) : cut \in {0, 1, 6, 7, 12, 20, 24, 30, 90, 100}}
  \cup {Declaration(Plain, <<>>, cut) : cut \in {0, 1, 9, 18, 60}}
  \cup {Declaration(Plain, <<5>>, 0), Declaration(Oversized, <<>>, 0)}

-----------------------------------------------------------------------------
(* Replies: rows that move with their arena, an object, every error layout *)
(* and every token.  Left out are tokens whose reading is a guess that the *)
(* client cannot win: errd[2..3] that look like opcodes, extras that do,   *)
(* unknown tokens with a payload, a COMMAND without one in the buffer.     *)
Token(op, bytes) == [op |-> op, bytes |-> bytes]
Alone(op) == Token(op, <<>>)
Eot == Alone("EOT")
Cost == Token("COST", <<0, 12, 0, 15, 0, 13, 0, 12>>)
Info == Token("INFO", <<0, 5, 0, 3, 0, 12, 0, 0, 0, 1, 0, 0, 0, 0>>)
Xactstat == Token("XACTSTAT", <<0, 12, 0, 13, 0, 0>>)

Tuple(data) == [op |-> "TUPLE", data |-> data]
Done(affected, serial, errd) ==
  [op |-> "DONE", affected |-> affected, serial |-> serial, errd |-> errd]
InsertDone(sign, low, high, extra) ==
  [op |-> "INSERTDONE", sign |-> sign, low |-> low, high |-> high, extra |-> extra]
Err(code, message) == [op |-> "ERR", code |-> code, message |-> message]

BlobOf(data) == [op |-> "BLOB", data |-> data]
ChunkOf(data) == F!Digits(Len(data), 2) \o F!Padded(data)
LodataOf(a, b) ==
  [op |-> "LODATA", data |-> a \o b,
   bytes |-> F!Digits(2, 2) \o F!Digits(Len(a \o b), 4) \o ChunkOf(a) \o ChunkOf(b)]

DescribeOf(n, extended) ==
  LET field == IF extended THEN ExtendedField(2, 0, <<5>>, <<9>>, 4) ELSE DescribedField(2, 4, <<9>>)
  IN [op |-> "DESCRIBE", descriptor |-> Declares(extended, [i \in 1 .. n |-> field])]

Zero4 == <<0, 0, 0, 0>>
One4 == <<0, 0, 0, 1>>

(* An old server and a new one.                                            *)
Reply(context, new, tokens) ==
  [tokens |-> tokens, context |-> context, longRowId |-> new, remove64k |-> new,
   strict |-> FALSE, extended |-> new]

FetchReplies(new) ==
  {Reply("fetch", new, tokens) : tokens \in
     {<<Tuple(<<0, 12>>), Tuple(<<7>>), Tuple(<<>>), Tuple(<<5, 6, 7, 8>>), Done(Zero4, Zero4, <<>>), Eot>>,
      <<Eot, Tuple(<<1, 2, 3>>), Eot>>,
      <<Tuple(<<1>>), Tuple(<<2, 2, 2, 2, 2, 2>>), Err(-100, <<65, 66>>), Eot>>}}

PrepareReplies(new) ==
  {Reply("prepare", new, tokens) : tokens \in
     {<<Eot, DescribeOf(IF new THEN 1 ELSE 2, new), Cost, Eot>>,
      <<DescribeOf(0, new), Done(One4, <<0, 0, 0, 5>>, <<>>), Cost, Info, Eot>>}}

CountReplies(new) ==
  {Reply("other", new, tokens) : tokens \in
     {<<Done(Fill(4, 127), One4, <<0, 0, 3, 3, 0, 0, 0, 12>>), Eot, Eot>>,
      <<InsertDone(<<0, 1>>, One4, Zero4, <<3, 3, 66, 0>>), Done(One4, Zero4, Fill(8, 9)), Eot>>,
      <<InsertDone(<<127, 127>>, <<64, 0, 0, 0>>, <<64, 0, 0, 0>>, <<>>), Xactstat, Done(One4, <<1, 0, 0, 0>>, <<>>)>>,
      <<InsertDone(<<0, 0>>, One4, Zero4, <<>>), Eot>>}}

ErrorReplies(new) ==
  {Reply("other", new, tokens) : tokens \in
     {<<Err(-619, <<65>>), Eot>>, <<Err(-368, <<>>), Eot>>, <<Err(-937, Fill(5, 65)), Eot>>,
      <<Err(-201, <<>>)>>, <<Tuple(<<4>>), Alone("EXIT")>>, <<Tuple(Fill(7, 1)), Eot>>}}
  \cup {[Reply("other", new, <<Tuple(<<4>>), Alone("UNKNOWN")>>) EXCEPT !.strict = TRUE]}

OtherReplies(new) ==
  {Reply("other", new, tokens) : tokens \in
     {<<Token("COMMAND", <<0, 12, 0, 1>>), Alone("CLOSE"), Info, Alone("RELEASE"), Alone("DBCLOSE"), Eot>>,
      <<Token("DBOPEN_FLAGS", <<0, 4>>), Token("DBOPEN", <<0, 2, 65, 66, 0, 1, 0, 12>>),
        Token("TUPID", Zero4), Alone("PREPARE"), Alone("REASSOC"), Alone("UNKNOWN"), Eot>>}}

BlobReplies(new) ==
  {Reply("blob", new, tokens) : tokens \in
     {<<BlobOf(<<1, 2, 3>>), Cost, BlobOf(<<>>), Info, LodataOf(<<4, 5, 6>>, <<7>>), Eot>>,
      <<BlobOf(<<1>>), Err(-9810, <<65>>), Eot>>, <<Alone("FILE")>>}}
  \cup {Reply("blob", TRUE, <<BlobOf(<<1>>), Done(Zero4, Zero4, <<>>), Eot>>)}

MCReplies ==
  UNION {FetchReplies(new) \cup PrepareReplies(new) \cup CountReplies(new) \cup ErrorReplies(new)
         \cup OtherReplies(new) \cup BlobReplies(new) : new \in BOOLEAN}

-----------------------------------------------------------------------------
(* Destinations: delimiters in every part of the URI, queries with empty,  *)
(* repeated and too many entries, parts that are missing or too long.      *)
Option(key, text) == [key |-> key, value |-> text]
ServerOption == Option("INFORMIXSERVER", <<"s">>)

Destination(scheme, user, password, host, port, database, options_, fragment, sparing) ==
  [scheme |-> scheme, user |-> user, password |-> password, host |-> host, port |-> port,
   database |-> database, options |-> options_, fragment |-> fragment, sparing |-> sparing]

Schemes == {<<"informix+onsoctcp">>, <<"informix+onsocssl">>, <<"informix+onipcstr">>}

CredentialDestinations ==
  {Destination(scheme, user, password, <<"h">>, <<"9">>, <<"d">>, <<ServerOption>>, <<>>, sparing) :
     scheme \in Schemes, sparing \in BOOLEAN,
     user \in {<<>>, <<"u">>, <<"u", ":", "@">>, <<"%", "+">>, Fill(13, "u")},
     password \in {<<>>, <<"p">>, <<":", "/", "a">>, <<"=", "&", "%">>, <<"?", "+">>}}

PlaceDestinations ==
  {Destination(scheme, <<>>, <<"p">>, host, port, database, <<ServerOption>>, fragment, TRUE) :
     scheme \in Schemes \cup {<<"http">>, <<>>},
     host \in {<<>>, <<"h">>, <<":", ":", "1">>, <<"[", "h">>}, port \in {<<>>, <<"9">>, <<"9", "0", "9">>},
     database \in {<<>>, <<"d", "@", ":">>, <<"d", "?">>, <<"/", "d">>, Fill(13, "d")},
     fragment \in {<<"?", "@", "/">>}}

Queries ==
  {<<>>, <<Option("INFORMIXSERVER", <<>>)>>,
   <<Option("INFORMIXSERVER", <<>>), Option("INFORMIXSERVER", <<"s", "&", "=">>), ServerOption>>,
   <<Option("SOCKET_PATH", <<"/", "#", " ">>), ServerOption, Option("SSL_CA_FILE", <<"/", "c">>)>>,
   <<Option("CLIENT_LOCALE", <<"e", "+">>), Option("DB_LOCALE", <<"f", "%", "4", "0">>), ServerOption>>,
   <<Option("SSL_VERIFY_PEER", <<"TRUE">>), ServerOption, Option("SSL_VERIFY_PEER", <<"false">>)>>,
   <<Option("SSL_VERIFY_PEER", <<"false">>), ServerOption, Option("SSL_CA_FILE", Fill(13, "c"))>>,
   <<Option("DB_LOCALE", <<>>), Option("x", <<"x">>), Option("DELIMIDENT", <<"Y">>), ServerOption>>}

QueryDestinations ==
  {Destination(scheme, <<"u">>, <<>>, <<"h">>, <<"9">>, <<>>, query, <<"f">>, sparing) :
     scheme \in Schemes, query \in Queries, sparing \in BOOLEAN}

MCDestinations == CredentialDestinations \cup PlaceDestinations \cup QueryDestinations

Login(user, password) == [user |-> user, password |-> password]

MCLogins == {Login(<<>>, <<>>), Login(<<"v", ":">>, <<>>), Login(<<"v">>, <<"q", "%">>)}

MCEnvironments ==
  {[tmp |-> <<>>, exists |-> FALSE, user |-> <<"w">>],
   [tmp |-> <<>>, exists |-> TRUE, user |-> <<>>],
   [tmp |-> <<"t">>, exists |-> TRUE, user |-> Fill(13, "w")]}

(* Lines of the sqlhosts file.                                             *)
HostLines ==
  {<<>>, <<" ", "#", "a", " ", "p", " ", "h", " ", "s">>, <<"@", " ", "p", " ", "h", " ", "s">>,
   <<"a", " ", "p", " ", "h", " ", "s">>, <<" ", "A", " ", " ", "q", " ", "g", " ", "t", " ", "o", " ", "u", " ">>,
   <<"b", " ", "p", " ", "h">>, <<"B", " ", "p", "p", " ", "h", " ", "s", " ", "v">>,
   <<"b", " ", "p", "p", "p", " ", "h", " ", "s">>, Fill(12, "a") \o <<" ", "p", " ", "h", " ", "s">>}

MCHostNames == {<<"a">>, <<"B">>, <<"q">>}

MCFiles == UNION {[1 .. n -> HostLines] : n \in 0 .. 3}

-----------------------------------------------------------------------------
MCNonFinite == {Padded(<<7, 7, 7>>, 8), Padded(<<7, 7, 7>>, 4)}
=============================================================================
