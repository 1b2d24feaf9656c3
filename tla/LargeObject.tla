---------------------------- MODULE LargeObject ----------------------------
(***************************************************************************)
(* Smart large objects (src/sqli_sblob.c): upload handles created through  *)
(* the routine ifx_lo_create, streamed writes, independent readers, direct *)
(* reads from a result column, close and release, and the SQ_LODATA frames *)
(* they exchange with the server.                                          *)
(*                                                                         *)
(* One thread uses the connection; a call runs in one step, except that    *)
(* sqli_sblob_write_stream returns to the application's callback between   *)
(* two writes.  A reply is the sequence of tokens the server sends; where  *)
(* the link breaks, only a prefix of it arrives.  The server is external.  *)
(* A byte is the number of its place in the object.                        *)
(***************************************************************************)
EXTENDS Integers, Sequences, SequencesExt

CONSTANTS
    Objects,      \* objects the server can create, a set of positive numbers
    Capacities,   \* buffer sizes of reads and writes
    Offsets,      \* displacements of reads that seek
    ChunkSize,    \* SQLI_SBLOB_BUFSIZE
    MaxInt32,     \* 0x7FFFFFFF
    MaxBytes,     \* bound: bytes of an object
    MaxDescriptor,\* bound: descriptors of a session
    MaxSessions,  \* bound: connects
    Faults        \* what may go wrong, a subset of Fault

\* link: the connection breaks in the middle of a request or a reply; refuse:
\* the server answers SQ_ERR; malformed: it answers with something unexpected.
Fault == {"link", "refuse", "malformed"}

ASSUME LargeObjectAssumption ==
    /\ Objects \subseteq Nat \ {0} /\ Capacities \subseteq Nat /\ Offsets \subseteq Int
    /\ ChunkSize \in Nat \ {0} /\ MaxInt32 \in Nat \ {0}
    /\ MaxBytes \in Nat /\ MaxDescriptor \in Nat /\ MaxSessions \in Nat \ {0} /\ Faults \subseteq Fault

VARIABLES
    conn,     \* the connection: state, discarded, and the cached routine handle,
              \* named by the session that issued it (0: none)
    server,   \* the server's session, its open descriptors, the bytes of the objects
    lob,      \* the upload handle (struct sqli_sblob)
    reader,   \* the read cursor (struct sqli_sblob_read_cursor)
    stream,   \* sqli_sblob_write_stream is running; its *bytes_written
    suspect,  \* a call met a transport or protocol failure in this session
    last,     \* the last call: whether a read that succeeded delivered
              \* exactly what it was owed, and the tokens left unread
    lost      \* descriptors a failed or unreported close has left open

vars == <<conn, server, lob, reader, stream, suspect, last, lost>>

Descriptors == 0 .. MaxDescriptor
NoLob    == [exists |-> FALSE, lofd |-> -1, locator |-> 0, open |-> FALSE, confirmed |-> 0]
NoReader == [exists |-> FALSE, descriptor |-> -1, object |-> 0, open |-> FALSE]
Quiet    == [exact |-> TRUE, left |-> <<>>]
Idle     == [on |-> FALSE, total |-> 0]

TypeOK ==
    /\ conn \in [state: {"READY", "CLOSED", "ERROR"}, discarded: BOOLEAN, routine: 0 .. MaxSessions]
    /\ server.session \in 1 .. MaxSessions
    /\ \A d \in DOMAIN server.open : d \in Descriptors /\ server.open[d].object \in Objects
                                     /\ server.open[d].pos \in 0 .. MaxBytes
    /\ \A o \in DOMAIN server.data : o \in Objects /\ server.data[o] \in Seq(1 .. MaxBytes)
    /\ lob \in [exists: BOOLEAN, lofd: {-1} \cup Descriptors, locator: {0} \cup Objects,
                open: BOOLEAN, confirmed: 0 .. MaxBytes]
    /\ reader \in [exists: BOOLEAN, descriptor: {-1} \cup Descriptors,
                   object: {0} \cup Objects, open: BOOLEAN]
    /\ stream \in [on: BOOLEAN, total: 0 .. MaxBytes]
    /\ suspect \in BOOLEAN /\ last.exact \in BOOLEAN /\ lost \subseteq Descriptors

Init ==
    /\ conn = [state |-> "READY", discarded |-> FALSE, routine |-> 0]
    /\ server = [session |-> 1, open |-> <<>>, data |-> <<>>]
    /\ lob = NoLob /\ reader = NoReader /\ stream = Idle
    /\ suspect = FALSE /\ last = Quiet /\ lost = {}

---------------------------------------------------------------------------
(* Reading SQ_LODATA replies                                               *)

Tok(t, n) == [t |-> t, n |-> n]
Least(a, b) == IF a < b THEN a ELSE b
Without(f, x) == [y \in DOMAIN f \ {x} |-> f[y]]
With(f, x, v) == [y \in DOMAIN f \cup {x} |-> IF y = x THEN v ELSE f[y]]

\* What has been read and what is left of the reply.
Read(status, data, left) == [status |-> status, data |-> data, left |-> left]

\* The first token that is not SQ_EOT and what follows it.
AfterEots(in) ==
    IF \A i \in DOMAIN in : in[i].t = "EOT" THEN <<>>
    ELSE SubSeq(in, SelectInSeq(in, LAMBDA k : k.t # "EOT"), Len(in))

\* Trailing SQ_DONE and anything else up to SQ_EOT.
DrainTail(in, data) ==
    LET i == SelectInSeq(in, LAMBDA k : k.t = "EOT")
    IN IF i = 0 THEN Read("IO_ERROR", data, <<>>)
       ELSE Read("OK", data, SubSeq(in, i + 1, Len(in)))

Bytes(in) == [i \in DOMAIN in |-> in[i].n]

\* What is kept of a chunk of len bytes whose length is at that place of the reply:
\* what exceeds the room left in the buffer is discarded.
Taken(in, at, len, room) == Bytes(SubSeq(in, at + 1, at + Least(len, room)))

\* Mutant: odd chunks are taken to have no padding.
ChunksUnpadded(in, expected, capacity) ==
    LET from[at \in 1 .. Len(in) + 1] == [seen \in Nat |->
            IF seen >= expected THEN DrainTail(SubSeq(in, at, Len(in)), <<>>)
            ELSE IF at > Len(in) THEN Read("IO_ERROR", <<>>, <<>>)
            ELSE LET len  == in[at].n
                     next == at + 1 + len
                 IN IF len = 0 THEN DrainTail(SubSeq(in, next, Len(in)), <<>>)
                    ELSE IF next > Len(in) + 1 THEN Read("IO_ERROR", <<>>, <<>>)
                    ELSE [from[next][seen + len] EXCEPT
                             !.data = Taken(in, at, len, capacity - seen) \o @]]
    IN from[1][0]

\* The chunks of a reply, from place at on: lengths, bytes and the padding of odd
\* lengths, until the expected number has been seen.
ChunksOf(in, expected, capacity) ==
    LET from[at \in 1 .. Len(in) + 1] == [seen \in Nat |->
            IF seen >= expected THEN DrainTail(SubSeq(in, at, Len(in)), <<>>)
            ELSE IF at > Len(in) THEN Read("IO_ERROR", <<>>, <<>>)
            ELSE LET len  == in[at].n
                     next == at + 1 + len + (len % 2)
                 IN IF len = 0 THEN DrainTail(SubSeq(in, next, Len(in)), <<>>)
                    ELSE IF next > Len(in) + 1 THEN Read("IO_ERROR", <<>>, <<>>)
                    ELSE [from[next][seen + len] EXCEPT
                             !.data = Taken(in, at, len, capacity - seen) \o @]]
    IN from[1][0]

\* sqli_receive_error: the error and the SQ_EOT behind it.
TakeError(in) ==
    Read("ERR", <<>>, IF Len(in) > 1 /\ in[2].t = "EOT" THEN SubSeq(in, 3, Len(in)) ELSE Tail(in))

\* The reply to a read of at most capacity bytes; the request announces no more
\* than an int32.
ReadReply(reply, capacity) ==
    LET in == AfterEots(reply)
    IN IF in = <<>> THEN Read("IO_ERROR", <<>>, <<>>)
       ELSE IF in[1].t = "ERR" THEN TakeError(in)
       ELSE IF in[1].t # "LODATA" THEN Read("PROTO_ERROR", <<>>, Tail(in))
       ELSE IF in[1].n <= 0 THEN DrainTail(Tail(in), <<>>)
       ELSE ChunksOf(Tail(in), Least(in[1].n, Least(capacity, MaxInt32)), capacity)

\* The acknowledgement of a write: n is its size, negative when it failed.
WriteReply(reply) ==
    LET in   == AfterEots(reply)
        done == DrainTail(Tail(in), <<>>)
    IN IF in = <<>> THEN Read("IO_ERROR", <<>>, <<>>)
       ELSE IF in[1].t = "ERR" THEN TakeError(in)
       ELSE IF in[1].t # "LODATA" THEN Read("PROTO_ERROR", <<>>, Tail(in))
       ELSE IF done.status = "OK" /\ in[1].n < 0 THEN [done EXCEPT !.status = "ERR"]
       ELSE done

---------------------------------------------------------------------------
(* The server                                                              *)

Frame(bytes) == <<Tok("LEN", Len(bytes))>> \o [i \in DOMAIN bytes |-> Tok("BYTE", bytes[i])]
                \o (IF Len(bytes) % 2 = 1 THEN <<Tok("PAD", 0)>> ELSE <<>>)

\* The ways to send bytes in chunks: those of what is behind the first k of them.
Framings(bytes) ==
    LET behind[k \in 0 .. Len(bytes)] ==
            IF k = Len(bytes) THEN {<<>>}
            ELSE UNION {{Frame(SubSeq(bytes, k + 1, m)) \o f : f \in behind[m]} :
                        m \in k + 1 .. Least(Len(bytes), k + ChunkSize)}
    IN behind[0]

Trailers == {<<Tok("EOT", 0)>>, <<Tok("DONE", 0), Tok("EOT", 0)>>,
             <<Tok("LEN", 0), Tok("DONE", 0), Tok("EOT", 0)>>}

Refusals == (IF "refuse" \in Faults THEN {<<Tok("ERR", 0), Tok("EOT", 0)>>} ELSE {})
            \cup (IF "malformed" \in Faults THEN {<<Tok("OTHER", 0), Tok("EOT", 0)>>} ELSE {})

\* Data announced as the rest of the object, n bytes of it sent.
DataReplies(rest, n) ==
    {<<Tok("LODATA", Len(rest))>> \o f \o t :
        f \in Framings(SubSeq(rest, 1, n)), t \in Trailers}

Arriving(replies) ==
    replies \cup (IF "link" \in Faults
                  THEN UNION {{SubSeq(r, 1, k) : k \in 0 .. Len(r) - 1} : r \in replies} ELSE {})

Descriptor(object) == [object |-> object, pos |-> 0]
Unused == Descriptors \ DOMAIN server.open
NextObject == LET free == Objects \ DOMAIN server.data
              IN {o \in free : \A p \in free : o <= p}
NextUnused == CHOOSE d \in Unused : \A e \in Unused : d <= e
Opened(s, d, o) == [s EXCEPT !.open = With(@, d, Descriptor(o))]
ClosedAt(s, d) == [s EXCEPT !.open = Without(@, d)]

---------------------------------------------------------------------------
(* Calls                                                                   *)

Ready == conn.state = "READY" /\ ~suspect /\ ~stream.on

Failed(status) == status \in {"IO_ERROR", "PROTO_ERROR"}

Outcome(status) ==
    /\ last' = Quiet
    /\ suspect' = (suspect \/ Failed(status))

\* What a query can come to: the server executes it and answers, refuses it, or
\* the link breaks before or after it is executed.
QueryResults == {[status |-> "OK", done |-> TRUE]}
    \cup (IF "refuse" \in Faults THEN {[status |-> "ERR", done |-> FALSE]} ELSE {})
    \cup (IF "link" \in Faults THEN [status: {"IO_ERROR"}, done: BOOLEAN] ELSE {})

\* get_lo_create_fphandle: the handle of ifx_lo_create, cached per connection.
RoutineFound(lookup) == conn.routine # 0 \/ lookup.status = "OK"
RoutineCached(lookup) ==
    IF conn.routine = 0 /\ RoutineFound(lookup) THEN server.session ELSE conn.routine

\* The server executes the routine under that handle: the object exists and a
\* descriptor is open on it.
Executes(lookup, exec) ==
    RoutineFound(lookup) /\ exec.done /\ RoutineCached(lookup) = server.session

\* The output parameters: the locator, which must be there and fit, and the
\* descriptor, which is closed again when it does not.
Created(o, whole) ==
    IF whole THEN [NoLob EXCEPT !.exists = TRUE, !.lofd = NextUnused, !.locator = o, !.open = TRUE]
    ELSE lob

\* sqli_sblob_create.  In a sound session there is no tail to drain before it.
Create ==
    /\ Ready /\ ~lob.exists /\ Unused # {}
    /\ \E o \in NextObject, lookup \in QueryResults, exec \in QueryResults,
          whole \in {TRUE} \cup {"malformed" \notin Faults}, close \in QueryResults :
          LET ran     == Executes(lookup, exec)
              answer  == RoutineFound(lookup) /\ exec.status = "OK"
              created == [Opened(server, NextUnused, o) EXCEPT !.data = With(@, o, <<>>)]
              dropped == answer /\ ~whole /\ close.done
          IN /\ conn' = [conn EXCEPT !.routine = RoutineCached(lookup)]
             /\ server' = IF ~ran THEN server
                          ELSE IF dropped THEN ClosedAt(created, NextUnused) ELSE created
             /\ lob' = IF answer THEN Created(o, whole) ELSE lob
             /\ lost' = IF ran /\ ~(answer /\ whole) /\ ~dropped
                        THEN lost \cup {NextUnused} ELSE lost
             /\ Outcome(IF ~RoutineFound(lookup) THEN lookup.status
                        ELSE IF ~answer THEN exec.status
                        ELSE IF whole THEN "OK" ELSE "ERR")
             /\ UNCHANGED <<reader, stream>>

\* The bytes the application sends next, and the object once n of them are stored.
Supply(n) == [i \in 1 .. n |-> lob.confirmed + i]
Stored(n) ==
    LET d == server.open[lob.lofd]
        old == server.data[d.object]
    IN [server EXCEPT !.open[lob.lofd].pos = d.pos + n,
                      !.data[d.object] = SubSeq(old, 1, d.pos) \o Supply(n)
                                         \o SubSeq(old, d.pos + n + 1, Len(old))]

\* sqli_sblob_write of n > 0 bytes: the header announces no more than an int32,
\* the server stores what was announced.  w is the status and the server after it.
Writes(n) ==
    LET announced == Least(n, MaxInt32)
        acks == {<<Tok("LODATA", announced)>> \o t : t \in Trailers}
        nack == {<<Tok("LODATA", -1), Tok("EOT", 0)>>}
    IN {[status |-> WriteReply(r).status, server |-> Stored(announced)] : r \in Arriving(acks)}
       \cup {[status |-> WriteReply(r).status, server |-> server] :
                r \in Arriving(Refusals \cup (IF "refuse" \in Faults THEN nack ELSE {}))}
       \cup (IF "link" \in Faults       \* while the chunks are being sent
             THEN {[status |-> "IO_ERROR", server |-> Stored(k)] : k \in 0 .. announced - 1}
             ELSE {})

LobOpen == lob.exists /\ lob.open
Fits(n) == lob.confirmed + n <= MaxBytes

\* sqli_sblob_write_buffer.
WriteBuffer ==
    /\ Ready /\ lob.exists
    /\ UNCHANGED <<conn, reader, stream, lost>>
    /\ \/ ~lob.open /\ Outcome("INVALID_STATE") /\ UNCHANGED <<server, lob>>
       \/ /\ lob.open
          /\ \E n \in Capacities \ {0} : Fits(n) /\ \E w \in Writes(n) :
                /\ server' = w.server /\ Outcome(w.status)
                /\ lob' = IF w.status = "OK" THEN [lob EXCEPT !.confirmed = @ + n] ELSE lob

StartStream ==
    /\ Ready /\ LobOpen
    /\ stream' = [on |-> TRUE, total |-> 0] /\ Outcome("OK")
    /\ UNCHANGED <<conn, server, lob, reader, lost>>

\* Mutant: what the reader supplied is counted before it is confirmed.
ProgressSupplied(total, n, status) == total + n

\* Progress after a write: only what it reported.
Progress(total, n, status) == IF status = "OK" THEN total + n ELSE total

\* One turn of sqli_sblob_write_stream's loop: the callback supplies some bytes
\* and they are written.
StreamMore ==
    /\ stream.on
    /\ \E n \in (Capacities \ {0}) \cap 1 .. ChunkSize : Fits(n) /\ \E w \in Writes(n) :
          LET total == Progress(stream.total, n, w.status)
          IN /\ server' = w.server /\ Outcome(w.status)
             /\ stream' = [on |-> w.status = "OK", total |-> total]
             /\ lob' = [lob EXCEPT !.confirmed = @ + (total - stream.total)]
    /\ UNCHANGED <<conn, reader, lost>>

\* The callback ends the stream, fails or claims more than its buffer holds.
StreamEnd ==
    /\ stream.on
    /\ \E status \in {"OK", "ABORTED", "ERR"} : Outcome(status)
    /\ stream' = [stream EXCEPT !.on = FALSE]
    /\ UNCHANGED <<conn, server, lob, reader, lost>>

\* A close of descriptor d: sqli_sblob_close.
CloseQuery(d, q) ==
    /\ server' = IF q.done THEN ClosedAt(server, d) ELSE server
    /\ Outcome(q.status)

\* sqli_sblob_close_created forgets the descriptor before it closes it.
CloseCreated ==
    /\ Ready /\ lob.exists
    /\ UNCHANGED <<conn, reader, stream>>
    /\ \/ ~lob.open /\ Outcome("OK") /\ UNCHANGED <<server, lob, lost>>
       \/ /\ lob.open
          /\ lob' = [lob EXCEPT !.open = FALSE, !.lofd = -1]
          /\ \E q \in QueryResults :
                /\ CloseQuery(lob.lofd, q)
                /\ lost' = IF q.done THEN lost ELSE lost \cup {lob.lofd}

\* Mutant: the locator is forgotten whatever the answer.
ReleasedBlindly(q) == [lob EXCEPT !.open = FALSE, !.lofd = -1, !.locator = 0]

\* sqli_sblob_release: closes an open descriptor whatever that comes to, then asks
\* the server, which refuses an object that is referenced or open elsewhere.
ReleasedLob(q) ==
    IF q.status = "OK" THEN [lob EXCEPT !.open = FALSE, !.lofd = -1, !.locator = 0]
    ELSE [lob EXCEPT !.open = FALSE, !.lofd = -1]

Release ==
    /\ Ready /\ lob.exists
    /\ UNCHANGED <<conn, reader, stream>>
    /\ \/ lob.locator = 0 /\ Outcome("INVALID_STATE") /\ UNCHANGED <<server, lob, lost>>
       \/ /\ lob.locator # 0
          /\ \E c \in QueryResults, q \in QueryResults :
                LET closing == lob.open
                    after   == IF closing /\ c.done THEN ClosedAt(server, lob.lofd) ELSE server
                    busy    == \E d \in DOMAIN after.open : after.open[d].object = lob.locator
                    broken  == closing /\ c.status = "IO_ERROR"
                    answer  == IF broken THEN [status |-> "IO_ERROR", done |-> FALSE]
                               ELSE IF busy /\ q.done THEN [status |-> "ERR", done |-> FALSE]
                               ELSE q
                IN /\ server' = IF answer.done
                                THEN [after EXCEPT !.data = Without(@, lob.locator)] ELSE after
                   /\ lob' = ReleasedLob(answer)
                   /\ lost' = IF closing /\ ~c.done THEN lost \cup {lob.lofd} ELSE lost
                   /\ Outcome(answer.status)

\* sqli_sblob_destroy; the application closes or releases first, or gives the
\* connection up.
DestroyLob ==
    /\ lob.exists /\ ~stream.on
    /\ ~lob.open \/ conn.state # "READY"
    /\ lob' = NoLob /\ Outcome("OK")
    /\ UNCHANGED <<conn, server, reader, stream, lost>>

---------------------------------------------------------------------------
(* Readers                                                                 *)

\* sqli_sblob_reader_open, through sqli_sblob_open.
ReaderOpen ==
    /\ Ready /\ ~reader.exists /\ lob.exists /\ Unused # {}
    /\ UNCHANGED <<conn, lob, stream>>
    /\ \/ lob.locator = 0 /\ Outcome("INVALID_STATE") /\ UNCHANGED <<server, reader, lost>>
       \/ /\ lob.locator \in DOMAIN server.data
          /\ \E q \in QueryResults :
                /\ server' = IF q.done THEN Opened(server, NextUnused, lob.locator) ELSE server
                /\ reader' = IF q.status = "OK"
                             THEN [exists |-> TRUE, descriptor |-> NextUnused,
                                   object |-> lob.locator, open |-> TRUE]
                             ELSE reader
                /\ lost' = IF q.done /\ q.status # "OK" THEN lost \cup {NextUnused} ELSE lost
                /\ Outcome(q.status)

\* SQ_LODATA reads of descriptor d, moved by offset first: what is left of the
\* object, what the library makes of the reply, and the server's new position.
Reads(d, offset, capacity) ==
    LET at   == server.open[d].pos + offset
        all  == server.data[server.open[d].object]
        rest == SubSeq(all, at + 1, Len(all))
        n    == Least(Len(rest), Least(capacity, MaxInt32))
        good == {[read |-> ReadReply(r, capacity), owed |-> SubSeq(rest, 1, n), pos |-> at + n] :
                    r \in Arriving(DataReplies(rest, n))}
        bad(replies) == {[read |-> ReadReply(r, capacity), owed |-> <<>>,
                          pos |-> server.open[d].pos] : r \in Arriving(replies)}
    IN IF at \notin 0 .. Len(all) THEN bad({<<Tok("ERR", 0), Tok("EOT", 0)>>})
       ELSE good \cup bad(Refusals)

Delivered(read, owed) ==
    [exact |-> read.status = "OK" => read.data = owed, left |-> read.left]

TakeRead(d, r) ==
    /\ server' = [server EXCEPT !.open[d].pos = r.pos]
    /\ last' = Delivered(r.read, r.owed)
    /\ suspect' = Failed(r.read.status)

\* sqli_sblob_reader_read and reader_read_seek; offset 0 is the plain read.  More than
\* an int32 can announce is refused.
ReaderRead ==
    /\ Ready /\ reader.exists
    /\ UNCHANGED <<conn, lob, reader, stream, lost>>
    /\ \/ ~reader.open /\ Outcome("INVALID_STATE") /\ server' = server
       \/ /\ reader.open /\ \E capacity \in Capacities : capacity > MaxInt32
          /\ Outcome("OUT_OF_RANGE") /\ server' = server
       \/ /\ reader.open /\ reader.descriptor \in DOMAIN server.open
          /\ \E capacity \in Capacities \cap 1 .. MaxInt32, offset \in Offsets \cup {0} :
             \E r \in Reads(reader.descriptor, offset, capacity) : TakeRead(reader.descriptor, r)

\* Mutant: a reader is forgotten before its close is known to work, as an upload
\* handle is.
ReaderForgotten(status) == [reader EXCEPT !.open = FALSE, !.descriptor = -1]

\* A reader stays open when its close fails.
ReaderAfter(status) ==
    IF status = "OK" THEN [reader EXCEPT !.open = FALSE, !.descriptor = -1] ELSE reader

ReaderClose ==
    /\ reader.exists /\ ~stream.on
    /\ UNCHANGED <<conn, lob, stream, lost>>
    /\ \/ ~reader.open /\ Outcome("OK") /\ UNCHANGED <<server, reader>>
       \/ /\ reader.open /\ conn.discarded
          /\ reader' = ReaderAfter("OK") /\ Outcome("OK") /\ server' = server
       \/ /\ reader.open /\ Ready
          /\ \E q \in QueryResults :
                CloseQuery(reader.descriptor, q) /\ reader' = ReaderAfter(q.status)

ReaderDestroy ==
    /\ reader.exists /\ ~stream.on
    /\ ~reader.open \/ conn.state # "READY"
    /\ reader' = NoReader /\ Outcome("OK")
    /\ UNCHANGED <<conn, server, lob, stream, lost>>

\* sqli_result_read_sblob: open, read and close, the last whatever it comes to.
ReadColumn ==
    /\ Ready /\ Unused # {}
    /\ UNCHANGED <<conn, lob, reader, stream>>
    /\ \E o \in DOMAIN server.data, capacity \in Capacities \ {0}, q \in QueryResults :
          LET d == NextUnused
          IN \/ /\ q.status # "OK" /\ Outcome(q.status)
                /\ server' = IF q.done THEN Opened(server, d, o) ELSE server
                /\ lost' = IF q.done THEN lost \cup {d} ELSE lost
             \/ /\ q.status = "OK"
                /\ \E n \in {Least(Len(server.data[o]), Least(capacity, MaxInt32))}, c \in QueryResults :
                   \E r \in Arriving(DataReplies(server.data[o], n) \cup Refusals) :
                      LET read   == ReadReply(r, capacity)
                          closed == ~Failed(read.status) /\ c.done
                      IN /\ server' = IF closed THEN server ELSE Opened(server, d, o)
                         /\ lost' = IF closed THEN lost ELSE lost \cup {d}
                         /\ last' = Delivered(read, SubSeq(server.data[o], 1, n))
                         /\ suspect' = (Failed(read.status) \/ Failed(c.status))

---------------------------------------------------------------------------
(* The connection                                                          *)

\* The server ends a session: its descriptors are gone.
SessionEnds(s) == [s EXCEPT !.open = <<>>]

\* The routine handle after the connection is closed or discarded.
RoutineAfterClose == 0

Discard ==
    /\ conn.state # "CLOSED" /\ ~conn.discarded /\ ~stream.on
    /\ conn' = [state |-> "ERROR", discarded |-> TRUE, routine |-> RoutineAfterClose]
    /\ server' = SessionEnds(server) /\ lost' = {} /\ Outcome("OK")
    /\ UNCHANGED <<lob, reader, stream>>

Close ==
    /\ conn.state = "READY" /\ ~stream.on
    /\ conn' = [conn EXCEPT !.state = "CLOSED", !.routine = RoutineAfterClose]
    /\ server' = SessionEnds(server) /\ lost' = {} /\ Outcome("OK")
    /\ UNCHANGED <<lob, reader, stream>>

\* sqli_connect again, by an application that has let go of its handles.
Reconnect ==
    /\ conn.state = "CLOSED" /\ ~lob.exists /\ ~reader.exists
    /\ server.session < MaxSessions
    /\ conn' = [conn EXCEPT !.state = "READY"]
    /\ server' = [server EXCEPT !.session = @ + 1]
    /\ suspect' = FALSE /\ last' = Quiet
    /\ UNCHANGED <<lob, reader, stream, lost>>

\* A call on a connection that is closed or discarded.
Unready ==
    /\ conn.state # "READY" /\ (lob.exists \/ reader.exists) /\ ~stream.on
    /\ Outcome("INVALID_STATE")
    /\ UNCHANGED <<conn, server, lob, reader, stream, lost>>

Next ==
    \/ Create \/ WriteBuffer \/ StartStream \/ StreamMore \/ StreamEnd
    \/ CloseCreated \/ Release \/ DestroyLob
    \/ ReaderOpen \/ ReaderRead \/ ReaderClose \/ ReaderDestroy \/ ReadColumn
    \/ Discard \/ Close \/ Reconnect \/ Unready

Spec == Init /\ [][Next]_vars

---------------------------------------------------------------------------
(* Properties                                                              *)

\* What has been reported as written is what the object holds, byte by byte and in
\* order, and while the session is sound it holds nothing else: the progress of
\* sqli_sblob_write_stream and the OK of write_buffer count what was stored, over
\* retries after refused writes and streams broken off by their callback.
ConfirmedStored ==
    lob.exists /\ lob.locator \in DOMAIN server.data =>
        LET data == server.data[lob.locator]
        IN /\ lob.confirmed <= Len(data)
           /\ ~suspect => lob.confirmed = Len(data)
           /\ \A i \in DOMAIN data : data[i] = i

\* A read that succeeds delivers exactly the bytes behind the descriptor's position,
\* however the server cuts them into chunks, and a session in which no transport or
\* protocol failure was met has no unread bytes that the next call would take for
\* its own reply.
ReadsTruthful ==
    /\ last.exact
    /\ ~suspect => last.left = <<>>

\* In a sound session the handles the library calls open are open on the server, on
\* the object they were opened for and each on its own descriptor; and every
\* descriptor of the server is held by a handle unless closing it failed: the
\* cached routine handle and the descriptors never outlive their connection.
DescriptorsKnown ==
    conn.state = "READY" /\ ~suspect =>
        LET held == (IF lob.exists /\ lob.open THEN {lob.lofd} ELSE {})
                    \cup (IF reader.exists /\ reader.open THEN {reader.descriptor} ELSE {})
        IN /\ DOMAIN server.open = held \cup lost
           /\ held \cap lost = {}
           /\ lob.exists /\ lob.open => server.open[lob.lofd].object = lob.locator
           /\ reader.exists /\ reader.open =>
                 /\ server.open[reader.descriptor].object = reader.object
                 /\ ~(lob.exists /\ lob.open /\ lob.lofd = reader.descriptor)

\* A handle gives its locator up only when the server has released the object; a
\* release refused or broken off leaves the object within reach.
ReleaseTruthful ==
    [][lob.locator # 0 /\ lob'.exists /\ lob'.locator # lob.locator
          => lob'.locator = 0 /\ lob.locator \notin DOMAIN server'.data]_vars
=============================================================================
