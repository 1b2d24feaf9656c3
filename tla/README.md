# TLA+ models of libsqli

libsqli (src/) is a C11 client library for the Informix SQLI protocol: it
connects, authenticates, runs direct and prepared statements, delivers rows
with typed getters, pools connections, cancels running statements and moves
large objects.  This directory models two sorts of code: that whose correctness
depends on the *order* of events, on what several threads, the network and the
server do between its lines, and the pure code through which every value goes,
whose correctness depends on *boundaries*.  TLC checks the models on small
instances; TLAPS proves the safety of the pool and of cancellation handles for
every instance.

Line numbers below are of the files under `src/src/` unless another path is
given.

## 1. Inventory

### Components, their state and operations

| Component | State | Operations | Correct when |
|---|---|---|---|
| Connection pool (`sqli_pool.c`) | slots `{conn, in_use}`, `shutting_down`, one mutex and condition variable | create, acquire (blocking, timed, try), release, destroy | a connection is lent to one borrower; no slot, object or socket is lost by a failure; waiters are woken; destruction is refused while anything is lent |
| Connection and lifecycle word (`sqli_conn.c`, `sqli_internal.h`) | socket, state machine, atomic PINNED / DISCARDED / RELEASED bits, transaction flags, epochs, error information, `read_buf` | create, connect, close, discard, destroy, pin, release | close and destroy are refused while pinned; a discarded connection is never used again |
| Cancellation handles (`sqli_cancel_posix.c`) | state, pinned connection, request and send marks, outcome, under the handle's mutex | register, arm, request, finish | the urgent byte hits the statement it is meant for and no other; the outcome never says more than is known |
| Result cursor (`sqli_result.c`) | retained rows, position, flags before-first / after-last, fetch status, epochs at creation | fetch, checked fetch, previous, first, last, absolute, relative | the row delivered is the row the position names; EOF means all rows were seen; an error is not lost |
| Transactions (`sqli_transaction.c`) | `in_transaction`, `autocommit`, epochs, isolation level | begin, commit, rollback, savepoints, mode, isolation, automatic begin | the flags are the server's |
| Direct queries (`sqli_query.c`) | the result under construction | prepare, begin, open/fetch/close or execute, tail, release | an OK was earned by every request; no statement is left behind |
| Prepared statements (`sqli_prepare.c`) | statement number, parameters, cursor, batch | prepare, bind, execute, fetch, batch, close | as above, over the life of the statement |
| Response dispatch (`sqli_dispatch.c`) | the group being read | read one group of reply tokens | replies and requests stay in step |
| Batches (`sqli_batch.c`) | `in_batch` | begin, execute, end | a failed batch leaves no batch open |
| Smart large objects (`sqli_sblob.c`) | cached routine handle, open descriptor, progress, outcome | create, upload, reader, column read, close, release | progress is what the server has stored; a read delivers the bytes owed and no others; an object counts as given up only if it is |
| Handshake (`sqli_handshake.c`, `sqli_asc.c`) | phase, negotiated capabilities, error class, `read_buf` | connect, close, retry advice | a failure leaves nothing behind; a ready connection is complete; a repetition advised can succeed and repeats no work |
| Transports (`sqli_tcp_posix.c`, `sqli_unix_posix.c`) | descriptor | connect, read, write, peek, close, discard | a connection uses its own descriptor and session |
| TLS registry (`sqli_tls.c`) | table of sessions by descriptor, one mutex | create, attach, detach, lookup, discard | a descriptor names one session, its own |
| Descriptors (`sqli_descriptor.c`, `sqli_dispatch.c` 300-760) | columns, reference count | read a frame, publish, share, release, getters | freed once, by the last user; what it says is what the server declared |
| Prepared parameters (`sqli_prepare.c` 900-1420) | slots, batch rows | bind calls, clear, batch add, write the request | the server reads every parameter as it was bound |
| Decimals (`sqli_decimal.c`, `sqli_decimal_codec.c`) | limbs, scale, sign | assign, parse, print, rescale, compare, wire codec | a number stays the same number or is refused |
| Temporal values (`sqli_temporal.c`, `sqli_temporal_codec.c`) | fields, qualifier | validate, parse, print, wire codec, Unix time | as above; the calendars agree |
| Typed getters (`sqli_result_value.c`, `sqli_scalar.c`) | cached row layout | integer, boolean, floating, byte, string, stream | every getter tells the truth about its column, NULL included |
| Connection strings (`sqli_uri.c`, `sqli_sqlhosts.c`) | buffers of fixed size | parse, overriding, lookup | server, user and options are those that were meant |
| Wire encoding, type names, message catalogue, logs, tools | none, or tables and text | | not modelled |

### Interactions

* The pool calls the connection's create, connect, close and destroy, the last
  ones *outside* its mutex when it replaces a dead connection.
* Pool and cancellation handles meet in `conn->lifecycle`: a handle pins the
  connection with one compare-and-swap, release marks it with another, and
  discarding it makes the pool replace it.
* Everything a session does goes through the dispatcher, which decides that a
  reply is over by looking at what has arrived.  What one call leaves unread
  the next call reads.
* Results remember the transaction epochs; commit and rollback invalidate them.
* The TLS registry knows connections by their descriptor only, which the kernel
  hands out again as soon as another thread has closed it.
* A result shares its column descriptor with every snapshot the application
  took, in whatever threads hold them.

### What is hard here

* *Threads*: reconnection outside the pool mutex; timed waits on a shared
  condition variable; requests of cancellation at any time.
* *Failure*: disposal that fails in the middle of a release or destruction,
  refetches that fail after some rows, statements refused after the implicit
  BEGIN was accepted, peers that close.
* *Ordering and timing*: replies in several groups, replies that arrive in
  parts, a cancellation that crosses the response.
* *Staleness*: connection pointers kept after a release, addresses and
  descriptors reused by allocator and kernel, windows of rows that no longer
  follow the position.
* *Boundaries*: buffers that end inside a token, padding, carries into the
  sign, NULL sentinels, escapes cut by a buffer of fixed size.

`PROJECT.json` lists every hazard at its line, with the properties that cover
it or the reason none does.

## 2. Modules

| Module | Models | Kind |
|---|---|---|
| `Conn` | `struct sqli_conn` as pool and handles see it | operators: each function as the set of records it may leave |
| `Lease` | what a pool promises | abstract specification |
| `Pool` | `sqli_pool.c` | one action per stretch of code under the mutex |
| `Cancel` | `sqli_cancel_posix.c`, `sqli_execute_cancelable` | handles, execution threads, servers |
| `PoolCancel` | Pool and Cancel over one set of connections | composition |
| `Scroll` | what a positioned result promises | abstract specification |
| `ResultCursor` | `sqli_result.c` navigation | operations as relations on the struct |
| `Session` | transactions, direct queries, prepared statements, dispatch | one connection, the network and the server |
| `LargeObject` | `sqli_sblob.c` | one connection, the server, every way to cut a reply |
| `Transport` | TLS registry and socket files | steps of the calls every connection makes, over shared tables |
| `Handshake` | `sqli_connect`, `sqli_close`, retry advice | extends `Transport`; two connections of one process |
| `Exact` | what a decimal number is | abstract specification |
| `Decimal`, `DecimalCodec`, `Decimals` | the decimal type, its wire form, walks through both | operators; state machine |
| `Temporal`, `TemporalCodec`, `Calendar`, `Temporals` | DATE, DATETIME, INTERVAL; calendars; walks | operators; state machine |
| `Rows` | row layout and getters | operators, state machine |
| `Binding` | parameters, batch rows, bind request and its reader | state machine |
| `Describe`, `Snapshot` | DESCRIBE frames; shared descriptors | operators; threads |
| `Reception` | one reply through `read_buf`, byte by byte | state machine |
| `ConnectUri`, `Sqlhosts` | destinations, the sqlhosts file | state machines |
| `Prepared` | rows, parameters and descriptors in one specification | composition |
| `Values` | extends `Prepared` with decimals, temporals, the calendar, replies and addresses | composition |
| `Pool_proofs`, `Cancel_proofs`, `PoolCancel_proofs` | theorems about `Pool`, `Cancel` and the two together | proofs |
| `ResultCursor_proofs`, `Handshake_proofs` | theorems about `ResultCursor`, and about `Handshake` over `Transport` | proofs |
| `Session_proofs` | theorems about `Session`, also with late replies and lost connections | proofs |
| `LargeObject_proofs` | theorems about `LargeObject` | proofs |
| `Prepared_proofs` | theorems about `Prepared`: descriptors, rows, requests | proofs |
| `MCPool`, `MCPoolCancel`, `MCResult`, `MCLargeObject`, `MCHandshake`, `MCValues` | symmetry sets and inputs for TLC | |

### Pool

`conn[a]` is the object at address `a`: the code finds a slot by comparing
pointers (line 326), so identity is the address and `free`/`calloc` may reuse
it.  `slot` is the array, `phase` the life of the pool, `pc[t]` where a thread
is, `lease[t]` and `at[t]` what it has borrowed and from which slot.

* Every stretch from `pthread_mutex_lock` to the next unlock, wait or return is
  one action; the mutex is therefore not a variable.
* `ensure_slot_connected` runs unlocked and is split where another thread can
  see the slot: `reconnect`, `dangling` (freed, pointer still there, lines
  121-122), `connect`, `connected` / `unconnected`.
* A waiter is `waiting` until signalled (`woken`), wakes up spuriously, or its
  deadline passes; `TimeoutConsumes` says whether an expiring wait may swallow
  a signal sent at the same moment, which POSIX permits.
* `ReuseDangling` says whether the allocator may return an address that a slot
  still names during those two lines.
* Borrowers close, discard, pin and unpin their connection, as an application
  and the cancellation handles do.  Release may fail in its disposal and leaves
  the lease with the caller; destruction is refused while leases are out,
  refuses acquirers once begun and is resumed after a failed disposal.

### Cancel and PoolCancel

Each connection has one execution thread; requests come from other threads at
any time.  The handle's mutex is held in every action on it and never across
statement input or output, so the actions are the code's critical sections:
registration (pin), writing the statement, arming, sending the urgent byte,
reading the response, finishing (unpin, discard, outcome).  The server executes
one statement at a time; an urgent byte interrupts what is being executed when
it arrives, or whatever comes next.  `PoolCancel` instantiates both modules
over the same `conn`; a replaced connection is a new session.  Its property
`PoolImplemented` is the pool's own specification: the handles are no more than
what `Pool` assumed of a borrower.

### ResultCursor and Scroll

The buffer is described by the server rows it holds (`lo`, `count`).  Each
operation is the set of results the C function may return, since a refetch
fails in several ways.  `Scroll` is the reader's view: a size, a position and
the row last delivered; `ScrollService` maps the struct's position to it.

### Session

One thread uses a connection, so a call runs from one blocking read to the next
in a single step; `pc` is the request whose reply is awaited, or a tail being
drained.  `inbox` is what has arrived and is unread (socket and `read_buf`),
`flight` what has not arrived, `pending` what the server has yet to process.
`grp` is the group `sqli_receive_dispatch` is reading.  `server` is external: it
accepts or refuses each request in turn, changes transactions only on request,
leaves the transaction open when it refuses to end it, and may owe a second
group after a statement that changes data (large objects, lines 258 ff. of
`sqli_query.c`).  It also has the cursors: an OPEN of an open cursor and a FETCH
of a closed one are refused; a rollback closes every cursor, a commit those
opened without hold.

The network delivers everything sent at once, or, with
`split`, in pieces some milliseconds apart: longer than the wait of
`receive_done` (none) and the one after an EOT (1 ms), shorter than the polls
after an error (50 ms) and in a tail (20 ms).
After an I/O error the application gives the session up, as
`include/libsqli/sqli.h:985` advises.

`stmt` is the one prepared statement of the session.  Its cursor is known to the
library only as a guess: `open` together with the epochs at which it was opened
and the connection's holdability (`sqli_stmt_close_cursor_if_open`).  Executing
it closes the old cursor first, and a failed execution closes the one it opened.
A statement batch is a sequence of executions, one per row; a row whose failure
is taken for the server's refusal becomes an item in error and the batch goes
on.  What decides is `saw_error`, a flag of the shared result that an execution
sets only once its own reply is read, so that a failure before it (a lost
connection, a refused BEGIN) is judged by the flag of an earlier execution.
`outstanding` counts the requests of a call that were neither accepted nor
reported in an item.

### LargeObject

One thread uses the connection; a call is one step, except that
`sqli_sblob_write_stream` returns to the application's callback between writes.
A reply is a sequence of tokens, and where the link breaks only a prefix
arrives.  A byte is the number of its place in the object, so delivering the
wrong byte, padding or a byte of another chunk shows.  The client's bookkeeping
(cached routine handle, descriptor, progress) is compared with what the server
holds.  The connection may close, be discarded and connect again; the
application drops the handles of an earlier session, as it must.

### Transport and Handshake

Sockets, the process-wide table of TLS sessions and the address list of
`getaddrinfo` are shared; every read, write and peek looks its session up, drops
the registry's mutex and uses it afterwards, turn by turn, so two connections
interleave between lookup and use.  `Handshake` runs `sqli_connect` phase by
phase against a server that accepts, refuses, asks for PAM or breaks off at any
step, and leaves through the single exit that closes the socket.  `sqli_close`
and discard take the TLS session out of the table before the descriptor goes
back to the kernel; the mutant that swaps the two breaks `OwnSession`.

The registry's mutex may fail (`"sync" \in Faults`).  A discard then keeps
descriptor and session (`DiscardFails`) and may be repeated by `sqli_close` or
`sqli_destroy`; `sqli_destroy` frees the object whatever came of it (`Replace`).
A close goes on without having detached the session (`DetachFails`).  What no
object names any more belongs to `Lost`: the kernel and the registry still have
it, and the number of a descriptor that was closed is handed out again.

Behind the answers to SQ_INFO and SQ_DBOPEN more tokens may come.  The library
looks once, without waiting.  `srv[c].unread` says what the server has sent and
nobody has read: `"sent"` in a packet of its own, which the look finds or misses
because it is still under way (`Missed`, remembered in `srv[c].late`), or
`"buffer"`, in the packet of the group before it, where nobody looks.  A group
missed behind SQ_INFO is what the dispatch after SQ_DBOPEN reads first, and may be
taken for its answer (`Mistaken`).  A rejection with svcError = 0 is
`assoc = "rejected"`: the call goes on, and an answer to SQ_PROTOCOLS shows
that the server has an association after all.

### Values and Prepared: the pure code

`Prepared` is about what a prepared statement exchanges with its client: rows,
parameters and descriptors.  `Values` extends it with six more subjects (decimals,
temporals, the calendar, replies, URIs, the sqlhosts file).  Each behaviour is
about one subject and leaves the rest of the state alone: the subjects share a
run, not a state.  A step of `Values` is therefore a step of `Prepared` or leaves
the variables of `Prepared` unchanged, and what is proved of `Prepared`, for any
`Subjects`, is what run `values` checks.

* *Decimals.*  `Decimal` and `DecimalCodec` are operators on limbs and wire
  bytes, one per C function, returning status and value.  `Decimals` is an
  application that moves one object through all of them.  `Exact` knows only
  coefficients and scales; `DecimalExact` says that the object implements it:
  nothing is rounded, a refusal says why and changes nothing.
* *Temporals* do the same for DATETIME and INTERVAL; `Calendar` walks day by day
  through the three calendars of the library and through the Unix time
  conversions.
* *Rows.*  A server writes a row by its own layout, the client places the
  columns and every getter is asked for every column.  Bytes have `Base` values
  instead of 256, with one sentinel per type.
* *Binding.*  The application binds, clears, adds to the batch; `sent` is the
  request, and a reader that knows only the protocol takes it apart.
* *Describe and Snapshot.*  Frames are written for declared columns, possibly cut
  or with tables that lie; threads retain, release and hand over the descriptor
  in every interleaving, and `heap` catches a use after the free.
* *Reception* reads a reply byte by byte through a buffer of each size, with the
  refills, look-aheads and the row arena of the code.
* *ConnectUri* writes a destination by RFC 3986 (escaping thoroughly or
  sparingly), takes it apart through buffers of fixed size and compares what
  `sqli_connect` is called with.  *Sqlhosts* reads a file line by line with
  buffers that keep their content.

## 3. Runs

### Passing

| Run | Bounds | Properties | Shows |
|---|---|---|---|
| `pool` | 2 slots, 3 threads, 3 addresses, 2 calls each | `LeaseExclusive`, `SlotKept`, `NoLeak`, `LeaseIsFresh`, `LeaseService` | leases are exclusive and every slot, object and socket is accounted for under all interleavings; implements `Lease` |
| `pool_live` | 1 slot, 3 threads, 1 address, no symmetry | `NoStrandedWaiter`, `AcquireReturns` | a free slot and a sleeping waiter never coexist without a wake-up on its way; every acquire returns |
| `cancel` | 2 connections, 2 handles | `OutcomeTruthful`, `NoStrayInterrupt`, `RequestActedUpon`, `ActiveEnds` | outcomes are what happened on the server, an urgent byte hits its own statement only, a request is acted upon once, every execution ends |
| `pool_cancel` | 1 slot, 2 threads, 2 addresses, 1 call, 2 handles, no timeouts | `LeaseUnharmed`, `PoolImplemented` | the same when leases change hands and addresses are reused |
| `result` | results of up to 3 rows, windows of 1-2, every target and offset | `RowNumberTruthful`, `EofMeansExhausted`, `FailureSticks`, `ScrollService` | row numbers, EOF, errors and invalidation are truthful; implements `Scroll` |
| `session` | 3 calls that reach the server, all statements and levels; faults close, late | `OkMeansDone`, `InStep`, `MirrorTruthful`, `SelectReleased`, `WorkInTransaction`, `CallReturns` | an OK was earned, flags are the server's, replies stay in step, SELECTs release, every call returns |
| `session_prepared` | 5 calls on one prepared statement, batches of 2 rows, cursors with and without hold; fault close | `OkMeansDone`, `CursorKnown` | an open cursor is always known and never opened twice, a batch reports each row that was not accepted |
| `lobs` | objects of up to 2 bytes, chunks of up to 2, buffers of 1 to 3 where a header announces at most 2, 2 descriptors, 2 sessions; faults link, refuse, malformed | `ConfirmedStored`, `ReadsTruthful`, `DescriptorsKnown`, `ReleaseTruthful` | progress is stored, reads deliver what is owed, descriptors are lost only by a failed close, given up means released |
| `connect` | 2 connections, 2 descriptors, 2 TLS sessions, 2 addresses per name, TCP and Unix, 1 connect and 1 PAM prompt each, a mutex that may fail in close, discard and destroy | `OwnSession`, `NothingLeft`, `ReadyTruthful`, `AdviceSound` | no I/O through another's session, nothing left behind, a ready connection is complete, the retry advice is sound; the four exceptions are named below |
| `values` | below | `NativeExact`, `ReplyTruthful`, `AddressTruthful`, `ColumnsPlaced`, `MessageFits`, `ValuesTruthful`, `SnapshotTruthful` | values, replies and addresses stay what they were or are refused; rows and getters stay within their bytes and tell the truth, requests fit their buffers and are understood, descriptors live as long as their holders |

`connect` is the largest (3.0 million distinct states, 11.1 million generated);
`values` has 0.7 million (4.2 million generated).

Several properties are conjunctions, so that a run states one thing:
`NoStrayInterrupt` is `InterruptedOnRequest`, `ReusableIsClean` and
`NoInterruptWhileSending`; `LeaseUnharmed` is the handle's lease, the requested
interrupts and clean leases; `RowNumberTruthful` includes that only valid rows
are delivered; `FailureSticks` that invalidation is for good; `CursorKnown` that
no cursor is opened twice; `SlotKept` is `SlotOwned` and `ShutdownIsQuiet`;
`NativeExact` is `DecimalExact`, `TemporalExact` and the calendars;
`ValuesTruthful` is `RowTruthful` and `BindTruthful`; `SnapshotTruthful` includes
that frames are read as they were written; `AddressTruthful` URIs and the sqlhosts file.

What the properties exempt, because the code does it otherwise and the
exception is deliberate or listed below, is named by an operator of its own:
`Misfit` (Binding), `Mistakable` (Rows), `SplitLookAhead` (Reception), `Fits`,
`PathSurvives` and `UserSurvives` (ConnectUri), and the options a line of
sqlhosts does not give.  In `Handshake`: `LeftBehind` and `Lost` (what a failing
mutex leaves in `sqli_tcp_close` and `sqli_destroy`), `late` and `"buffer"` (groups
the look misses) and `RejectedSoftly`.

### Why the bounds suffice

Three threads are a borrower, a waiter and a third that
overtakes or closes; two slots allow the address of one to reappear in the
other; two calls per thread let a lease come back to the same thread.  Two
handles make one the stale predecessor of the other on the same connection.
Three rows with windows of at most two have a window at the start, in the
middle and at the end.  Three calls are open / work / end, or work, the
transaction it began, and its end, with a fault at any of their requests;
rejected calls and changes of mode are not counted.  Five calls on a prepared
statement are prepare, execute, commit or rollback, execute again and close;
two rows are the first a batch fails at and the one it goes on with.  The kinds
begin, commit and rollback are prepared too, since they end a transaction
through `sqli_track_transaction_statement` rather than a call.

Two bytes make the odd and the even chunk, one chunk and two, and a buffer that
is too small; two descriptors are the object's and a reader's.  Two connections
over two descriptors are the one that closes and the one that is given its
number; the second address is tried when the first fails.

The widths of `values` are scaled down so that every boundary is crossed by
small numbers: limbs of two digits and numbers of five make three limbs with a
carry through all of them; `I64Max` = 327 is no power of ten, as the real limit;
three groups with bias 2 reach both ends of the exponent.  The walk of 450 days
starts at eight anchors (the ends of the range, both sorts of century, 1899 and
1970).  Bytes of base 8 and two columns let each length prefix, sentinel and
flag appear next to each other; lengths of two bytes make the second one count.
Replies are read with buffers of 2 to 24, 29, 31 and 100 bytes, so that every
token is cut at every place.  Descriptors have up to three references, two
threads and two addresses.  URI components of twelve symbols fit just, or not,
and a sqlhosts file has up to three of nine lines.

Deadlock checking is off where the system may rest: pools that are destroyed,
handles that are used up, results without a next call, sessions out of calls,
connections that have connected as often as they may, objects released.
`ActiveEnds`, `AcquireReturns` and `CallReturns` say that nothing stops in the
middle.

### Disagreements with the documentation

Each of these runs checks the one property its title gives and ends in a
counterexample.

* `result_relative` (`RowNumberTruthful`): a relative move before the first row
  keeps the window, and the next row is numbered from its start.
* `session_split` (`OkMeansDone`): an EOT that arrives milliseconds after its
  DONE is read by the next call as its answer; COMMIT returns `SQLI_OK` before
  the server has processed it.

### Other defects met while modelling

They have no run of their own; the passing runs leave them out as described.

Pool:

* Between freeing the old connection and clearing the slot's pointer (lines
  121-122) the allocator may give its address to another slot, and a release by
  pointer finds the wrong one.  `LeaseExclusive` fails with
  `ReuseDangling = TRUE`; runs and proofs assume `FALSE`.
* A waiter whose deadline passes just as it is signalled returns without looking
  at the slots and strands another waiter (line 308).  `NoStrandedWaiter` fails
  with `TimeoutConsumes = TRUE`.
* A pointer released twice is rejected only until its connection is leased anew
  (`doc/CANCELLATION_API.md:97`); the borrowers of the model do not do it.

Session, dispatch, results:

* Direct statements other than SELECT are never released on the server
  (`sqli_result.c:1154`).
* A receive that times out in the BEGIN of a batch row lets the batch go on if an
  earlier execution left `saw_error` set (`sqli_prepare.c:1638`), after which
  late replies pass for those of later rows.  `session_prepared` leaves `late`
  out of its faults.
* A read buffer that ends inside the opcode behind a DONE or ERR, or inside an
  optional part, leaves bytes of the reply for the next call
  (`sqli_dispatch.c:213`).  `Reception` exempts it as `SplitLookAhead`.
* An error in DESCRIBE that is a limit leaves the rest of the frame unread.
* `sqli_result_stream_bytes` looks its column up by other rules than the row
  cache (`Mistakable`); `sqli_result_get_decimal_string` clamps a negative number
  of fraction digits and truncates scales over 30; a time of more than six
  fraction digits, read from text, gives microseconds over 999999.

Prepared parameters (exempt as `Misfit`):

* A refused `sqli_bind_sblob` has already freed the old value.
* Numbers and locators bound to TEXT or BYTE are sent as empty or ill-formed
  descriptors; strings of 65536 bytes and more are truncated; a text that cannot
  be converted is sent as it is.
* The columns DESCRIBE names are taken for the types of the parameters; a SELECT
  with a large-object parameter announces it and never streams it; question marks
  inside literals count as parameters.
* The length announced and the bytes streamed come from two conversions;
  `sqli_execute` after `sqli_stmt_close` dereferences NULL parameters;
  `sqli_stmt_batch_execute` keeps its rows after a failure.

Connecting:

* `sqli_tcp_close` closes a descriptor whose session it could not detach
  (`sqli_tcp_posix.c:220-228`; `sqli_tls.c:86-91` only logs it).  The session stays
  registered under a number that the kernel hands out again: a connection without
  TLS that is given it reads and writes through that session, one with TLS frees
  it at its attach.  `sqli_tcp_discard` does the opposite on purpose: "Do not
  recycle a descriptor still registered with TLS" (line 239).  `OwnSession` and
  `NothingLeft` except the session (`LeftBehind`).
* `sqli_destroy` frees a connection whose disposal failed (`sqli_conn.c:383`,
  `sqli_handshake.c:1214-1217` only logs it): socket and session leak, against
  "release transport resources too" (`sqli_conn.c:382`).  `NothingLeft` excepts
  what is `Lost`, and requires that nothing is unless the mutex fails.
* A second group after the DBOPEN reply is looked for without waiting
  (`sqli_handshake.c:1136`), although it may come "in the same or subsequent
  packets" (1118-1121).  One in the packet of the first stays in `read_buf`, and
  one that is still under way stays in the socket; the next call takes it for its
  own answer.  If something missed behind SQ_INFO (line 1052) is taken for the
  answer to SQ_DBOPEN, the connection may be ready without an open database.
  `ReadyTruthful` excepts both (`"buffer"`, `late`).
* After a rejection with svcError = 0 the call goes on; if the server then hangs
  up, the error names "the actual rejection" (`sqli_handshake.c:1174-1187`) but
  contains the message of the failed read, classifies as NETWORK
  (`sqli_conn.c:127-139`, 557-561) and a retry is advised.  `AdviceSound` excepts
  these rejections (`RejectedSoftly`).
* A failed PAM exchange leaves no error information and a rejected one the class
  UNKNOWN; capabilities of an earlier session survive a short reply;
  transaction flag, mode, isolation and batch flag are not reset when an object
  connects again; `SSL_shutdown` runs under the registry's mutex.
* URI components are cut at their buffers without a word, the database is not
  percent-decoded, a plain `+` in the user becomes a space; user and password
  are overridden one by one, so that an explicit user goes with the URI's
  password; any value of the option for peer verification but true, yes and 1
  turns it off.
* A sqlhosts line without options has those of an earlier line, and fields that
  are too long continue in the next.

### Fairness

* `Pool.FairSpec`: a thread inside the pool goes on (weak fairness of
  `Acquire` and `Finish`: the operating system schedules it and connecting ends,
  successfully or not, by its timeouts); borrowers give leases back (strong
  fairness of `Release`, since a release may fail in its disposal and be
  repeated).  Nothing is assumed of timed waits expiring: blocked callers must
  be woken by signals.
* `Cancel.FairSpec`: a started execution goes on; a response that never comes
  ends in a receive timeout (`sqli_tcp_posix.c:175-180`).  Requests are not
  fair.
* `Session.FairSpec`: the library runs, the server answers what it was asked,
  what was sent arrives and a closed connection is noticed.  Receive timeouts
  are *not* counted on: that a call returns must not depend on them.
* `LargeObject`, `Handshake` and `Values` state no liveness: within a call their
  code only waits for the socket, and every such wait is bounded.

## 4. Proofs

Every theorem holds for every value of the constants that satisfies the named
`ASSUME`s and the hypotheses its statement gives.  Each rests on an inductive
invariant, which TLC checked on the runs' constants before it was proved, and
on one lemma per action.

### Pool

`Pool_proofs.tla` proves, for every number of slots, threads, addresses and
calls, and, but for the last row, whether or not timeouts consume signals:

| Theorem | States |
|---|---|
| `Invariant` | the inductive invariant `IInv` |
| `TypeCorrect` | `Spec => []TypeOK` |
| `Exclusion` | `Spec => []LeaseExclusive` |
| `SlotsAccounted` | `Spec => []SlotKept` |
| `NothingLeaks` | `Spec => []NoLeak` |
| `PinRespected` | `Spec => []PinnedIsLeased` |
| `ImplementsLease` | `Spec => LeaseService` |
| `FreshLeases` | `Spec => LeaseIsFresh` |
| `NobodyStranded` | `Spec => []NoStrandedWaiter` |

The assumption beside `PoolAssumption` is `~ReuseDangling`: the allocator does
not hand out an address that a slot still names.  It cannot be dropped: with
`ReuseDangling` TLC finds `LeaseExclusive` violated.  `NobodyStranded` assumes
two things more: `~TimeoutConsumes`, without which TLC finds a stranded waiter,
and finitely many threads, since the property counts them.

`LeaseExclusive` is not inductive: that a step keeps it depends on why a slot is
marked in use and where its connection is in a reconnection.  `IInv` adds

* `SlotsDistinct`: two slots never name the same connection;
* `LeaseInSlot`: a borrower's connection is the one in the slot it took;
* `ReconnectStage`: which of slot pointer, object and socket exist at each
  stage of `ensure_slot_connected`;
* `SlotsLive`, `SlotsDisposed`: slots name live objects, except in the stage
  between the free and the assignment; slots of a destroyed pool name none;
* `Lifetime`: what is possible in each phase of the pool.

The proof has one lemma per action, each with a step per conjunct that the
action can disturb, and lemmas about `Conn`'s operators.  `ShutdownIsQuiet`
shows that the branch of acquire that finds `shutting_down` set after a
reconnection is never taken: destruction is refused while a slot is in use.

`FreshLeases` needs to know what stands in a slot under reconnection, while the
mutex is released and other threads take slots, reconnect and give back:
`Remaking` says it is a connection found unusable, or one just made.  Its step
lemmas show that whatever another thread does spares the slot and the
connection (`Spared`).  `NoStrandedWaiter` is inductive together with `IInv`:
an action either frees nothing and wakes nobody up, or frees one slot and moves
one waiter to the woken (`SignalMoved`), or takes a slot and one of the woken
with it; the cardinalities of `Free` and `Woken` follow.

### Cancellation handles

`Cancel_proofs.tla` proves, for every number of handles and connections, from
`CancelAssumption` alone (`Nil` is neither a handle nor a connection):

| Theorem | States |
|---|---|
| `CancelInvariant` | the inductive invariant `IInv` |
| `TruthfulOutcome` | `Spec => []OutcomeTruthful` |
| `NoStray` | `Spec => []NoStrayInterrupt` |
| `ActedUpon` | `Spec => []RequestActedUpon` |

None of the three is inductive.  That an outcome is truthful depends on what the
server had done when the response was read, and that on whose statement the
server executes and whether the connection was replaced since.  `IInv` adds

* `Pinning`: an execution in progress, its active handle and the pin of the
  connection go together, one to one;
* `Requests`: a handle has sent its urgent byte exactly when it is armed and
  asked to cancel, and has disqualified its connection if so;
* `Urgency`: an urgent byte that interrupted nothing yet waits on a
  disqualified connection only, for a statement whose handle sent it;
* `Executing`: a server executes the statement in progress, or one whose outcome
  was given up as UNKNOWN; no statement is executed twice;
* `Stages`: the server's end of a connection at each point of an execution, and,
  when it is about to be finished, what status and SQL code say about the
  effect (`Concluded`).  `OutcomeOf` is right about each case of `Concluded`.

There is one lemma per action; the urgent byte has one of its own
(`InterruptStep`), since it is sent by whoever comes second, the execution thread
that arms a requested handle or the requester of an armed one.  The fairness of
`FairSpec` is not needed.

In `Cancel`, several fields of one record are changed by
`![x] = [@ EXCEPT !.a = ..., !.b = ...]` and never by `![x].a = ..., ![x].b = ...`:
tlapm's SMT encoding of repeated updates at one index is not reliable, nor its
reading of an `@` inside such a nested update.  `FALSE` was tried, and not
proved, from the hypotheses of every step lemma.

The parts `Urgency`, `Executing` and `Stages` speak of live connections only: on
its own the module never frees one, but in the composition below the pool does.

### Pool with handles

`PoolCancel_proofs.tla` instantiates both proof modules over one set of
connections.  From `PoolCancelAssumption` and `~ReuseDangling`:

| Theorem | States |
|---|---|
| `CompositionInvariant` | `PP!IInv /\ CC!IInv`, the invariants of both |
| `ImplementsPool` | `Spec => PoolImplemented` |
| `NoLeaseHarmed` | `Spec => []LeaseUnharmed` |
| `OutcomesStayTruthful` | `Spec => []OutcomeTruthful` of the handles |

The pool's invariant survives the steps of the handles because these are what a
borrower may do (pin, discard and unpin a connection on lease), so that each is
a step of the pool's specification too.  The handles' invariant survives the
steps of the pool because a pinned connection is never freed or reused, so a
replaced connection has no execution (`SessionsKept`, `SessionReplaced`).

### Row cursor

`ResultCursor_proofs.tla` proves, for every size of result and of window,
whatever rows are malformed and whichever refetches fail, from
`ResultAssumption` and `Confined`:

| Theorem | States |
|---|---|
| `IInvHolds` | the inductive invariant `IInv` |
| `NumberAlwaysTruthful` | `Spec => []RowNumberTruthful` |
| `EofAlwaysExhausted` | `Spec => EofMeansExhausted` |
| `FailureAlwaysSticks` | `Spec => FailureSticks` |
| `CursorServes` | `Spec => ScrollService` |

`Confined` leaves out two faults: `pass_start` and `lost_scroll`.  Each is a
defect of the code that breaks these properties, and run `result` leaves them
out for the same reason (section 3).  `IInv` says that a scrollable cursor has
its connection (`Context`), that the buffer is a window of the result
(`Buffer`), that a cursor on a row carries that row's number and the row is
well-formed (`OnRow`), and that one on no row carries none and stands at an end
it can really be at (`OffRow`).  The last is what `EofMeansExhausted` and the
abstract position need: a flag `before_first` left behind by a failed refetch
must not be taken for a place in front of rows that are no longer buffered.  The
lemmas follow the code: moves inside the buffer, refetches, then the operations
built from both.

### Handshake

`Handshake_proofs.tla` proves, for every number of connections, descriptors, TLS
sessions, server addresses, attempts and challenges, over either transport and
with a failing mutex or without, from `TransportAssumption` and
`HandshakeAssumption` alone:

| Theorem | States |
|---|---|
| `TypesHold` | types of the variables of both modules |
| `OwnSessionAlways` | `Spec => []OwnSession` |
| `NothingLeftAlways` | `Spec => []NothingLeft` |
| `ReadyTruthfulAlways` | `Spec => []ReadyTruthful` |
| `AdviceSoundAlways` | `Spec => []AdviceSound` |

The properties carry the exceptions of section 3, and so do the theorems; with
`Faults = {}` `NothingLeftAlways` says that nothing is ever `Lost`, and nothing is
then left for `OwnSession` to except.

The invariant has two parts about the shared tables, `Descriptors` (kernel and
connection objects agree on who owns a descriptor) and `Registered` (the
registry has no session twice, and names sessions of the descriptor's owner or
sessions left behind; nothing is left behind unless the mutex fails), and five
about each connection (`Local`):

* `Holding`: it has a descriptor exactly while it should, a discarded one that is
  still held is held because the mutex failed, and its state and discard mark
  follow the call;
* `Securing`: its TLS session is in the hands of the connect that made it, or
  is what the registry has for its descriptor; before the attach, after the
  detach and without TLS the registry has nothing for the descriptor but what
  was left behind (`Stale`);
* `Moving`: what a read or write found in the registry is still there;
* `Progressing`: how far the server has come at each phase of `sqli_connect`,
  where `late` lets the replies run behind the requests;
* `Judging`: a refusal other than a rejection with svcError = 0 ends the call at
  once with an error that says so or says nothing.

A step is one connection's: its lemma shows `Kept(c)`, that is `Local` of its
own connection and, for all others, that it leaves alone what their `Local`
speaks of (`Frame`).  `OthersKept` then gives `Local` of the others, once for
all actions.

### Session

`Session_proofs.tla` proves, for every set of
operations, kinds of statement, isolation levels and holds, every number of calls
and of rows in a batch, from `SessionAssumption` and the hypotheses named:

| Theorem | States | Hypotheses |
|---|---|---|
| `BetweenCalls` | `Spec => []InStep` | no `split` |
| `TruthfulMirror` | `Spec => []MirrorTruthful` | no `split` |
| `SelectsReleased` | `Spec => []SelectReleased` | no `split` |
| `OkMeansAccepted` | `Spec => []OkMeansDone` | no `split`, `BatchesInTime` |
| `CursorsKnown` | `Spec => []CursorKnown` | no `split`, `BatchesInTime` |
| `DataInTransaction` | `Spec => WorkInTransaction` | no `split`, `BatchesInTime` |

Both hypotheses leave out defects of the code that section 3 reports.  `split` is
a reply that comes in pieces with a 20 ms poll run out between them: run
`session_split` shows `OkMeansDone` violated by it, and `InStep` fails with it.
`BatchesInTime` says that replies are not late or there are no batches: after a
row whose BEGIN was answered too late a batch may go on, its items then say
nothing of what the server still does, and the late answers pass for those of
later rows.  Without it TLC finds `OkMeansDone` violated; it finds no violation of
`CursorKnown` and `WorkInTransaction`, whose proofs use it all the same, since the
requests that wait are then no longer those of `Queue`.

The first invariant, `IInv`, relates three views of the request under way at every
point of every call: what the client believes, what is on the wire, and what the
server has done.  Its parts are

* `Underway`: which calls can be at which point, and what they have established
  before it (no OPEN or EXECUTE where `sqli_autobegin` had still to send BEGIN);
* `Framed`: between calls nothing is on its way and the mirror is truthful
  (`Unapplied`); in a request either the request waits, or its error is all there
  is to read, or its answer is, in full or in part, with the second group of a data
  statement behind it or owed; in a drain at most that second group is left.  From
  the moment the server accepts, its transaction, epochs and level are ahead of
  the mirror by exactly the effect of the request (`Applied`);
* `Severed`: a closed connection has taken the session's state with it;
* `SelectInQuery`: the statement of a direct SELECT exists during its query only;
* `CursorTracked`: a cursor open on the server was opened by the execution the
  statement object remembers, and no transaction has ended since that closed it.

Each is needed by others: that the mirror is truthful after a call needs the reply
read to be the reply of this request, which needs the wire to be empty when it was
sent, which needs every tail to have been drained.

After an I/O error the application gives the session up, and `IInv` says no more
about it.  `OkMeansDone`, the second half of `CursorKnown` and `WorkInTransaction`
still do: the call in progress returns, and what it had sent may be processed
after that.  The second invariant, `IInv2`, has three parts for this.  `Queue`: of
several requests that wait, all but the first close something, and the first finds
no cursor open and its transaction begun.  `Late`: after an I/O error a call is on
its way out, gives back what it has opened, or goes on where every read fails at
once.  `Earned`: a status SQLI_OK, returned or about to be, stands for requests
that were all accepted.

The lemmas come in the order of the code: sending a request, going on, returning,
draining, then one per action.  String constants of the module are single words,
since tlapm does not pass on to its SMT solver those that contain a blank.

### Large objects

`LargeObject_proofs.tla` proves, for every set of objects and of buffer sizes,
every displacement, chunk size, number of descriptors and of sessions and every
choice of faults, from `LargeObjectAssumption` and the hypothesis named:

| Theorem | States | Hypothesis |
|---|---|---|
| `TypesOK` | `Spec => []TypeOK` | |
| `KnownDescriptors` | `Spec => []DescriptorsKnown` | |
| `ReleasedTruthfully` | `Spec => ReleaseTruthful` | |
| `StoredConfirmed` | `Spec => []ConfirmedStored` | `Announced` |
| `DeliveredTruthfully` | `Spec => []ReadsTruthful` | |

`Announced` says that no buffer an object has room for is longer than the `int32`
of a header can say; run `lobs` has a buffer that is, and no room for it.
`sqli_sblob_write` announces at most `0x7FFFFFFF` bytes (line 428) but sends, and
reports in `*bytes_written`, all of them (line 527); with a smaller `MaxInt32`
TLC finds `ConfirmedStored` violated.

`DescriptorsKnown` is not inductive: a descriptor is a handle's own because the
routine that opened it was called through a handle of this very session.  `Inv`
adds

* `Connected`: the cached routine handle is none or of the session the server is
  in, and nothing is open without a connection;
* `Handles`: open handles exist and name a descriptor and an object;
* `Streaming`: a stream runs only in a sound session, through an open handle, and
  has counted no more than the handle has;
* `Located`: the object of a handle exists as long as nothing broke, and the
  handle's descriptor stands no further than what was confirmed;
* `ServerOK`: descriptors are open on objects that exist and stand within them.

`ConfirmedStored` needs, beyond `Inv`, that the handle's descriptor stands exactly
behind what was confirmed (`AtEnd`), and with it is inductive: a write lands behind
what is there, so that an acknowledged write extends the object by just its bytes,
a refused one by none, and one whose reply is lost leaves more than was confirmed
and a session that is no longer sound.  A write's reply is read token by token in
the lemmas (`AcknowledgedStatus`, `NegativeStatus`): a prefix of an acknowledgement
is never taken for a whole one, and a negative acknowledgement never for success.

`ReadsTruthful` says that the loop of `sqli_sblob_read` undoes what the server
did, however it cut the bytes into chunks.  Both sides are recursive functions: the
loop runs along the tokens of the reply, the server along the bytes.
`FromChunks` and `BehindCuts` show first that these functions exist, so that their
equations may be used (`UpwardInduction` on the number of places already followed).
Then `ReadsRest` says of a number of bytes that, wherever in the reply a framing
of the bytes behind them lies, the loop reads these bytes from there and leaves
nothing, or finds the reply broken off; `FrameRead` derives it for `k` bytes from all
larger numbers, one frame with its length, bytes and padding at a time, and
`DownwardInduction` carries it from the end of the bytes to their start (`BodyRead`).
`ReplyRead` and `RefusalRead` add the header and the answers without data.  A
buffer larger than an `int32` can announce is refused by a reader
(`sqli_sblob.c:1377`) and cut by the read of a column, which is then owed less.

### What a prepared statement exchanges

`Prepared_proofs.tla` proves

| Theorem | States | Assumptions |
|---|---|---|
| `SnapshotsCounted` | `Spec => []SnapshotInvariant` | `SnapshotAssumption`, `DeclarationAssumption`, `FramesRead` |
| `RetainsLive` | `Spec => []RetainedAlive` | the same |
| `SnapshotsTruthful` | `Spec => []SnapshotTruthful` | the same |
| `RowsPlaced` | `Spec => []ColumnsPlaced` | `RowsAssumption` |
| `MessagesFit` | `Spec => []MessageFits` | `BindingAssumption` |

*Descriptors*, for any number of threads, descriptors, references and declarations.
The code counts references with a compare-and-swap that is preceded by a look at
the count (`sqli_descriptor.c:75`), and that nobody frees what is being looked at
follows from no single step.  `SnapshotInvariant` says

* `Counted`: the count of a descriptor is the number of its holders, the result
  that published it among them; the sum that `SnapshotTruthful` takes over the
  threads is the cardinality of a set (`SumCounts`), which changes by one;
* `Relied`: a thread in the middle of a retain has a reference already, or uses
  the result, which then keeps one; so what it looks at lives (`RetainsLive`);
* `AsRead`, `ColumnsKept`: what lives was read from an accepted frame, and the
  columns of the result are those of the descriptor it published;
* `Judged`: a frame was refused exactly if it broke a limit.

`FramesRead` says that an acceptable frame is read as it was written.  What the
reader makes of every frame is induction over data; TLC evaluates the assumption
on the declarations of run `values`, the lying and the cut ones included.

*Rows*, for every layout and whatever bytes a server sends.  What holds of a column follows from the columns
before it, and these are placed by a recursive function of the index.  No
induction theorem can be cited for it, but a well-founded order has minimal
elements: `UpwardInduction` refutes the least index at which a claim about a set
of numbers fails, and `Iteration` shows by it that a chain of steps exists, with
which the function that the code's loop stands for is identified.  `PlacesFollow`
and `CachePlaced` then give `ColumnsPlaced` for one row, including where
`sqli_tuple_locate_column` finds a column by rules of its own.  The bytes of a
length are any numbers: no server can make a column leave its row.

*Requests*, for every statement, every value bound and every order of binding,
binding again, clearing, batching and sending.  `BindInvariant` says that every
parameter of the statement and of every row of the batch is `Sized`: it has the
fields of a parameter, a DATE has four bytes and a native value at least one
(the loop that drops trailing zeros keeps it, and reads it).  `PayloadFits`
compares what `build_bind_msg` writes for a parameter with what
`estimate_bind_msg_size` counts for it, type by type: a text that grows in the
conversion, one that is cut to its length field, a legacy object that is
announced by its descriptor, a native value that loses its trailing zeros and
gets a byte of padding.  `EstimateAdds` and `MessageBuilt` add the parameters up.
`BindingAssumption` states what the callers of `sqli_bind_*` hand over: each call
binds the type it is named for.  It also says that `Base ^ 2` is a positive
number, since the provers know nothing of powers.

### Only model-checked

* Liveness (`AcquireReturns`, `ActiveEnds`, `CallReturns`): fairness and
  `ENABLED` are out of the prover's reach.
* `ValuesTruthful`, `ReplyTruthful`, `AddressTruthful` and `NativeExact`, which
  are about what recursive functions and folds compute from every input (the
  tokens of any reply, the digits of a number, the texts of an address), and
  `FramesRead`, the assumption of the descriptor proofs.  What is proved of the
  chunks of a large object shows the way: a recursive function of the place in the
  frame, and an induction over what lies behind it.
* `Session` with replies in pieces, and with late replies in batches, where the
  properties fail (section 3).

## 5. What is not modelled, and why

* Windows: the cancellation stub has no state; the socket and character-set
  files differ from the POSIX ones in system calls.
* Wire encoding of requests, type names, message catalogues, logs: byte layout
  and tables, without state of their own.  `src/tools/` are applications of the
  library.
* Conversion between character sets beyond its effect on lengths.
* Allocation failures where they only return an error; where objects are kept
  (inline limbs, arenas other than that of the rows).
* In the session: `INT32_MAX` branches, a connection object that is connected
  again under an old result, a session used after an I/O error, transactions that
  the server ends by itself (`SQ_XACTSTAT` is dropped at
  `sqli_dispatch.c:1303`), streams, the framing of `sqli_batch_execute`, the reply
  to the bind request of a parameterised SELECT, and, in `ResultCursor`, the
  loss of the connection under a scrollable cursor (`lost_scroll`), whose window
  then passes for the whole result.
* In the getters: contents of large objects, texts of temporal columns, numbers
  of DECIMAL columns fetched as integer or double.
* In `Reception`, replies about which the client must guess and can only guess
  wrong: optional numbers of an ERR or INSERTDONE that look like the next opcode,
  unknown tokens with a payload, COMMAND without its payload in the buffer, a
  DONE behind a fetched object of a server without long row identifiers.
* In `Transport`: accesses to the registry whose lock has failed.  Attach, read,
  write and peek do not look at the result of `pthread_mutex_lock`
  (`sqli_tls.c:36`, `sqli_tcp_posix.c:277`) and would go on unsynchronised; the
  model takes their lock to succeed.  The up to 256 bytes read behind SQ_INFO are
  all of the surplus or none.
* Configuration: cost and environment options, the path of the sqlhosts file,
  the layout of association messages.

## 6. Plan

What would extend the project, in order of weight:

1. `Session`: streams, `sqli_batch_execute` (`sqli_batch.c`) with a batch that
   fails midway, and the bind request of a parameterised SELECT.
2. `Pool` with `Session`: what a release leaves to the next borrower
   (transaction, mode, batch).
3. `Rows` with `LargeObject`: the contents of large-object columns.
4. Proofs: that the reader of DESCRIBE frames inverts their writer, as that of
   large objects is shown to, which would discharge `FramesRead`.
