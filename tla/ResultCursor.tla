---------------------------- MODULE ResultCursor ----------------------------
(***************************************************************************)
(* The row cursor of a query result (src/sqli_result.c): navigation over a  *)
(* buffer of retained rows and, for a scrollable cursor on a live          *)
(* connection, over windows refetched from the server.                     *)
(*                                                                         *)
(* The buffer is described by the server rows it holds: row i of the       *)
(* buffer (0-based) is row lo + i of the result.  The operations are        *)
(* relations on the struct: each returns the set of outcomes [r, ok] the   *)
(* C function can have, because a refetch can fail in several ways.        *)
(***************************************************************************)
EXTENDS Integers

CONSTANTS
    Kinds,       \* the cursors opened, a subset of Kind
    MaxRows,     \* bound: rows of a result
    MaxWindow,   \* bound: rows in one reply to SQ_SFETCH
    Targets,     \* arguments of sqli_result_absolute
    Offsets,     \* arguments of sqli_result_relative
    Faults       \* what may happen, a subset of Fault

\* scroll: SQLI_CURSOR_SCROLL_INSENSITIVE, the statement is kept open;
\* hold: SQLI_CURSOR_HOLD_OVER_COMMIT.
Kind == [scroll: BOOLEAN, hold: BOOLEAN]

\* Malformed rows, failing refetches, a lost connection (of a forward-only or
\* of a scrollable cursor), a relative move that passes the first row while
\* the window begins further on.
Fault == {"rows", "refetch", "lost", "lost_scroll", "pass_start"}

ASSUME ResultAssumption ==
    /\ Kinds \subseteq Kind
    /\ MaxRows \in Nat /\ MaxWindow \in Nat \ {0}
    /\ Targets \subseteq Int /\ Offsets \subseteq Int
    /\ Faults \subseteq Fault

VARIABLES
    kind,      \* cursor_type and holdability
    n,         \* rows of the result on the server
    bad,       \* rows whose tuple does not fit their description
    link,      \* "up", "down" (closed) or "discarded" connection
    ended,     \* commit and rollback epochs that have moved on
    res,       \* struct sqli_result
    out        \* the last call: operation, argument, success, fetch status

vars == <<kind, n, bad, link, ended, res, out>>

Status == {"OK", "IO_ERROR", "PROTO_ERROR", "INVALID_STATE"}

Result == [lo: 1 .. MaxRows + 1, count: 0 .. MaxRows,  \* retained rows
           cursor: -1 .. MaxRows - 1,                  \* cursor, current_row, tuple_buffer
           abs: 0 .. MaxRows + 1,                      \* absolute_row_num
           bf: BOOLEAN, al: BOOLEAN,                   \* at_before_first, at_after_last
           status: Status,                             \* fetch_status
           err: BOOLEAN]                               \* saw_error or error_code # 0

---------------------------------------------------------------------------
(* Helpers of sqli_result.c                                                *)

Outcome(r, ok) == [r |-> r, ok |-> ok]

Closed == "rollback" \in ended \/ (~kind.hold /\ "commit" \in ended)

MarkClosed(r) == [r EXCEPT !.cursor = -1, !.abs = 0, !.bf = FALSE, !.al = TRUE]

AfterLast(r)   == MarkClosed(r)

BeforeFirst(r) == [r EXCEPT !.cursor = -1, !.abs = 0, !.bf = TRUE, !.al = FALSE]
BothEnds(r)    == [r EXCEPT !.abs = 0, !.bf = TRUE, !.al = TRUE]

ClearRows(r) ==
    [r EXCEPT !.count = 0, !.status = "OK", !.cursor = -1, !.abs = 0,
              !.bf = TRUE, !.al = FALSE]

\* sqli_result_row_number.
RowNumber(r) ==
    IF r.bf \/ r.al THEN 0
    ELSE IF r.abs > 0 THEN r.abs
    ELSE IF r.cursor \in 0 .. r.count - 1 THEN r.cursor + 1 ELSE 0

\* Mutant: a malformed row leaves no status behind.
MoveToSilent(r, i) ==
    IF i \notin 0 .. r.count - 1 THEN Outcome(r, FALSE)
    ELSE IF r.lo + i \in bad THEN Outcome(MarkClosed(r), FALSE)
    ELSE Outcome([r EXCEPT !.cursor = i, !.bf = FALSE, !.al = FALSE], TRUE)

\* sqli_result_move_to_index: a row whose layout does not validate closes the
\* result and leaves a sticky error.
MoveTo(r, i) ==
    IF i \notin 0 .. r.count - 1 THEN Outcome(r, FALSE)
    ELSE IF r.lo + i \in bad
         THEN Outcome([MarkClosed(r) EXCEPT !.status = "PROTO_ERROR"], FALSE)
         ELSE Outcome([r EXCEPT !.cursor = i, !.bf = FALSE, !.al = FALSE], TRUE)

\* sqli_result_move_to_index followed by an assignment to absolute_row_num.
MoveAs(r, i, number) ==
    LET o == MoveTo(r, i)
    IN IF o.ok THEN [o EXCEPT !.r.abs = number] ELSE o

ServerScrollable == kind.scroll /\ link = "up"

---------------------------------------------------------------------------
(* The server's reply to SQ_SFETCH: the rows from the target on, none when  *)
(* the target lies beyond the end, or a failure after some of them; end is *)
(* the status of sqli_receive_dispatch and whether it is due to an SQ_ERR.  *)

Replies(target) ==
    LET most == IF target \in 1 .. n
                THEN IF n - target + 1 < MaxWindow THEN n - target + 1 ELSE MaxWindow
                ELSE 0
        sent == IF most = 0 THEN {0} ELSE 1 .. most
        broken == {<<"IO_ERROR", FALSE>>, <<"PROTO_ERROR", FALSE>>, <<"PROTO_ERROR", TRUE>>}
    IN [count: sent, end: {<<"OK", FALSE>>}]
         \cup IF "refetch" \in Faults THEN [count: sent \cup {0}, end: broken] ELSE {}

\* Mutant: the row count of DONE is taken for the position.
RefetchByCount(r, target, number) ==
    {LET q == [ClearRows(r) EXCEPT !.lo = IF target \in 1 .. n THEN target ELSE 1,
                                   !.count = reply.count,
                                   !.status = reply.end[1],
                                   !.err = @ \/ reply.end[2]]
     IN IF q.status # "OK" \/ q.count = 0
        THEN Outcome(AfterLast(q), FALSE)
        ELSE MoveTo([q EXCEPT !.abs = n, !.bf = FALSE], 0)
     : reply \in Replies(target)}

\* sqli_result_server_refetch: number is the position it assumes, the requested
\* one for ABSOLUTE and the row count of DONE for LAST.
Refetch(r, target, number) ==
    {LET q == [ClearRows(r) EXCEPT !.lo = IF target \in 1 .. n THEN target ELSE 1,
                                   !.count = reply.count,
                                   !.status = reply.end[1],
                                   !.err = @ \/ reply.end[2]]
     IN IF q.status # "OK" \/ q.count = 0
        THEN Outcome(AfterLast(q), FALSE)
        ELSE MoveTo([q EXCEPT !.abs = number, !.bf = FALSE], 0)
     : reply \in Replies(target)}

---------------------------------------------------------------------------
(* The public operations                                                   *)

\* What first and last do after a failed move.
OrBothEnds(o) == IF o.ok THEN o ELSE Outcome(BothEnds(o.r), FALSE)

\* What absolute does after a failed move.
OrAfterLast(o) == IF o.ok THEN o ELSE Outcome(AfterLast(o.r), FALSE)

FirstOf(r) ==
    IF Closed THEN {Outcome(MarkClosed(r), FALSE)}
    ELSE {OrBothEnds(o) : o \in IF ServerScrollable THEN Refetch(r, 1, 1)
                                ELSE {MoveAs(r, 0, 1)}}

\* Mutant: last does not look at the epochs.
LastOfUnchecked(r) ==
    {OrBothEnds(o) : o \in IF ServerScrollable THEN Refetch(r, n, n)
                            ELSE {MoveAs(r, r.count - 1, r.count)}}

LastOf(r) ==
    IF Closed THEN {Outcome(MarkClosed(r), FALSE)}
    ELSE {OrBothEnds(o) : o \in IF ServerScrollable THEN Refetch(r, n, n)
                                ELSE {MoveAs(r, r.count - 1, r.count)}}

\* Mutant: absolute takes its argument for an index.
AbsoluteZeroBased(r, row) ==
    IF Closed THEN {Outcome(MarkClosed(r), FALSE)}
    ELSE IF row <= 0 THEN {Outcome(r, FALSE)}
    ELSE {OrAfterLast(o) : o \in IF ServerScrollable THEN Refetch(r, row, row)
                                 ELSE {MoveAs(r, row, row)}}

AbsoluteOf(r, row) ==
    IF Closed THEN {Outcome(MarkClosed(r), FALSE)}
    ELSE IF row <= 0 THEN {Outcome(r, FALSE)}
    ELSE {OrAfterLast(o) : o \in IF ServerScrollable THEN Refetch(r, row, row)
                                 ELSE {MoveAs(r, row - 1, row)}}

RelativeOf(r, offset) ==
    LET here == IF RowNumber(r) <= 0 /\ r.bf /\ offset > 0 THEN 0 ELSE RowNumber(r)
        lost == RowNumber(r) <= 0 /\ ~(r.bf /\ offset > 0)
    IN IF Closed THEN {Outcome(MarkClosed(r), FALSE)}
       ELSE IF offset = 0 THEN {Outcome(r, r.cursor >= 0)}
       ELSE IF lost THEN {Outcome(r, FALSE)}
       ELSE IF here + offset <= 0 THEN {Outcome(BeforeFirst(r), FALSE)}
       ELSE AbsoluteOf(r, here + offset)

PreviousOf(r) ==
    LET here == RowNumber(r)
        back == MoveAs(r, r.cursor - 1, here - 1)
        buffered == ~ServerScrollable \/ r.cursor \in 1 .. r.count - 1
    IN IF Closed THEN {Outcome(MarkClosed(r), FALSE)}
       ELSE IF r.al THEN LastOf(r)
       ELSE IF here <= 1 THEN {Outcome(BeforeFirst(r), FALSE)}
       ELSE IF buffered /\ back.ok THEN {back}
       ELSE AbsoluteOf(IF buffered THEN back.r ELSE r, here - 1)

\* sqli_result_next_internal.
NextOf(r) ==
    LET i == r.cursor + 1
        number == IF r.abs > 0 THEN r.abs + 1 ELSE i + 1
    IN IF Closed THEN {Outcome(MarkClosed(r), FALSE)}
       ELSE IF r.al THEN {Outcome(r, FALSE)}
       ELSE IF r.bf
            THEN LET q == [r EXCEPT !.bf = FALSE]
                 IN IF r.cursor < 0 /\ r.count > 0 /\ r.abs = 0
                    THEN {MoveAs(q, 0, 1)} ELSE FirstOf(q)
       ELSE IF i < r.count THEN {MoveAs(r, i, number)}
       ELSE IF ServerScrollable /\ r.abs > 0 THEN AbsoluteOf(r, r.abs + 1)
       ELSE {Outcome(AfterLast(r), FALSE)}

\* sqli_result_fetch, which reports a status: a failure is sticky.
Failing(r, status) == [r |-> MarkClosed(r), ok |-> FALSE, status |-> status]

FetchOf(r) ==
    IF link = "discarded" THEN {Failing(r, "INVALID_STATE")}
    ELSE IF r.status # "OK" THEN {Failing(r, r.status)}
    ELSE IF Closed THEN {Failing([r EXCEPT !.status = "INVALID_STATE"], "INVALID_STATE")}
    ELSE IF r.err THEN {Failing([r EXCEPT !.status = "PROTO_ERROR"], "PROTO_ERROR")}
    ELSE {IF o.r.status # "OK" THEN Failing(o.r, o.r.status)
          ELSE [r |-> o.r, ok |-> o.ok, status |-> IF o.ok THEN "OK" ELSE "EOF"]
          : o \in NextOf(r)}

---------------------------------------------------------------------------
(* sqli_query has read every row before it returns the result.             *)
Init ==
    /\ kind \in Kinds
    /\ n \in 0 .. MaxRows
    /\ bad \in IF "rows" \in Faults THEN SUBSET (1 .. n) ELSE {{}}
    /\ link = "up" /\ ended = {}
    /\ res = [lo |-> 1, count |-> n, cursor |-> -1, abs |-> 0, bf |-> TRUE,
              al |-> FALSE, status |-> "OK", err |-> FALSE]
    /\ out = [op |-> "none", arg |-> 0, ok |-> FALSE, status |-> "OK"]

Navigate(op, arg, outcomes) ==
    /\ \E o \in outcomes :
         /\ res' = o.r
         /\ out' = [op |-> op, arg |-> arg, ok |-> o.ok, status |-> "OK"]
    /\ UNCHANGED <<kind, n, bad, link, ended>>

First         == Navigate("first", 0, FirstOf(res))
Last          == Navigate("last", 0, LastOf(res))
Previous      == Navigate("previous", 0, PreviousOf(res))
Absolute(row) == Navigate("absolute", row, AbsoluteOf(res, row))

Relative(d) ==
    /\ "pass_start" \in Faults \/ res.lo = 1 \/ RowNumber(res) + d > 0
    /\ Navigate("relative", d, RelativeOf(res, d))

Fetch ==
    /\ \E o \in FetchOf(res) :
         /\ res' = o.r
         /\ out' = [op |-> "fetch", arg |-> 0, ok |-> o.ok, status |-> o.status]
    /\ UNCHANGED <<kind, n, bad, link, ended>>

\* The transaction the result belongs to ends.
EndTransaction(how) ==
    /\ how \notin ended
    /\ ended' = ended \cup {how}
    /\ UNCHANGED <<kind, n, bad, link, res, out>>

\* The application closes the connection, or it is discarded.
LoseLink ==
    /\ link = "up"
    /\ (IF kind.scroll THEN "lost_scroll" ELSE "lost") \in Faults
    /\ link' \in {"down", "discarded"}
    /\ UNCHANGED <<kind, n, bad, ended, res, out>>

Next ==
    \/ First \/ Last \/ Previous \/ Fetch
    \/ \E row \in Targets : Absolute(row)
    \/ \E d \in Offsets : Relative(d)
    \/ \E how \in {"commit", "rollback"} : EndTransaction(how)
    \/ LoseLink

Spec == Init /\ [][Next]_vars
---------------------------------------------------------------------------
(* Properties                                                              *)

\* The position of a cursor in the result: nowhere, before the first row, a row,
\* or after the last.
PlaceOf(r) ==
    CASE r.al /\ r.bf            -> -1
      [] r.al /\ ~r.bf           -> n + 1
      [] ~r.al /\ r.cursor >= 0  -> r.lo + r.cursor
      [] OTHER                   -> 0

Position == PlaceOf(res)

\* sqli_result_row_number tells the truth: the number it reports is the place
\* in the result of the row whose values the getters return, whatever window
\* of rows is buffered (moves across windows, first, last, previous, next), and
\* that row has the layout sqli_result_prepare_row_cache accepts.
RowNumberTruthful ==
    /\ RowNumber(res) = IF Position \in 1 .. n THEN Position ELSE 0
    /\ out.ok /\ res.cursor >= 0 => RowNumber(res) > 0
    /\ res.cursor >= 0 => res.lo + res.cursor \notin bad

IsFetch == out'.op = "fetch" /\ UNCHANGED <<link, ended>>

\* SQLI_EOF means exhaustion: sqli_result_fetch never reports it while a row
\* lies ahead, whatever moves, failures and invalidations came before.
EofMeansExhausted ==
    [][IsFetch /\ out'.status = "EOF" => n = 0 \/ Position \in {n, n + 1}]_vars

\* Failures and invalidations are sticky: until rows are refetched from the
\* server, fetch keeps reporting the status it recorded, whatever other moves
\* are tried; and once commit or rollback has invalidated the result no
\* operation moves its cursor to a row, not even to a retained one.
FailureSticks ==
    [][/\ res.status # "OK" /\ ~ServerScrollable =>
            /\ res'.status = res.status
            /\ IsFetch /\ res' # res /\ link # "discarded" => out'.status = res.status
       /\ Closed /\ res' # res => res'.cursor = -1 /\ ~out'.ok]_vars

\* The cursor keeps the promises of a positioned reader: each operation that
\* delivers a row delivers the row at its target.
S == INSTANCE Scroll
       WITH Args <- Targets \cup Offsets, size <- n, pos <- Position,
            seen <- [op |-> out.op, arg |-> out.arg,
                     row |-> IF out.ok THEN Position ELSE 0]

ScrollService == S!Spec
=============================================================================
