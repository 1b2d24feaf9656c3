------------------------ MODULE ResultCursor_proofs ------------------------
(***************************************************************************)
(* Proofs about the row cursor, for every size of result and of window, and *)
(* whatever rows are malformed and refetches fail.                         *)
(***************************************************************************)
EXTENDS ResultCursor, TLAPS

-----------------------------------------------------------------------------
(* The invariant                                                           *)

\* The result is no longer than its bound, its malformed rows lie in it, and
\* a scrollable cursor has its connection.
Context ==
    /\ kind \in Kind /\ n \in 0 .. MaxRows /\ bad \subseteq 1 .. n
    /\ kind.scroll => link = "up"

\* The buffer holds rows of the result; that of a forward-only cursor holds
\* them all, and no refetch can have failed. The status INVALID_STATE says
\* that an epoch has moved on.
Buffer(r) ==
    /\ r \in Result
    /\ r.lo + r.count <= n + 1 /\ r.cursor < r.count
    /\ ~kind.scroll => r.lo = 1 /\ r.count = n /\ ~r.err /\ r.status # "IO_ERROR"
    /\ r.status = "INVALID_STATE" => Closed

\* A cursor on a row carries that row's number, and the row is well-formed.
OnRow(r) ==
    r.cursor >= 0 => /\ ~r.bf /\ ~r.al
                     /\ r.abs = r.lo + r.cursor
                     /\ r.abs \notin bad

\* A cursor on no row carries no number and stands at an end: before the
\* first row only if the window, when it has rows, begins with it; at both
\* ends, with a clear status, only if there are no rows.
OffRow(r) ==
    r.cursor < 0 => /\ r.abs = 0
                    /\ r.bf \/ r.al
                    /\ r.al \/ r.lo = 1 \/ r.count = 0
                    /\ r.bf /\ r.al /\ r.status = "OK" => n = 0

\* A result as the operations leave it.
Placed(r) == Buffer(r) /\ OnRow(r) /\ OffRow(r)

\* The inductive invariant.
IInv == Context /\ Placed(res)

\* The two defects the model shows are left out: no relative move passes the
\* first row while the window begins further on, and no scrollable cursor
\* loses its connection.
Confined == "pass_start" \notin Faults /\ "lost_scroll" \notin Faults

-----------------------------------------------------------------------------
(* Moves in the buffer                                                     *)

\* The outcome of an operation that delivers row k.
Delivered(o, k) == o.ok /\ Placed(o.r) /\ o.r.cursor >= 0 /\ o.r.abs = k

\* The outcome of one that delivers none and ends after the last row or at
\* both ends: it failed, or there is no row k.
Missed(o, k) ==
    /\ ~o.ok /\ Placed(o.r) /\ o.r.al
    /\ o.r.status = "OK" /\ ~Closed => k \notin 1 .. n

\* The outcomes of an operation whose target is row k.
Reaches(o, k) == Delivered(o, k) \/ Missed(o, k)

\* A field of a result may be given any value of its type.
LEMMA ResultUpdates ==
  ASSUME NEW r \in Result
  PROVE  /\ \A x \in 1 .. MaxRows + 1 : [r EXCEPT !.lo = x] \in Result
         /\ \A x \in 0 .. MaxRows : [r EXCEPT !.count = x] \in Result
         /\ \A x \in -1 .. MaxRows - 1 : [r EXCEPT !.cursor = x] \in Result
         /\ \A x \in 0 .. MaxRows + 1 : [r EXCEPT !.abs = x] \in Result
         /\ \A x \in BOOLEAN : /\ [r EXCEPT !.bf = x] \in Result
                               /\ [r EXCEPT !.al = x] \in Result
                               /\ [r EXCEPT !.err = x] \in Result
         /\ \A x \in Status : [r EXCEPT !.status = x] \in Result
  BY Zenon DEF Result

\* The values the cursor, the number and the count are reset to.
LEMMA ResultEdges ==
  -1 \in -1 .. MaxRows - 1 /\ 0 \in 0 .. MaxRows + 1 /\ 0 \in 0 .. MaxRows
  BY ResultAssumption

\* mark_closed: the result keeps its buffer and status, and stands after the
\* last row.
LEMMA MarkClosedPlaced ==
  ASSUME Context, NEW r, Buffer(r)
  PROVE  Placed(MarkClosed(r)) /\ MarkClosed(r).al /\ MarkClosed(r).status = r.status
  <1>1. MarkClosed(r) \in Result
    BY ResultUpdates, ResultEdges, Zenon DEF Buffer, MarkClosed
  <1>2. Buffer(MarkClosed(r))
    BY <1>1, ResultAssumption DEF Buffer, MarkClosed, Result, Context
  <1>3. OnRow(MarkClosed(r)) /\ OffRow(MarkClosed(r))
    BY <1>1, ResultAssumption DEF Buffer, MarkClosed, Result, Context, OnRow, OffRow
  <1>4. MarkClosed(r).al /\ MarkClosed(r).status = r.status
    BY DEF MarkClosed, Buffer, Result
  <1> QED BY <1>2, <1>3, <1>4 DEF Placed

\* What is closed with a failure recorded is still a proper result.
LEMMA MalformedPlaced ==
  ASSUME Context, NEW r, Buffer(r), NEW s \in {"PROTO_ERROR", "INVALID_STATE"},
         s = "INVALID_STATE" => Closed
  PROVE  Placed([MarkClosed(r) EXCEPT !.status = s])
  <1>1. Placed(MarkClosed(r))
    BY MarkClosedPlaced
  <1>2. [MarkClosed(r) EXCEPT !.status = s] \in Result
    BY <1>1 DEF Placed, Buffer, Result, Status
  <1>3. Buffer([MarkClosed(r) EXCEPT !.status = s])
    BY <1>1, <1>2, ResultAssumption DEF Placed, Buffer, Result, Context
  <1>4. /\ OnRow([MarkClosed(r) EXCEPT !.status = s])
        /\ OffRow([MarkClosed(r) EXCEPT !.status = s])
    BY <1>1, <1>2, ResultAssumption DEF Placed, Buffer, MarkClosed, Result, Context,
         OnRow, OffRow
  <1> QED BY <1>3, <1>4 DEF Placed

\* sqli_result_move_to_index, to a row of the buffer and with that row's
\* number: the cursor is on it, or the row is malformed.
LEMMA MoveAsReaches ==
  ASSUME Context, NEW r, Buffer(r), NEW i \in 0 .. r.count - 1, NEW k, k = r.lo + i
  PROVE  Reaches(MoveAs(r, i, k), k)
  <1>1. CASE r.lo + i \in bad
    <2> DEFINE q == [MarkClosed(r) EXCEPT !.status = "PROTO_ERROR"]
    <2>1. MoveAs(r, i, k) = Outcome(q, FALSE)
      BY <1>1 DEF MoveAs, MoveTo, Outcome
    <2>2. Placed(q)
      BY MalformedPlaced
    <2>3. q.al /\ q.status = "PROTO_ERROR"
      BY DEF MarkClosed, Buffer, Result
    <2> HIDE DEF q
    <2> QED BY <2>1, <2>2, <2>3 DEF Reaches, Missed, Outcome
  <1>2. CASE r.lo + i \notin bad
    <2> DEFINE q == [[r EXCEPT !.cursor = i, !.bf = FALSE, !.al = FALSE] EXCEPT !.abs = k]
    <2>1. MoveAs(r, i, k) = Outcome(q, TRUE)
      BY <1>2 DEF MoveAs, MoveTo, Outcome
    <2>2. q \in Result
      <3>1. i \in -1 .. MaxRows - 1 /\ k \in 0 .. MaxRows + 1
        BY ResultAssumption DEF Buffer, Result, Context
      <3> QED BY <3>1 DEF Buffer, Result
    <2>3. Buffer(q)
      BY <2>2, ResultAssumption DEF Buffer, Result, Context
    <2>4. OnRow(q) /\ OffRow(q)
      BY <1>2, <2>2, ResultAssumption DEF Buffer, Result, OnRow, OffRow
    <2> HIDE DEF q
    <2>5. q.cursor = i /\ q.abs = k
      BY <2>2 DEF q, Buffer, Result
    <2> QED BY <2>1, <2>3, <2>4, <2>5 DEF Reaches, Delivered, Placed, Outcome
  <1> QED BY <1>1, <1>2

\* sqli_result_move_to_index, to an index outside the buffer, changes
\* nothing.
LEMMA MoveAsRefused ==
  ASSUME NEW r, NEW i, NEW k, i \notin 0 .. r.count - 1
  PROVE  MoveAs(r, i, k) = Outcome(r, FALSE)
  BY DEF MoveAs, MoveTo, Outcome

\* What first and last leave when they fail is a proper result, if the
\* failure is recorded or there are no rows.
LEMMA BothEndsPlaced ==
  ASSUME Context, NEW r, Buffer(r), r.cursor < 0, r.status = "OK" => n = 0
  PROVE  Placed(BothEnds(r)) /\ BothEnds(r).al /\ BothEnds(r).status = r.status
  <1>1. BothEnds(r) \in Result
    BY ResultUpdates, ResultEdges, Zenon DEF Buffer, BothEnds
  <1>2. Buffer(BothEnds(r))
    BY <1>1, ResultAssumption DEF Buffer, BothEnds, Result, Context
  <1>3. OnRow(BothEnds(r)) /\ OffRow(BothEnds(r))
    BY <1>1, ResultAssumption DEF Buffer, BothEnds, Result, Context, OnRow, OffRow
  <1>4. BothEnds(r).al /\ BothEnds(r).status = r.status
    BY DEF BothEnds, Buffer, Result
  <1> QED BY <1>2, <1>3, <1>4 DEF Placed

\* A cursor put before the first row is in place if the window begins with
\* that row.
LEMMA BeforeFirstPlaced ==
  ASSUME Context, NEW r, Buffer(r), r.lo = 1 \/ r.count = 0
  PROVE  Placed(BeforeFirst(r))
  <1>1. BeforeFirst(r) \in Result
    BY ResultUpdates, ResultEdges, Zenon DEF Buffer, BeforeFirst
  <1>2. Buffer(BeforeFirst(r))
    BY <1>1, ResultAssumption DEF Buffer, BeforeFirst, Result, Context
  <1>3. OnRow(BeforeFirst(r)) /\ OffRow(BeforeFirst(r))
    BY <1>1, ResultAssumption DEF Buffer, BeforeFirst, Result, Context, OnRow, OffRow
  <1> QED BY <1>2, <1>3 DEF Placed

\* sqli_result_row_number returns the number the cursor carries, which is 0
\* exactly when it is on no row.
LEMMA NumberKnown ==
  ASSUME Context, NEW r, Placed(r)
  PROVE  /\ RowNumber(r) = r.abs /\ r.abs \in 0 .. n
         /\ r.abs = 0 <=> r.cursor < 0
         /\ r.abs > 0 => r.abs = r.lo + r.cursor /\ ~r.bf /\ ~r.al
  <1>1. /\ r.abs \in Nat /\ r.lo \in Nat \ {0} /\ r.cursor \in Int
        /\ r.count \in Nat /\ n \in Nat
        /\ r.cursor >= 0 \/ r.cursor = -1
    BY ResultAssumption DEF Placed, Buffer, Result, Context
  <1>2. CASE r.cursor >= 0
    <2>1. ~r.bf /\ ~r.al /\ r.abs = r.lo + r.cursor
      BY <1>2 DEF Placed, OnRow
    <2>2. r.lo + r.count <= n + 1 /\ r.cursor < r.count
      BY DEF Placed, Buffer
    <2> QED BY <1>1, <1>2, <2>1, <2>2 DEF RowNumber
  <1>3. CASE r.cursor < 0
    <2>1. (r.bf \/ r.al) /\ r.abs = 0
      BY <1>3 DEF Placed, OffRow
    <2> QED BY <1>1, <1>3, <2>1 DEF RowNumber
  <1> QED BY <1>1, <1>2, <1>3

-----------------------------------------------------------------------------
(* Windows fetched from the server                                         *)

\* What a reply to SQ_SFETCH may hold: rows from the requested one on, none
\* when there is no such row, fewer than there are only with a failure.
Reply(k, reply) ==
    /\ reply.count \in 0 .. MaxRows
    /\ reply.count > 0 => k \in 1 .. n /\ k + reply.count <= n + 1
    /\ reply.count = 0 /\ reply.end[1] = "OK" => k \notin 1 .. n
    /\ reply.end[1] \in {"OK", "IO_ERROR", "PROTO_ERROR"}
    /\ reply.end[2] \in BOOLEAN

\* The replies of the server are such.
LEMMA RepliesHold ==
  ASSUME Context, NEW k \in Int, NEW reply \in Replies(k)
  PROVE  Reply(k, reply)
  <1> DEFINE most == IF k \in 1 .. n
                THEN IF n - k + 1 < MaxWindow THEN n - k + 1 ELSE MaxWindow
                ELSE 0
        sent == IF most = 0 THEN {0} ELSE 1 .. most
        broken == {<<"IO_ERROR", FALSE>>, <<"PROTO_ERROR", FALSE>>,
                   <<"PROTO_ERROR", TRUE>>}
  <1>1. \/ reply \in [count: sent, end: {<<"OK", FALSE>>}]
        \/ reply \in [count: sent \cup {0}, end: broken]
    BY DEF Replies
  <1>2. /\ most \in 0 .. MaxRows
        /\ most > 0 => k \in 1 .. n /\ k + most <= n + 1
        /\ most = 0 => k \notin 1 .. n
    BY ResultAssumption DEF Context
  <1>3. sent \subseteq 0 .. most /\ (0 \in sent => most = 0)
    BY <1>2, ResultAssumption
  <1> HIDE DEF most, sent
  <1>4. 0 \in 0 .. most /\ most \in Nat /\ 0 .. most \subseteq 0 .. MaxRows
    BY <1>2, ResultAssumption
  <1>5. reply.count \in 0 .. most
    <2>1. reply.count \in sent \cup {0}
      <3> HIDE DEF broken
      <3> QED BY <1>1
    <2> QED BY <2>1, <1>3, <1>4
  <1>6. /\ reply.count \in 0 .. MaxRows
        /\ reply.count > 0 => k \in 1 .. n /\ k + reply.count <= n + 1
    BY <1>2, <1>4, <1>5, ResultAssumption DEF Context
  <1>7. reply.count = 0 /\ reply.count \in sent => k \notin 1 .. n
    BY <1>2, <1>3
  <1>8. CASE reply \in [count: sent, end: {<<"OK", FALSE>>}]
    <2>1. reply.end = <<"OK", FALSE>> /\ reply.count \in sent
      BY <1>8
    <2>2. reply.end[1] = "OK"
      BY <2>1
    <2>3. reply.end[2] = FALSE
      BY <2>1
    <2>4. reply.end[2] \in BOOLEAN
      BY <2>3, Zenon
    <2> QED BY <1>6, <1>7, <2>1, <2>2, <2>4 DEF Reply
  <1>9. CASE reply.end = <<"IO_ERROR", FALSE>>
    <2>1. reply.end[1] = "IO_ERROR"
      BY <1>9
    <2>2. reply.end[2] = FALSE
      BY <1>9
    <2>3. reply.end[2] \in BOOLEAN
      BY <2>2, Zenon
    <2> QED BY <1>6, <2>1, <2>3 DEF Reply
  <1>10. CASE reply.end = <<"PROTO_ERROR", FALSE>>
    <2>1. reply.end[1] = "PROTO_ERROR"
      BY <1>10
    <2>2. reply.end[2] = FALSE
      BY <1>10
    <2>3. reply.end[2] \in BOOLEAN
      BY <2>2, Zenon
    <2> QED BY <1>6, <2>1, <2>3 DEF Reply
  <1>11. CASE reply.end = <<"PROTO_ERROR", TRUE>>
    <2>1. reply.end[1] = "PROTO_ERROR"
      BY <1>11
    <2>2. reply.end[2] = TRUE
      BY <1>11
    <2>3. reply.end[2] \in BOOLEAN
      BY <2>2, Zenon
    <2> QED BY <1>6, <2>1, <2>3 DEF Reply
  <1> QED BY <1>1, <1>8, <1>9, <1>10, <1>11

\* The result after the reply and before the move to its first row.
Fetched(r, k, reply) ==
    [ClearRows(r) EXCEPT !.lo = IF k \in 1 .. n THEN k ELSE 1, !.count = reply.count,
                         !.status = reply.end[1], !.err = @ \/ reply.end[2]]

\* Its buffer holds the rows the server sent, from row k on.
LEMMA FetchedBuffer ==
  ASSUME Context, kind.scroll, NEW r, Buffer(r), NEW k \in Int, NEW reply, Reply(k, reply)
  PROVE  Buffer(Fetched(r, k, reply)) /\ Fetched(r, k, reply).count = reply.count
         /\ Fetched(r, k, reply).status = reply.end[1]
         /\ (k \in 1 .. n => Fetched(r, k, reply).lo = k)
  <1> DEFINE q == [ClearRows(r) EXCEPT !.lo = IF k \in 1 .. n THEN k ELSE 1,
                                      !.count = reply.count,
                                      !.status = reply.end[1]]
             p == [q EXCEPT !.err = @ \/ reply.end[2]]
  <1>1. /\ (IF k \in 1 .. n THEN k ELSE 1) \in 1 .. MaxRows + 1
        /\ reply.end[1] \in Status
    BY ResultAssumption DEF Reply, Status, Context
  <1>2. reply.count \in 0 .. MaxRows
    BY DEF Reply
  <1>3. q \in Result
    <2>1. ClearRows(r) \in Result
      <3>1. "OK" \in Status
        BY DEF Status
      <3> QED BY <3>1, ResultUpdates, ResultEdges, Zenon DEF ClearRows, Buffer
    <2> HIDE DEF Result
    <2> QED BY <1>1, <1>2, <2>1, ResultUpdates, Zenon
  <1>4. /\ q.lo = (IF k \in 1 .. n THEN k ELSE 1) /\ q.count = reply.count
        /\ q.status = reply.end[1] /\ q.cursor = -1
    BY DEF ClearRows, Buffer, Result
  <1>5. Fetched(r, k, reply) = p
    BY DEF Fetched
  <1> HIDE DEF q
  <1>6. p \in Result
    BY <1>3, Zenon DEF Result, Reply
  <1>7. /\ p.lo = q.lo /\ p.count = q.count /\ p.status = q.status /\ p.cursor = q.cursor
    BY <1>3 DEF Result
  <1> HIDE DEF p
  <1>8. /\ p.lo + p.count <= n + 1 /\ p.cursor < p.count
        /\ p.status # "INVALID_STATE"
    BY <1>2, <1>4, <1>7, ResultAssumption DEF Reply, Context
  <1> QED BY <1>4, <1>5, <1>6, <1>7, <1>8 DEF Buffer

\* sqli_result_server_refetch reaches the row it asked for: the number it
\* assumes is that of the first row of the new window.
LEMMA RefetchReaches ==
  ASSUME Context, kind.scroll, NEW r, Buffer(r), NEW k \in Int, NEW o \in Refetch(r, k, k)
  PROVE  Reaches(o, k)
  <1>1. PICK reply \in Replies(k) :
          o = LET q == Fetched(r, k, reply)
              IN  IF q.status # "OK" \/ q.count = 0
                  THEN Outcome(AfterLast(q), FALSE)
                  ELSE MoveTo([q EXCEPT !.abs = k, !.bf = FALSE], 0)
    BY DEF Refetch, Fetched
  <1>2. Reply(k, reply)
    BY RepliesHold
  <1>3. PICK q : /\ q = Fetched(r, k, reply) /\ Buffer(q)
                 /\ q.count = reply.count /\ q.status = reply.end[1]
                 /\ k \in 1 .. n => q.lo = k
    BY <1>2, FetchedBuffer
  <1>4. CASE q.status # "OK" \/ q.count = 0
    <2>1. o = Outcome(MarkClosed(q), FALSE)
      BY <1>1, <1>3, <1>4 DEF AfterLast
    <2>2. q.status = "OK" => k \notin 1 .. n
      BY <1>2, <1>3, <1>4 DEF Reply
    <2> QED BY <1>3, <2>1, <2>2, MarkClosedPlaced DEF Reaches, Missed, Outcome
  <1>5. CASE q.status = "OK" /\ q.count # 0
    <2> DEFINE p == [q EXCEPT !.abs = k, !.bf = FALSE]
    <2>1. o = MoveTo(p, 0)
      BY <1>1, <1>3, <1>5
    <2>2. k \in 1 .. n /\ q.lo = k /\ q.count \in 1 .. MaxRows
      BY <1>2, <1>3, <1>5, ResultAssumption DEF Reply
    <2>3. k \in 0 .. MaxRows + 1
      BY <2>2, ResultAssumption DEF Context
    <2>4. p \in Result
      BY <1>3, <2>3, ResultUpdates, Zenon DEF Buffer
    <2>5. Buffer(p) /\ p.lo = k /\ p.count = q.count
      BY <1>3, <2>2, <2>4 DEF Buffer, Result
    <2>6. MoveTo(p, 0) = MoveAs(p, 0, k)
      BY <2>2, <2>4, <2>5 DEF MoveTo, MoveAs, Outcome, Result, MarkClosed
    <2> HIDE DEF p
    <2>7. 0 \in 0 .. p.count - 1 /\ k = p.lo + 0
      BY <2>2, <2>5, ResultAssumption
    <2> QED BY <2>1, <2>5, <2>6, <2>7, MoveAsReaches
  <1> QED BY <1>3, <1>4, <1>5

-----------------------------------------------------------------------------
(* The public operations                                                   *)

\* What the operations make of a move that changed nothing.
LEMMA RefusedEnds ==
  ASSUME NEW r, NEW p, p = Outcome(r, FALSE)
  PROVE  /\ OrBothEnds(p) = Outcome(BothEnds(r), FALSE)
         /\ OrAfterLast(p) = Outcome(MarkClosed(r), FALSE)
  <1>1. ~p.ok /\ p.r = r
    BY DEF Outcome
  <1> QED BY <1>1, Zenon DEF OrBothEnds, OrAfterLast, AfterLast

\* What first and last do after the move does not change the row they reach.
LEMMA OrBothEndsReaches ==
  ASSUME Context, ~Closed, NEW k, k \notin 1 .. n => n = 0, NEW o, Reaches(o, k)
  PROVE  Reaches(OrBothEnds(o), k)
  <1>1. CASE Delivered(o, k)
    BY <1>1 DEF Delivered, Reaches, OrBothEnds
  <1>2. CASE Missed(o, k)
    <2>1. Buffer(o.r) /\ o.r.cursor < 0 /\ (o.r.status = "OK" => n = 0)
      BY <1>2 DEF Missed, Placed, OnRow, Buffer, Result
    <2>2. OrBothEnds(o) = Outcome(BothEnds(o.r), FALSE)
      BY <1>2 DEF Missed, OrBothEnds
    <2> QED BY <1>2, <2>1, <2>2, BothEndsPlaced DEF Reaches, Missed, Outcome
  <1> QED BY <1>1, <1>2 DEF Reaches

\* Nor does what absolute does after it.
LEMMA OrAfterLastReaches ==
  ASSUME Context, NEW k, NEW o, Reaches(o, k)
  PROVE  Reaches(OrAfterLast(o), k)
  <1>1. CASE Delivered(o, k)
    BY <1>1 DEF Delivered, Reaches, OrAfterLast
  <1>2. CASE Missed(o, k)
    <2>1. OrAfterLast(o) = Outcome(MarkClosed(o.r), FALSE)
      BY <1>2 DEF Missed, OrAfterLast, AfterLast
    <2> QED BY <1>2, <2>1, MarkClosedPlaced DEF Reaches, Missed, Outcome, Placed
  <1> QED BY <1>1, <1>2 DEF Reaches

\* sqli_result_first reaches row 1.
LEMMA FirstReaches ==
  ASSUME Context, NEW r, Buffer(r), ~Closed, NEW o \in FirstOf(r)
  PROVE  Reaches(o, 1)
  <1>1. CASE kind.scroll
    <2>1. PICK p \in Refetch(r, 1, 1) : o = OrBothEnds(p)
      BY <1>1 DEF FirstOf, ServerScrollable, Context
    <2>2. Reaches(p, 1)
      BY <1>1, RefetchReaches
    <2> QED BY <2>1, <2>2, OrBothEndsReaches DEF Context
  <1>2. CASE ~kind.scroll
    <2>1. o = OrBothEnds(MoveAs(r, 0, 1)) /\ r.lo = 1 /\ r.count = n /\ n \in Nat
      BY <1>2, ResultAssumption DEF FirstOf, ServerScrollable, Buffer, Context
    <2>2. CASE n > 0
      <3>1. Reaches(MoveAs(r, 0, 1), 1)
        BY <2>1, <2>2, MoveAsReaches
      <3> QED BY <2>1, <3>1, OrBothEndsReaches, <2>2
    <2>3. CASE n = 0
      <3>1. MoveAs(r, 0, 1) = Outcome(r, FALSE)
        BY <2>1, <2>3, MoveAsRefused DEF Outcome
      <3>2. o = Outcome(BothEnds(r), FALSE)
        BY <2>1, <3>1, RefusedEnds, Zenon
      <3>3. r.cursor < 0
        BY <2>1, <2>3 DEF Buffer, Result
      <3> QED BY <3>2, <3>3, <2>3, BothEndsPlaced DEF Reaches, Missed, Outcome
    <2> QED BY <2>1, <2>2, <2>3
  <1> QED BY <1>1, <1>2

\* sqli_result_last reaches row n.
LEMMA LastReaches ==
  ASSUME Context, NEW r, Buffer(r), ~Closed, NEW o \in LastOf(r)
  PROVE  Reaches(o, n)
  <1>1. n \in Nat
    BY ResultAssumption DEF Context
  <1>2. CASE kind.scroll
    <2>1. PICK p \in Refetch(r, n, n) : o = OrBothEnds(p)
      BY <1>2 DEF LastOf, ServerScrollable, Context
    <2>2. Reaches(p, n)
      BY <1>1, <1>2, RefetchReaches
    <2> QED BY <1>1, <2>1, <2>2, OrBothEndsReaches
  <1>3. CASE ~kind.scroll
    <2>1. o = OrBothEnds(MoveAs(r, n - 1, n)) /\ r.lo = 1 /\ r.count = n
      BY <1>3, ResultAssumption DEF LastOf, ServerScrollable, Buffer, Context
    <2>2. CASE n > 0
      <3>1. Reaches(MoveAs(r, n - 1, n), n)
        BY <1>1, <2>1, <2>2, MoveAsReaches
      <3> QED BY <1>1, <2>1, <3>1, OrBothEndsReaches, <2>2
    <2>3. CASE n = 0
      <3>1. MoveAs(r, n - 1, n) = Outcome(r, FALSE)
        BY <2>1, <2>3, MoveAsRefused DEF Outcome
      <3>2. o = Outcome(BothEnds(r), FALSE)
        BY <2>1, <3>1, RefusedEnds, Zenon
      <3>3. r.cursor < 0
        BY <2>1, <2>3 DEF Buffer, Result
      <3> QED BY <3>2, <3>3, <2>3, BothEndsPlaced DEF Reaches, Missed, Outcome
    <2> QED BY <1>1, <2>2, <2>3
  <1> QED BY <1>2, <1>3

\* sqli_result_absolute reaches the row of its argument.
LEMMA AbsoluteReaches ==
  ASSUME Context, NEW r, Buffer(r), ~Closed, NEW row \in Int, row > 0,
         NEW o \in AbsoluteOf(r, row)
  PROVE  Reaches(o, row)
  <1>1. o \in {OrAfterLast(p) : p \in IF ServerScrollable THEN Refetch(r, row, row)
                                      ELSE {MoveAs(r, row - 1, row)}}
    BY DEF AbsoluteOf, Outcome
  <1>2. CASE kind.scroll
    <2>1. PICK p \in Refetch(r, row, row) : o = OrAfterLast(p)
      BY <1>1, <1>2 DEF ServerScrollable, Context
    <2>2. Reaches(p, row)
      BY <1>2, RefetchReaches
    <2> QED BY <2>1, <2>2, OrAfterLastReaches
  <1>3. CASE ~kind.scroll
    <2>1. o = OrAfterLast(MoveAs(r, row - 1, row)) /\ r.lo = 1 /\ r.count = n /\ n \in Nat
      BY <1>1, <1>3, ResultAssumption DEF ServerScrollable, Buffer, Context
    <2>2. CASE row <= n
      <3>1. Reaches(MoveAs(r, row - 1, row), row)
        BY <2>1, <2>2, MoveAsReaches
      <3> QED BY <2>1, <3>1, OrAfterLastReaches
    <2>3. CASE row > n
      <3>1. row - 1 \notin 0 .. r.count - 1
        BY <2>1, <2>3
      <3>2. MoveAs(r, row - 1, row) = Outcome(r, FALSE)
        BY <3>1, MoveAsRefused, Zenon
      <3>3. o = Outcome(MarkClosed(r), FALSE)
        BY <2>1, <3>2, RefusedEnds, Zenon
      <3>4. row \notin 1 .. n
        BY <2>1, <2>3
      <3> QED BY <3>3, <3>4, MarkClosedPlaced DEF Reaches, Missed, Outcome
    <2> QED BY <2>1, <2>2, <2>3
  <1> QED BY <1>2, <1>3

\* sqli_result_previous: from after the end to the last row, from row 1 or
\* before it to before the first, otherwise to the row before, in the buffer
\* or refetched.
LEMMA PreviousReaches ==
  ASSUME Context, NEW r, Placed(r), ~Closed, NEW o \in PreviousOf(r)
  PROVE  \/ r.al /\ Reaches(o, n)
         \/ /\ ~r.al /\ r.abs <= 1 /\ o = Outcome(BeforeFirst(r), FALSE)
            /\ r.lo = 1 \/ r.count = 0
         \/ ~r.al /\ r.abs > 1 /\ Reaches(o, r.abs - 1)
  <1> DEFINE back == MoveAs(r, r.cursor - 1, RowNumber(r) - 1)
             buffered == ~ServerScrollable \/ r.cursor \in 1 .. r.count - 1
  <1>1. /\ RowNumber(r) = r.abs /\ r.abs \in Nat /\ Buffer(r)
        /\ r.cursor \in Int /\ r.count \in Nat /\ r.lo \in Nat \ {0}
        /\ r.abs > 0 => r.abs = r.lo + r.cursor /\ r.cursor >= 0
        /\ ~r.al /\ r.abs = 0 => r.lo = 1 \/ r.count = 0
    BY NumberKnown, ResultAssumption DEF Placed, Buffer, Result, Context, OffRow
  <1>2. CASE r.al
    <2>1. o \in LastOf(r)
      BY <1>2 DEF PreviousOf, Outcome
    <2> QED BY <1>1, <1>2, <2>1, LastReaches
  <1>3. CASE ~r.al /\ r.abs <= 1
    <2>1. o = Outcome(BeforeFirst(r), FALSE)
      BY <1>1, <1>3 DEF PreviousOf, Outcome
    <2>2. r.lo = 1 \/ r.count = 0
      BY <1>1, <1>3
    <2> QED BY <1>3, <2>1, <2>2
  <1>4. CASE ~r.al /\ r.abs > 1
    <2>1. o \in IF buffered /\ back.ok THEN {back}
                ELSE AbsoluteOf(IF buffered THEN back.r ELSE r, RowNumber(r) - 1)
      BY <1>1, <1>4 DEF PreviousOf, Outcome
    <2>2. CASE buffered
      <3>1. r.cursor - 1 \in 0 .. r.count - 1
        BY <1>1, <1>4, <2>2 DEF ServerScrollable, Context, Buffer
      <3>2. Reaches(back, r.abs - 1)
        BY <1>1, <1>4, <3>1, MoveAsReaches
      <3> HIDE DEF back
      <3>3. CASE back.ok
        BY <1>4, <2>1, <2>2, <3>2, <3>3
      <3>4. CASE ~back.ok
        <4>1. Buffer(back.r)
          BY <3>2 DEF Reaches, Delivered, Missed, Placed
        <4>2. o \in AbsoluteOf(back.r, r.abs - 1)
          BY <1>1, <2>1, <2>2, <3>4
        <4>3. r.abs - 1 \in Int /\ r.abs - 1 > 0
          BY <1>1, <1>4
        <4> QED BY <1>4, <4>1, <4>2, <4>3, AbsoluteReaches, Zenon
      <3> QED BY <3>3, <3>4
    <2>3. CASE ~buffered
      <3>1. o \in AbsoluteOf(r, r.abs - 1)
        BY <1>1, <2>1, <2>3
      <3>2. r.abs - 1 \in Int /\ r.abs - 1 > 0
        BY <1>1, <1>4
      <3> QED BY <1>1, <1>4, <3>1, <3>2, AbsoluteReaches, Zenon
    <2> QED BY <2>2, <2>3
  <1>5. r.abs <= 1 \/ r.abs > 1
    BY <1>1
  <1> QED BY <1>2, <1>3, <1>4, <1>5, Zenon

\* sqli_result_next_internal: to the row after, unless the cursor is at the
\* end.
LEMMA NextReaches ==
  ASSUME Context, NEW r, Placed(r), ~Closed, NEW o \in NextOf(r)
  PROVE  IF r.al THEN o = Outcome(r, FALSE) ELSE Reaches(o, r.abs + 1)
  <1>1. /\ r.abs \in Nat /\ Buffer(r)
        /\ r.cursor \in Int /\ r.count \in Nat /\ r.lo \in Nat \ {0}
        /\ r.lo + r.count <= n + 1
        /\ r.abs > 0 => r.abs = r.lo + r.cursor /\ r.cursor >= 0 /\ ~r.bf
        /\ r.abs = 0 => r.cursor = -1
        /\ ~r.al /\ r.abs = 0 => r.bf /\ (r.lo = 1 \/ r.count = 0)
    BY NumberKnown, ResultAssumption DEF Placed, Buffer, Result, Context, OffRow
  <1>2. CASE r.al
    BY <1>2 DEF NextOf, Outcome
  <1>3. CASE ~r.al /\ r.abs = 0
    <2> DEFINE q == [r EXCEPT !.bf = FALSE]
    <2>1. o \in IF r.cursor < 0 /\ r.count > 0 /\ r.abs = 0 THEN {MoveAs(q, 0, 1)}
                ELSE FirstOf(q)
      BY <1>1, <1>3 DEF NextOf, Outcome
    <2>2. q \in Result
      BY <1>1, ResultUpdates, Zenon DEF Buffer
    <2>3. Buffer(q) /\ q.count = r.count /\ q.lo = r.lo
      BY <1>1, <2>2 DEF Buffer, Result
    <2> HIDE DEF q
    <2>4. CASE r.count > 0
      <3>1. 0 \in 0 .. q.count - 1 /\ 1 = q.lo + 0
        BY <1>1, <1>3, <2>3, <2>4
      <3> QED BY <1>1, <1>3, <2>1, <2>3, <2>4, <3>1, MoveAsReaches
    <2>5. CASE r.count = 0
      BY <1>1, <1>3, <2>1, <2>3, <2>5, FirstReaches
    <2>6. r.count > 0 \/ r.count = 0
      BY <1>1
    <2> QED BY <2>4, <2>5, <2>6, Zenon
  <1>4. CASE ~r.al /\ r.abs > 0
    <2>1. CASE r.cursor + 1 < r.count
      <3>1. o = MoveAs(r, r.cursor + 1, r.abs + 1)
        BY <1>1, <1>4, <2>1 DEF NextOf, Outcome
      <3> QED BY <1>1, <1>4, <2>1, <3>1, MoveAsReaches
    <2>2. CASE r.cursor + 1 >= r.count /\ kind.scroll
      <3>1. o \in AbsoluteOf(r, r.abs + 1)
        BY <1>1, <1>4, <2>2 DEF NextOf, Outcome, ServerScrollable, Context
      <3> QED BY <1>1, <1>4, <3>1, AbsoluteReaches
    <2>3. CASE r.cursor + 1 >= r.count /\ ~kind.scroll
      <3>1. o = Outcome(MarkClosed(r), FALSE)
        BY <1>1, <1>4, <2>3 DEF NextOf, Outcome, ServerScrollable, AfterLast
      <3>2. r.abs + 1 \notin 1 .. n
        BY <1>1, <1>4, <2>3, ResultAssumption DEF Buffer, Context
      <3> QED BY <1>1, <1>4, <3>1, <3>2, MarkClosedPlaced DEF Reaches, Missed, Outcome
    <2>4. r.cursor + 1 < r.count \/ r.cursor + 1 >= r.count
      BY <1>1
    <2> QED BY <2>1, <2>2, <2>3, <2>4, Zenon
  <1>5. r.abs = 0 \/ r.abs > 0
    BY <1>1
  <1> QED BY <1>2, <1>3, <1>4, <1>5, Zenon

\* sqli_result_relative: to the row at the offset, before the first row, or
\* nowhere from a place that has no number.
LEMMA RelativeReaches ==
  ASSUME Context, NEW r, Placed(r), ~Closed, NEW d \in Int, NEW o \in RelativeOf(r, d)
  PROVE  \/ d = 0 /\ o.r = r /\ (o.ok <=> r.abs > 0)
         \/ r.abs = 0 /\ o.r = r /\ ~o.ok
         \/ r.abs > 0 /\ r.abs + d <= 0 /\ o.r = BeforeFirst(r) /\ ~o.ok
         \/ r.abs > 0 /\ r.abs + d > 0 /\ Reaches(o, r.abs + d)
         \/ r.abs = 0 /\ r.bf /\ d > 0 /\ Reaches(o, d)
  <1> DEFINE lost == r.abs <= 0 /\ ~(r.bf /\ d > 0)
  <1>1. /\ RowNumber(r) = r.abs /\ r.abs \in Nat /\ Buffer(r) /\ r.cursor \in Int
        /\ r.abs = 0 <=> r.cursor < 0
    BY NumberKnown, ResultAssumption DEF Placed, Buffer, Result, Context
  <1>2. CASE d = 0
    <2>1. o = Outcome(r, r.cursor >= 0)
      BY <1>2 DEF RelativeOf, Outcome
    <2>2. o.r = r /\ o.ok = (r.cursor >= 0)
      BY <2>1, Zenon DEF Outcome
    <2>3. r.abs > 0 <=> r.cursor >= 0
      BY <1>1
    <2> QED BY <1>2, <2>2, <2>3, Zenon
  <1>3. CASE d # 0 /\ lost
    <2>1. o = Outcome(r, FALSE)
      BY <1>1, <1>3 DEF RelativeOf, Outcome
    <2> QED BY <1>1, <1>3, <2>1 DEF Outcome
  <1>4. CASE d # 0 /\ ~lost /\ r.abs + d <= 0
    <2>1. o = Outcome(BeforeFirst(r), FALSE)
      BY <1>1, <1>4 DEF RelativeOf, Outcome
    <2> QED BY <1>1, <1>4, <2>1 DEF Outcome
  <1>5. CASE d # 0 /\ ~lost /\ r.abs + d > 0
    <2>1. o \in AbsoluteOf(r, r.abs + d)
      BY <1>1, <1>5 DEF RelativeOf, Outcome
    <2>2. r.abs + d \in Int
      BY <1>1
    <2>3. Reaches(o, r.abs + d)
      BY <1>1, <1>5, <2>1, <2>2, AbsoluteReaches, Zenon
    <2>4. r.abs > 0 \/ (r.abs = 0 /\ r.bf /\ d > 0 /\ r.abs + d = d)
      BY <1>1, <1>5
    <2> QED BY <1>5, <2>3, <2>4, Zenon
  <1>6. r.abs + d <= 0 \/ r.abs + d > 0
    BY <1>1
  <1> QED BY <1>2, <1>3, <1>4, <1>5, <1>6, Zenon

\* A fetch that reports a failure.
Halts(o) ==
    /\ ~o.ok /\ o.status \notin {"OK", "EOF"} /\ Placed(o.r) /\ o.r.al

\* A fetch that moved on, or found no row to move to.
Steps(r, o) ==
    /\ ~Closed /\ r.status = "OK" /\ o.r.status = "OK"
    /\ o.status = IF o.ok THEN "OK" ELSE "EOF"
    /\ IF r.al THEN o.r = r /\ ~o.ok ELSE Reaches(o, r.abs + 1)

\* A failing fetch closes the result.
LEMMA HaltsPlaced ==
  ASSUME Context, NEW r, Buffer(r), NEW s \in {"IO_ERROR", "PROTO_ERROR", "INVALID_STATE"}
  PROVE  Halts(Failing(r, s))
  <1>1. Placed(MarkClosed(r)) /\ MarkClosed(r).al
    BY MarkClosedPlaced
  <1> QED BY <1>1 DEF Failing, Halts

\* sqli_result_fetch does one or the other.
LEMMA FetchReaches ==
  ASSUME Context, NEW r, Placed(r), NEW o \in FetchOf(r)
  PROVE  Halts(o) \/ Steps(r, o)
  <1>1. Buffer(r) /\ r.status \in Status /\ r \in Result
    BY DEF Placed, Buffer, Result
  <1>2. CASE link = "discarded"
    <2>1. o = Failing(r, "INVALID_STATE")
      BY <1>2 DEF FetchOf
    <2> QED BY <1>1, <2>1, HaltsPlaced
  <1>3. CASE link # "discarded" /\ r.status # "OK"
    <2>1. o = Failing(r, r.status)
      BY <1>3 DEF FetchOf
    <2> QED BY <1>1, <1>3, <2>1, HaltsPlaced DEF Status
  <1>4. CASE link # "discarded" /\ r.status = "OK" /\ Closed
    <2> DEFINE q == [r EXCEPT !.status = "INVALID_STATE"]
    <2>1. o = Failing(q, "INVALID_STATE")
      BY <1>4 DEF FetchOf
    <2>2. q \in Result
      BY <1>1, ResultUpdates, Zenon DEF Status
    <2>3. Buffer(q)
      BY <1>1, <1>4, <2>2 DEF Buffer, Result
    <2> HIDE DEF q
    <2> QED BY <2>1, <2>3, HaltsPlaced
  <1>5. CASE link # "discarded" /\ r.status = "OK" /\ ~Closed /\ r.err
    <2> DEFINE q == [r EXCEPT !.status = "PROTO_ERROR"]
    <2>1. o = Failing(q, "PROTO_ERROR")
      BY <1>5 DEF FetchOf
    <2>2. q \in Result
      BY <1>1, ResultUpdates, Zenon DEF Status
    <2>3. Buffer(q)
      BY <1>1, <1>5, <2>2 DEF Buffer, Result
    <2> HIDE DEF q
    <2> QED BY <2>1, <2>3, HaltsPlaced
  <1>6. CASE link # "discarded" /\ r.status = "OK" /\ ~Closed /\ ~r.err
    <2>1. PICK p \in NextOf(r) :
            o = IF p.r.status # "OK" THEN Failing(p.r, p.r.status)
                ELSE [r |-> p.r, ok |-> p.ok, status |-> IF p.ok THEN "OK" ELSE "EOF"]
      BY <1>6 DEF FetchOf
    <2>2. IF r.al THEN p = Outcome(r, FALSE) ELSE Reaches(p, r.abs + 1)
      BY <1>6, NextReaches
    <2>3. Placed(p.r) /\ p.r.status \in Status
      <3>1. CASE r.al
        BY <1>1, <2>2, <3>1 DEF Outcome
      <3>2. CASE ~r.al
        BY <2>2, <3>2 DEF Reaches, Delivered, Missed, Placed, Buffer, Result
      <3> QED BY <3>1, <3>2
    <2>4. CASE p.r.status # "OK"
      <3>1. o = Failing(p.r, p.r.status)
        BY <2>1, <2>4
      <3>2. Buffer(p.r) /\ p.r.status \in {"IO_ERROR", "PROTO_ERROR", "INVALID_STATE"}
        BY <2>3, <2>4 DEF Placed, Status
      <3> QED BY <3>1, <3>2, HaltsPlaced
    <2>5. CASE p.r.status = "OK"
      <3>1. o.r = p.r /\ o.ok = p.ok /\ o.status = IF p.ok THEN "OK" ELSE "EOF"
        BY <2>1, <2>5
      <3>2. CASE r.al
        BY <1>6, <2>2, <2>5, <3>1, <3>2 DEF Steps, Outcome
      <3>3. CASE ~r.al
        <4>1. Reaches(o, r.abs + 1)
          BY <2>2, <3>1, <3>3 DEF Reaches, Delivered, Missed
        <4> QED BY <1>6, <2>5, <3>1, <3>3, <4>1 DEF Steps
      <3> QED BY <3>2, <3>3
    <2> QED BY <2>4, <2>5
  <1> QED BY <1>2, <1>3, <1>4, <1>5, <1>6

-----------------------------------------------------------------------------
(* The invariant is kept                                                   *)

\* The result sqli_query returns satisfies the invariant: every row is
\* retained and the cursor stands before the first.
LEMMA InitIInv == Init => IInv
  <1> SUFFICES ASSUME Init PROVE IInv
    OBVIOUS
  <1>1. kind \in Kind /\ n \in 0 .. MaxRows /\ link = "up"
    BY ResultAssumption DEF Init
  <1>2. bad \subseteq 1 .. n
    BY DEF Init
  <1>3. res \in Result
    <2> DEFINE e == [lo |-> 1, count |-> n, cursor |-> -1, abs |-> 0, bf |-> TRUE,
              al |-> FALSE, status |-> "OK", err |-> FALSE]
    <2>1. 1 \in 1 .. MaxRows + 1 /\ "OK" \in Status
      BY ResultAssumption DEF Status
    <2>2. e \in Result
      BY <1>1, <2>1, ResultEdges, Zenon DEF Result
    <2> QED BY <2>2 DEF Init
  <1>4. Buffer(res)
    BY <1>1, <1>3, ResultAssumption DEF Init, Buffer
  <1>5. OnRow(res) /\ OffRow(res)
    BY DEF Init, OnRow, OffRow
  <1> QED BY <1>1, <1>2, <1>4, <1>5 DEF IInv, Context, Placed

\* An operation that changes nothing but the result keeps the invariant if it
\* leaves the result in place.
LEMMA PlacedKept ==
  ASSUME IInv, UNCHANGED <<kind, n, bad, link, ended>>, Placed(res')
  PROVE  IInv'
  BY DEF IInv, Context, Placed, Buffer, OnRow, OffRow, Closed

\* An operation that reaches its target leaves the result in place.
LEMMA ReachesPlaced ==
  ASSUME NEW o, NEW k, Reaches(o, k)
  PROVE  Placed(o.r)
  BY DEF Reaches, Delivered, Missed

\* Every operation finds a result that commit or rollback has invalidated
\* closed.
LEMMA ClosedRefuses ==
  ASSUME Closed, NEW r
  PROVE  /\ FirstOf(r) = {Outcome(MarkClosed(r), FALSE)}
         /\ LastOf(r) = {Outcome(MarkClosed(r), FALSE)}
         /\ PreviousOf(r) = {Outcome(MarkClosed(r), FALSE)}
         /\ \A row : AbsoluteOf(r, row) = {Outcome(MarkClosed(r), FALSE)}
         /\ \A d : RelativeOf(r, d) = {Outcome(MarkClosed(r), FALSE)}
  BY Zenon DEF FirstOf, LastOf, PreviousOf, AbsoluteOf, RelativeOf

\* A result found closed is in place.
LEMMA ClosedPlaced ==
  ASSUME IInv, NEW o, o = Outcome(MarkClosed(res), FALSE)
  PROVE  Placed(o.r)
  <1>1. o.r = MarkClosed(res)
    BY Zenon DEF Outcome
  <1> QED BY <1>1, MarkClosedPlaced DEF IInv, Placed

\* sqli_result_first keeps the invariant.
LEMMA FirstKept ==
  ASSUME IInv, First
  PROVE  IInv'
  <1>1. PICK o \in FirstOf(res) : res' = o.r
    BY DEF First, Navigate
  <1>2. Placed(o.r)
    <2>1. CASE Closed
      BY <2>1, ClosedRefuses, ClosedPlaced
    <2>2. CASE ~Closed
      BY <2>2, FirstReaches, ReachesPlaced DEF IInv, Placed
    <2> QED BY <2>1, <2>2
  <1> QED BY <1>1, <1>2, PlacedKept DEF First, Navigate

\* sqli_result_last keeps it.
LEMMA LastKept ==
  ASSUME IInv, Last
  PROVE  IInv'
  <1>1. PICK o \in LastOf(res) : res' = o.r
    BY DEF Last, Navigate
  <1>2. Placed(o.r)
    <2>1. CASE Closed
      BY <2>1, ClosedRefuses, ClosedPlaced
    <2>2. CASE ~Closed
      BY <2>2, LastReaches, ReachesPlaced DEF IInv, Placed
    <2> QED BY <2>1, <2>2
  <1> QED BY <1>1, <1>2, PlacedKept DEF Last, Navigate

\* sqli_result_previous keeps it.
LEMMA PreviousKept ==
  ASSUME IInv, Previous
  PROVE  IInv'
  <1>1. PICK o \in PreviousOf(res) : res' = o.r
    BY DEF Previous, Navigate
  <1>2. Placed(o.r)
    <2>1. CASE Closed
      BY <2>1, ClosedRefuses, ClosedPlaced
    <2>2. CASE ~Closed
      <3>1. CASE o = Outcome(BeforeFirst(res), FALSE) /\ (res.lo = 1 \/ res.count = 0)
        <4>1. o.r = BeforeFirst(res)
          BY <3>1, Zenon DEF Outcome
        <4> QED BY <3>1, <4>1, BeforeFirstPlaced DEF IInv, Placed
      <3>2. CASE Reaches(o, n) \/ Reaches(o, res.abs - 1)
        BY <3>2, ReachesPlaced
      <3> QED BY <2>2, <3>1, <3>2, PreviousReaches, Zenon DEF IInv
    <2> QED BY <2>1, <2>2
  <1> QED BY <1>1, <1>2, PlacedKept DEF Previous, Navigate

\* sqli_result_absolute keeps it.
LEMMA AbsoluteKept ==
  ASSUME IInv, NEW row \in Targets, Absolute(row)
  PROVE  IInv'
  <1>1. PICK o \in AbsoluteOf(res, row) : res' = o.r
    BY DEF Absolute, Navigate
  <1>2. Placed(o.r)
    <2>1. CASE Closed
      BY <2>1, ClosedRefuses, ClosedPlaced
    <2>2. CASE ~Closed /\ row > 0
      <3>1. row \in Int
        BY ResultAssumption
      <3> QED BY <2>2, <3>1, AbsoluteReaches, ReachesPlaced DEF IInv, Placed
    <2>3. CASE ~Closed /\ ~(row > 0)
      <3>1. o = Outcome(res, FALSE)
        BY <2>3, ResultAssumption DEF AbsoluteOf, Outcome
      <3> QED BY <3>1 DEF Outcome, IInv
    <2> QED BY <2>1, <2>2, <2>3
  <1> QED BY <1>1, <1>2, PlacedKept DEF Absolute, Navigate

\* sqli_result_relative keeps it, when it may put the cursor before the first
\* row of a window only if that is the first row of the result.
LEMMA RelativeKept ==
  ASSUME Confined, IInv, NEW d \in Offsets, Relative(d)
  PROVE  IInv'
  <1>1. PICK o \in RelativeOf(res, d) : res' = o.r
    BY DEF Relative, Navigate
  <1>2. Placed(o.r)
    <2>1. CASE Closed
      BY <2>1, ClosedRefuses, ClosedPlaced
    <2>2. CASE ~Closed
      <3>1. d \in Int /\ Context /\ Placed(res)
        BY ResultAssumption DEF IInv
      <3>2. CASE o.r = res
        BY <3>1, <3>2
      <3>3. CASE res.abs > 0 /\ res.abs + d <= 0 /\ o.r = BeforeFirst(res)
        <4>1. RowNumber(res) = res.abs /\ res.abs \in Int
          BY <3>1, NumberKnown, ResultAssumption DEF Context
        <4>2. res.lo = 1
          BY <3>1, <3>3, <4>1 DEF Relative, Confined
        <4> QED BY <3>1, <3>3, <4>2, BeforeFirstPlaced DEF Placed
      <3>4. CASE Reaches(o, res.abs + d) \/ Reaches(o, d)
        BY <3>4, ReachesPlaced
      <3> QED BY <2>2, <3>1, <3>2, <3>3, <3>4, RelativeReaches, Zenon
    <2> QED BY <2>1, <2>2
  <1> QED BY <1>1, <1>2, PlacedKept DEF Relative, Navigate

\* sqli_result_fetch keeps it.
LEMMA FetchKept ==
  ASSUME IInv, Fetch
  PROVE  IInv'
  <1>1. PICK o \in FetchOf(res) : res' = o.r
    BY DEF Fetch
  <1>2. Context /\ Placed(res)
    BY DEF IInv
  <1>3. Placed(o.r)
    <2>1. CASE Halts(o)
      BY <2>1 DEF Halts
    <2>2. CASE Steps(res, o)
      BY <1>2, <2>2, ReachesPlaced DEF Steps
    <2> QED BY <1>1, <1>2, <2>1, <2>2, FetchReaches
  <1> QED BY <1>1, <1>3, PlacedKept DEF Fetch

\* The end of a transaction keeps it: an epoch that has moved on never comes
\* back.
LEMMA EndTransactionKept ==
  ASSUME IInv, NEW how, EndTransaction(how)
  PROVE  IInv'
  BY DEF EndTransaction, IInv, Context, Placed, Buffer, OnRow, OffRow, Closed

\* The loss of the connection of a forward-only cursor keeps it.
LEMMA LoseLinkKept ==
  ASSUME Confined, IInv, LoseLink
  PROVE  IInv'
  <1>1. ~kind.scroll
    BY DEF LoseLink, Confined
  <1> QED BY <1>1 DEF LoseLink, IInv, Context, Placed, Buffer, OnRow, OffRow, Closed

\* Every step keeps the invariant.
LEMMA NextIInv ==
  ASSUME Confined, IInv, [Next]_vars
  PROVE  IInv'
  <1>1. CASE UNCHANGED vars
    BY <1>1 DEF vars, IInv, Context, Placed, Buffer, OnRow, OffRow, Closed
  <1> QED BY <1>1, FirstKept, LastKept, PreviousKept, AbsoluteKept, RelativeKept,
       FetchKept,
             EndTransactionKept, LoseLinkKept DEF Next

\* The inductive invariant of the row cursor (sqli_result.c): whatever moves,
\* refetches, failures and invalidations came before, the number the cursor
\* carries is that of its row, and a cursor without a row stands at an end.
THEOREM IInvHolds == ASSUME Confined PROVE Spec => []IInv
  BY InitIInv, NextIInv, PTL DEF Spec

-----------------------------------------------------------------------------
(* Row numbers and the end of the result                                   *)

\* Where the cursor of a result in place is, by the number it carries.
LEMMA PlaceKnown ==
  ASSUME Context, NEW r, Placed(r)
  PROVE  /\ n \in Nat /\ r.abs \in 0 .. n
         /\ r.abs > 0 => PlaceOf(r) = r.abs
         /\ r.abs = 0 => PlaceOf(r) = IF r.bf /\ r.al THEN -1
                                        ELSE IF r.al THEN n + 1 ELSE 0
         /\ r.al => r.abs = 0
         /\ ~r.al /\ r.abs = 0 => r.bf
  <1>1. /\ n \in Nat /\ r.abs \in 0 .. n
        /\ r.abs = 0 <=> r.cursor < 0
        /\ r.abs > 0 => r.abs = r.lo + r.cursor /\ ~r.bf /\ ~r.al
        /\ r.cursor \in Int
    BY NumberKnown, ResultAssumption DEF Context, Placed, Buffer, Result
  <1>2. CASE r.abs > 0
    BY <1>1, <1>2 DEF PlaceOf
  <1>3. CASE r.abs = 0
    <2>1. r.bf \/ r.al
      BY <1>1, <1>3 DEF Placed, OffRow
    <2> QED BY <1>1, <1>3, <2>1 DEF PlaceOf
  <1> QED BY <1>1, <1>2, <1>3

\* Only sqli_result_fetch reports as a fetch.
LEMMA OnlyFetches ==
  ASSUME [Next]_vars, vars' # vars, IsFetch
  PROVE  Fetch
  <1>1. ASSUME NEW op, op # "fetch", NEW arg, NEW ends, Navigate(op, arg, ends) PROVE FALSE
    BY <1>1 DEF Navigate, IsFetch
  <1>2. ~First /\ ~Last /\ ~Previous
    BY <1>1 DEF First, Last, Previous
  <1>3. \A row, d : ~Absolute(row) /\ ~Relative(d)
    BY <1>1 DEF Absolute, Relative
  <1>4. ~LoseLink /\ \A how : ~EndTransaction(how)
    BY DEF LoseLink, EndTransaction, IsFetch
  <1> QED BY <1>2, <1>3, <1>4 DEF Next

\* The invariant makes sqli_result_row_number truthful.
LEMMA NumberTruthful == IInv => RowNumberTruthful
  <1> SUFFICES ASSUME IInv PROVE RowNumberTruthful
    OBVIOUS
  <1>1. /\ n \in Nat /\ res.abs \in 0 .. n /\ RowNumber(res) = res.abs
        /\ res.abs = 0 <=> res.cursor < 0
        /\ res.abs > 0 => res.abs = res.lo + res.cursor /\ Position = res.abs
        /\ res.abs = 0 => Position \in {-1, n + 1, 0}
        /\ res.cursor \in Int
    BY NumberKnown, PlaceKnown, ResultAssumption DEF IInv, Position, Context, Placed,
         Buffer, Result
  <1>2. res.cursor >= 0 => res.abs \notin bad
    BY DEF IInv, Position, Placed, OnRow
  <1> QED BY <1>1, <1>2 DEF RowNumberTruthful

\* A fetch reports SQLI_EOF only from the last row, from after it, or without
\* rows.
LEMMA EofStep ==
  ASSUME IInv, [Next]_vars
  PROVE  [IsFetch /\ out'.status = "EOF" => n = 0 \/ Position \in {n, n + 1}]_vars
  <1> SUFFICES ASSUME IsFetch, out'.status = "EOF", vars' # vars
               PROVE  n = 0 \/ Position \in {n, n + 1}
    BY Zenon
  <1>1. Fetch
    BY OnlyFetches
  <1>2. PICK o \in FetchOf(res) : out'.status = o.status
    BY <1>1 DEF Fetch
  <1>3. Context /\ Placed(res)
    BY DEF IInv
  <1>4. Steps(res, o) /\ ~o.ok
    <2>1. ~Halts(o)
      BY <1>2 DEF Halts
    <2> QED BY <1>2, <1>3, <2>1, FetchReaches DEF Steps
  <1>5. CASE res.al
    <2>1. res.cursor < 0 /\ res.abs = 0
      BY <1>3, <1>5 DEF Placed, OnRow, OffRow, Buffer, Result
    <2>2. res.bf => n = 0
      BY <1>3, <1>4, <1>5, <2>1 DEF Placed, OffRow, Steps
    <2> QED BY <1>3, <1>5, <2>1, <2>2, PlaceKnown DEF Position
  <1>6. CASE ~res.al
    <2>1. res.abs + 1 \notin 1 .. n
      BY <1>4, <1>6 DEF Steps, Reaches, Delivered, Missed
    <2>2. res.abs = n
      BY <1>3, <2>1, PlaceKnown DEF Position
    <2> QED BY <1>3, <2>2, PlaceKnown DEF Position
  <1> QED BY <1>5, <1>6

\* sqli_result_row_number always names the row whose values the getters
\* return, and that row passed sqli_result_prepare_row_cache: for every size
\* of result and window, whatever refetch fails.
THEOREM NumberAlwaysTruthful == ASSUME Confined PROVE Spec => []RowNumberTruthful
  BY InitIInv, NextIInv, NumberTruthful, PTL DEF Spec

\* sqli_result_fetch never reports SQLI_EOF while a row lies ahead.
THEOREM EofAlwaysExhausted == ASSUME Confined PROVE Spec => EofMeansExhausted
  BY InitIInv, NextIInv, EofStep, PTL DEF Spec, EofMeansExhausted

-----------------------------------------------------------------------------
(* Failures stay                                                           *)

\* A result that has recorded a malformed row.
Stuck(r) == Buffer(r) /\ r.status = "PROTO_ERROR"

\* Closing it keeps the status.
LEMMA MarkClosedStuck ==
  ASSUME Context, NEW r, Stuck(r)
  PROVE  Stuck(MarkClosed(r))
  BY MarkClosedPlaced DEF Stuck, Placed

\* So does a move in its buffer,
LEMMA MoveAsStuck ==
  ASSUME Context, NEW r, Stuck(r), NEW i, NEW k, i \in 0 .. r.count - 1 => k = r.lo + i
  PROVE  Stuck(MoveAs(r, i, k).r)
  <1>1. CASE i \notin 0 .. r.count - 1
    <2>1. MoveAs(r, i, k).r = r
      BY <1>1 DEF MoveAs, MoveTo, Outcome
    <2> QED BY <2>1
  <1>2. CASE i \in 0 .. r.count - 1
    <2>1. Buffer(MoveAs(r, i, k).r)
      BY <1>2, MoveAsReaches, ReachesPlaced DEF Stuck, Placed
    <2>2. MoveAs(r, i, k).r.status = "PROTO_ERROR"
      BY <1>2 DEF MoveAs, MoveTo, MarkClosed, Outcome, Stuck, Buffer, Result
    <2> QED BY <2>1, <2>2 DEF Stuck
  <1> QED BY <1>1, <1>2

\* what first, last and absolute do after one,
LEMMA EndsStuck ==
  ASSUME Context, NEW o, Stuck(o.r)
  PROVE  OrBothEnds(o).r.status = "PROTO_ERROR" /\ OrAfterLast(o).r.status = "PROTO_ERROR"
  <1>1. BothEnds(o.r).status = "PROTO_ERROR" /\ AfterLast(o.r).status = "PROTO_ERROR"
    BY DEF BothEnds, AfterLast, MarkClosed, Stuck, Buffer, Result
  <1> QED BY <1>1, Zenon DEF OrBothEnds, OrAfterLast, Outcome, Stuck

\* and the operations of a forward-only cursor: sqli_result_first and last,
LEMMA EndsOfStuck ==
  ASSUME Context, ~kind.scroll, ~Closed, NEW r, Stuck(r)
  PROVE  /\ \A o \in FirstOf(r) : o.r.status = "PROTO_ERROR"
         /\ \A o \in LastOf(r) : o.r.status = "PROTO_ERROR"
  <1>1. /\ FirstOf(r) = {OrBothEnds(MoveAs(r, 0, 1))}
        /\ LastOf(r) = {OrBothEnds(MoveAs(r, r.count - 1, r.count))}
    BY DEF FirstOf, LastOf, ServerScrollable
  <1>2. r.lo = 1 /\ r.count \in Nat
    BY ResultAssumption DEF Stuck, Buffer, Result
  <1>3. Stuck(MoveAs(r, 0, 1).r) /\ Stuck(MoveAs(r, r.count - 1, r.count).r)
    BY <1>2, MoveAsStuck
  <1> QED BY <1>1, <1>3, EndsStuck

\* sqli_result_absolute,
LEMMA AbsoluteStuck ==
  ASSUME Context, ~kind.scroll, ~Closed, NEW r, Stuck(r), NEW row \in Int,
         NEW o \in AbsoluteOf(r, row)
  PROVE  o.r.status = "PROTO_ERROR"
  <1>1. CASE row <= 0
    <2>1. o = Outcome(r, FALSE)
      BY <1>1 DEF AbsoluteOf, Outcome
    <2> QED BY <2>1 DEF Outcome, Stuck
  <1>2. CASE row > 0
    <2>1. o \in {OrAfterLast(p) : p \in {MoveAs(r, row - 1, row)}}
      BY <1>2 DEF AbsoluteOf, ServerScrollable, Outcome
    <2>2. r.lo = 1
      BY DEF Stuck, Buffer
    <2>3. Stuck(MoveAs(r, row - 1, row).r)
      BY <2>2, MoveAsStuck
    <2> QED BY <2>1, <2>3, EndsStuck
  <1> QED BY <1>1, <1>2

\* sqli_result_previous,
LEMMA PreviousStuck ==
  ASSUME Context, ~kind.scroll, ~Closed, NEW r, Placed(r), Stuck(r),
         NEW o \in PreviousOf(r)
  PROVE  o.r.status = "PROTO_ERROR"
  <1> DEFINE back == MoveAs(r, r.cursor - 1, RowNumber(r) - 1)
  <1>1. /\ RowNumber(r) = r.abs /\ r.abs \in Nat /\ r.cursor \in Int /\ r.lo = 1
        /\ r.abs > 0 => r.abs = r.lo + r.cursor
        /\ r.abs = 0 => r.cursor = -1
    BY NumberKnown, ResultAssumption DEF Placed, Buffer, Result, Context
  <1>2. \/ o \in LastOf(r)
        \/ o.r = BeforeFirst(r)
        \/ RowNumber(r) > 1 /\ o = back
        \/ RowNumber(r) > 1 /\ o \in AbsoluteOf(back.r, RowNumber(r) - 1)
    <2> DEFINE buffered == ~ServerScrollable \/ r.cursor \in 1 .. r.count - 1
    <2>1. CASE r.al
      BY <2>1 DEF PreviousOf, Outcome
    <2>2. CASE ~r.al /\ RowNumber(r) <= 1
      BY <2>2 DEF PreviousOf, Outcome
    <2>3. CASE ~r.al /\ RowNumber(r) > 1
      <3>1. o \in IF buffered /\ back.ok THEN {back}
                  ELSE AbsoluteOf(IF buffered THEN back.r ELSE r, RowNumber(r) - 1)
        BY <1>1, <2>3 DEF PreviousOf, Outcome
      <3>2. buffered
        BY DEF ServerScrollable
      <3> HIDE DEF back, buffered
      <3> QED BY <2>3, <3>1, <3>2
    <2>4. RowNumber(r) <= 1 \/ RowNumber(r) > 1
      BY <1>1
    <2> QED BY <2>1, <2>2, <2>3, <2>4, Zenon
  <1>3. BeforeFirst(r).status = "PROTO_ERROR"
    BY DEF BeforeFirst, Stuck, Buffer, Result
  <1>4. Stuck(back.r)
    BY <1>1, MoveAsStuck
  <1>5. back.r.status = "PROTO_ERROR"
    BY <1>4 DEF Stuck
  <1>6. RowNumber(r) - 1 \in Int
    BY <1>1
  <1> HIDE DEF back
  <1> QED BY <1>2, <1>3, <1>4, <1>5, <1>6, EndsOfStuck, AbsoluteStuck

\* and sqli_result_relative.
LEMMA RelativeStuck ==
  ASSUME Context, ~kind.scroll, ~Closed, NEW r, Placed(r), Stuck(r),
         NEW d \in Int, NEW o \in RelativeOf(r, d)
  PROVE  o.r.status = "PROTO_ERROR"
  <1>1. RowNumber(r) = r.abs /\ r.abs \in Nat
    BY NumberKnown, ResultAssumption DEF Context
  <1>2. \/ o.r = r \/ o.r = BeforeFirst(r)
        \/ o \in AbsoluteOf(r, r.abs + d) \/ o \in AbsoluteOf(r, 0 + d)
    <2> DEFINE lost == r.abs <= 0 /\ ~(r.bf /\ d > 0)
    <2>1. CASE d = 0
      <3>1. o = Outcome(r, r.cursor >= 0)
        BY <2>1 DEF RelativeOf, Outcome
      <3> QED BY <3>1 DEF Outcome
    <2>2. CASE d # 0 /\ lost
      BY <1>1, <2>2 DEF RelativeOf, Outcome
    <2>3. CASE d # 0 /\ ~lost
      BY <1>1, <2>3 DEF RelativeOf, Outcome
    <2> QED BY <2>1, <2>2, <2>3, Zenon
  <1>3. BeforeFirst(r).status = "PROTO_ERROR" /\ r.status = "PROTO_ERROR"
    BY DEF BeforeFirst, Stuck, Buffer, Result
  <1>4. r.abs + d \in Int /\ 0 + d \in Int
    BY <1>1
  <1> QED BY <1>2, <1>3, <1>4, AbsoluteStuck

\* No operation moves the cursor of an invalidated result to a row.
LEMMA ClosedStep ==
  ASSUME Context, Placed(res), Closed, [Next]_vars, res' # res
  PROVE  res'.cursor = -1 /\ ~out'.ok
  <1>1. /\ MarkClosed(res).cursor = -1
        /\ \A s : MarkClosed([res EXCEPT !.status = s]).cursor = -1
    BY DEF MarkClosed, Placed, Buffer, Result
  <1>2. ASSUME NEW op, NEW arg, NEW ends, ends = {Outcome(MarkClosed(res), FALSE)},
               Navigate(op, arg, ends)
        PROVE  res'.cursor = -1 /\ ~out'.ok
    BY <1>1, <1>2 DEF Navigate, Outcome
  <1>3. CASE First \/ Last \/ Previous
    BY <1>2, <1>3, ClosedRefuses DEF First, Last, Previous
  <1>4. ASSUME NEW row, Absolute(row) \/ Relative(row)
        PROVE  res'.cursor = -1 /\ ~out'.ok
    BY <1>2, <1>4, ClosedRefuses DEF Absolute, Relative
  <1>5. CASE Fetch
    <2>1. PICK o \in FetchOf(res) : res' = o.r /\ out'.ok = o.ok
      BY <1>5 DEF Fetch
    <2>2. \E q, s : o = Failing(q, s) /\ (q = res \/ \E t : q = [res EXCEPT !.status = t])
      BY <2>1, Zenon DEF FetchOf
    <2> QED BY <1>1, <2>1, <2>2 DEF Failing
  <1>6. ~LoseLink /\ \A how : ~EndTransaction(how)
    BY DEF LoseLink, EndTransaction
  <1> QED BY <1>3, <1>4, <1>5, <1>6 DEF Next, vars

\* No operation of a forward-only cursor clears a failure: its only failures
\* are a malformed row, and an epoch that moved on.
LEMMA StatusStep ==
  ASSUME IInv, [Next]_vars, res.status # "OK", ~ServerScrollable
  PROVE  res'.status = res.status
  <1>1. Context /\ Placed(res) /\ Buffer(res) /\ ~kind.scroll
    BY DEF IInv, Placed, Context, ServerScrollable
  <1>2. MarkClosed(res).status = res.status
    BY <1>1, MarkClosedPlaced
  <1>3. Fetch => res'.status = res.status
    <2>1. SUFFICES ASSUME Fetch PROVE res'.status = res.status
      OBVIOUS
    <2>2. PICK s : res' = Failing(res, s).r
      BY <2>1, Zenon DEF Fetch, FetchOf
    <2> QED BY <1>2, <2>2 DEF Failing
  <1>4. CASE Closed
    <2>1. ASSUME NEW op, NEW arg, NEW ends, ends = {Outcome(MarkClosed(res), FALSE)},
                 Navigate(op, arg, ends)
          PROVE  res'.status = res.status
      BY <1>2, <2>1 DEF Navigate, Outcome
    <2>2. First \/ Last \/ Previous => res'.status = res.status
      BY <1>4, <2>1, ClosedRefuses DEF First, Last, Previous
    <2>3. ASSUME NEW row, Absolute(row) \/ Relative(row)
          PROVE  res'.status = res.status
      BY <1>4, <2>1, <2>3, ClosedRefuses DEF Absolute, Relative
    <2>4. LoseLink \/ (\E how : EndTransaction(how)) \/ UNCHANGED vars => res' = res
      BY DEF LoseLink, EndTransaction, vars
    <2> QED BY <1>3, <2>2, <2>3, <2>4 DEF Next
  <1>5. CASE ~Closed
    <2>1. Stuck(res)
      BY <1>1, <1>5 DEF Stuck, Buffer, Result, Status
    <2>2. ASSUME NEW op, NEW arg, NEW ends, \A o \in ends : o.r.status = "PROTO_ERROR",
                 Navigate(op, arg, ends)
          PROVE  res'.status = res.status
      BY <2>1, <2>2 DEF Navigate, Stuck
    <2>3. First \/ Last \/ Previous => res'.status = res.status
      BY <1>1, <1>5, <2>1, <2>2, EndsOfStuck, PreviousStuck DEF First, Last, Previous
    <2>4. ASSUME NEW row \in Targets, Absolute(row) PROVE res'.status = res.status
      <3>1. row \in Int
        BY ResultAssumption
      <3> QED BY <1>1, <1>5, <2>1, <2>2, <2>4, <3>1, AbsoluteStuck DEF Absolute
    <2>5. ASSUME NEW d \in Offsets, Relative(d) PROVE res'.status = res.status
      <3>1. d \in Int
        BY ResultAssumption
      <3> QED BY <1>1, <1>5, <2>1, <2>2, <2>5, <3>1, RelativeStuck DEF Relative
    <2>6. LoseLink \/ (\E how : EndTransaction(how)) \/ UNCHANGED vars => res' = res
      BY DEF LoseLink, EndTransaction, vars
    <2> QED BY <1>3, <2>3, <2>4, <2>5, <2>6 DEF Next
  <1> QED BY <1>4, <1>5

\* Every step respects FailureSticks: the status stays and fetch reports it.
LEMMA SticksStep ==
  ASSUME IInv, [Next]_vars
  PROVE  [/\ res.status # "OK" /\ ~ServerScrollable =>
               /\ res'.status = res.status
               /\ IsFetch /\ res' # res /\ link # "discarded" => out'.status = res.status
          /\ Closed /\ res' # res => res'.cursor = -1 /\ ~out'.ok]_vars
  <1>1. res.status # "OK" /\ ~ServerScrollable => res'.status = res.status
    BY StatusStep
  <1>2. ASSUME res.status # "OK", IsFetch, res' # res, link # "discarded"
        PROVE  out'.status = res.status
    <2>1. Fetch
      BY <1>2, OnlyFetches DEF vars
    <2>2. FetchOf(res) = {Failing(res, res.status)}
      BY <1>2, Zenon DEF FetchOf
    <2> QED BY <2>1, <2>2 DEF Fetch, Failing
  <1>3. Closed /\ res' # res => res'.cursor = -1 /\ ~out'.ok
    BY ClosedStep DEF IInv
  <1> QED BY <1>1, <1>2, <1>3

\* A failure of a forward-only result stays recorded and is what fetch
\* reports, and no operation moves the cursor of an invalidated result to a
\* row.
THEOREM FailureAlwaysSticks == ASSUME Confined PROVE Spec => FailureSticks
  BY InitIInv, NextIInv, SticksStep, PTL DEF Spec, FailureSticks

-----------------------------------------------------------------------------
(* The positioned reader                                                   *)

\* A call of the operation has returned with outcome o.
Returned(op, arg, o) ==
    res' = o.r /\ out'.op = op /\ out'.arg = arg /\ out'.ok = o.ok /\ n' = n

\* The place before and after it.
LEMMA SeenPlaces ==
  ASSUME NEW op, NEW arg, NEW o, Returned(op, arg, o)
  PROVE  Position = PlaceOf(res) /\ Position' = PlaceOf(o.r)
  BY DEF Returned, Position, PlaceOf

\* A call that delivers row k reaches it in the reader's eyes,
LEMMA DeliveredReach ==
  ASSUME Context, NEW op, NEW arg, NEW o, NEW k, Delivered(o, k), Returned(op, arg, o)
  PROVE  k \in 1 .. n /\ S!Reach(op, arg, k)
  <1>1. Position' = k /\ k \in 1 .. n
    <2>1. /\ n \in Nat /\ o.r.abs \in 0 .. n /\ (o.r.abs > 0 => PlaceOf(o.r) = o.r.abs)
          /\ o.r.abs = 0 <=> o.r.cursor < 0
      BY PlaceKnown, NumberKnown DEF Delivered
    <2> QED BY <2>1, SeenPlaces, ResultAssumption DEF Delivered, Placed, Buffer, Result
  <1>2. n' = n /\ out'.op = op /\ out'.arg = arg /\ out'.ok
    BY DEF Returned, Delivered
  <1>3. n \in Nat
    BY PlaceKnown DEF Delivered
  <1> QED BY <1>1, <1>2, <1>3 DEF S!Reach, S!Report

\* one that delivers none fails,
LEMMA MissedFail ==
  ASSUME Context, NEW op, NEW arg, NEW o, NEW k, Missed(o, k), Returned(op, arg, o)
  PROVE  S!Fail(op, arg)
  <1>1. Position' \in {-1, n + 1}
    BY PlaceKnown, SeenPlaces DEF Missed
  <1>2. n' = n /\ out'.op = op /\ out'.arg = arg /\ ~out'.ok
    BY DEF Returned, Missed
  <1> QED BY <1>1, <1>2 DEF S!Fail, S!Report, S!Nowhere

\* and one whose target is row k does one or the other.
LEMMA ReachesServed ==
  ASSUME Context, NEW op, NEW arg, NEW o, NEW k, Reaches(o, k), Returned(op, arg, o)
  PROVE  (k \in 1 .. n /\ S!Reach(op, arg, k)) \/ S!Fail(op, arg)
  BY DeliveredReach, MissedFail DEF Reaches

\* A call on an invalidated result fails.
LEMMA ClosedFail ==
  ASSUME Context, Placed(res), Closed, NEW op, NEW arg, NEW o,
         o = Outcome(MarkClosed(res), FALSE), Returned(op, arg, o)
  PROVE  S!Fail(op, arg)
  <1>1. Missed(o, 0)
    BY MarkClosedPlaced DEF Missed, Outcome, Placed
  <1> QED BY <1>1, MissedFail

\* A call of a navigation operation returns with one of its outcomes.
LEMMA ReturnedFrom ==
  ASSUME NEW op, NEW arg, NEW outcomes, Navigate(op, arg, outcomes)
  PROVE  \E o \in outcomes : Returned(op, arg, o)
  BY DEF Navigate, Returned

\* sqli_result_first does what the reader expects of first,
LEMMA FirstServed ==
  ASSUME Context, Placed(res), First
  PROVE  S!First
  <1>1. PICK o \in FirstOf(res) : Returned("first", 0, o)
    BY ReturnedFrom DEF First
  <1>2. CASE Closed
    BY <1>1, <1>2, ClosedRefuses, ClosedFail DEF S!First
  <1>3. CASE ~Closed
    <2>1. (1 \in 1 .. n /\ S!Reach("first", 0, 1)) \/ S!Fail("first", 0)
      BY <1>1, <1>3, FirstReaches, ReachesServed DEF Placed
    <2>2. n \in Nat
      BY ResultAssumption DEF Context
    <2> QED BY <2>1, <2>2 DEF S!First
  <1> QED BY <1>2, <1>3

\* sqli_result_last of last,
LEMMA LastServed ==
  ASSUME Context, Placed(res), Last
  PROVE  S!Last
  <1>1. PICK o \in LastOf(res) : Returned("last", 0, o)
    BY ReturnedFrom DEF Last
  <1>2. CASE Closed
    BY <1>1, <1>2, ClosedRefuses, ClosedFail DEF S!Last
  <1>3. CASE ~Closed
    <2>1. (n \in 1 .. n /\ S!Reach("last", 0, n)) \/ S!Fail("last", 0)
      BY <1>1, <1>3, LastReaches, ReachesServed DEF Placed
    <2>2. n \in Nat
      BY ResultAssumption DEF Context
    <2> QED BY <2>1, <2>2 DEF S!Last
  <1> QED BY <1>2, <1>3

\* sqli_result_absolute of a move to a row,
LEMMA AbsoluteServed ==
  ASSUME Context, Placed(res), NEW row \in Targets, Absolute(row)
  PROVE  S!Absolute(row)
  <1>1. PICK o \in AbsoluteOf(res, row) : Returned("absolute", row, o)
    BY ReturnedFrom DEF Absolute
  <1>2. row \in Int
    BY ResultAssumption
  <1>3. CASE Closed
    BY <1>1, <1>3, ClosedRefuses, ClosedFail DEF S!Absolute
  <1>4. CASE ~Closed /\ row <= 0
    <2>1. o = Outcome(res, FALSE)
      BY <1>1, <1>4 DEF AbsoluteOf, Outcome
    <2>2. o.r = res /\ ~o.ok
      BY <2>1 DEF Outcome
    <2>3. Position' = Position /\ ~out'.ok
      BY <1>1, <2>2, SeenPlaces DEF Returned
    <2> QED BY <1>1, <1>4, <2>3 DEF S!Absolute, S!Refuse, S!Report, Returned
  <1>5. CASE ~Closed /\ row > 0
    <2>1. (row \in 1 .. n /\ S!Reach("absolute", row, row)) \/ S!Fail("absolute", row)
      BY <1>1, <1>2, <1>5, AbsoluteReaches, ReachesServed DEF Placed
    <2> QED BY <1>2, <1>5, <2>1 DEF S!Absolute
  <1> QED BY <1>2, <1>3, <1>4, <1>5

\* sqli_result_previous of a move back,
LEMMA PreviousServed ==
  ASSUME Context, Placed(res), Previous
  PROVE  S!Previous
  <1>1. PICK o \in PreviousOf(res) : Returned("previous", 0, o)
    BY ReturnedFrom DEF Previous
  <1>2. /\ n \in Nat /\ res.abs \in Nat
        /\ Position = PlaceOf(res) /\ Position' = PlaceOf(o.r)
        /\ ~res.al => Position = res.abs
        /\ res.al => Position \in {-1, n + 1}
    BY <1>1, PlaceKnown, SeenPlaces
  <1>3. CASE Closed
    BY <1>1, <1>3, ClosedRefuses, ClosedFail DEF S!Previous
  <1>4. CASE ~Closed /\ res.al /\ Reaches(o, n)
    <2>1. S!Reach("previous", 0, n) \/ S!Fail("previous", 0)
      BY <1>1, <1>4, ReachesServed
    <2>2. Position = S!Nowhere \/ (Position # S!Nowhere /\ Position - 1 = n)
      BY <1>2, <1>4 DEF S!Nowhere
    <2> QED BY <2>1, <2>2 DEF S!Previous
  <1>5. CASE /\ ~Closed /\ ~res.al /\ res.abs <= 1
             /\ o = Outcome(BeforeFirst(res), FALSE) /\ (res.lo = 1 \/ res.count = 0)
    <2>1. o.r = BeforeFirst(res) /\ ~o.ok
      BY <1>5 DEF Outcome
    <2>2. Position' = 0
      <3>1. BeforeFirst(res).bf /\ ~BeforeFirst(res).al /\ BeforeFirst(res).cursor = -1
        BY DEF BeforeFirst, Placed, Buffer, Result
      <3> QED BY <1>2, <2>1, <3>1 DEF PlaceOf
    <2>3. Position - 1 \in {-1, 0} /\ Position # -1
      BY <1>2, <1>5
    <2>4. S!Reach("previous", 0, Position - 1)
      BY <1>1, <1>2, <2>1, <2>2, <2>3 DEF S!Reach, S!Report, Returned
    <2> QED BY <2>3, <2>4 DEF S!Previous, S!Nowhere
  <1>6. CASE ~Closed /\ ~res.al /\ res.abs > 1 /\ Reaches(o, res.abs - 1)
    <2>1. S!Reach("previous", 0, res.abs - 1) \/ S!Fail("previous", 0)
      BY <1>1, <1>6, ReachesServed
    <2>2. Position = res.abs /\ Position # -1
      BY <1>2, <1>6
    <2> QED BY <2>1, <2>2 DEF S!Previous, S!Nowhere
  <1> QED BY <1>1, <1>3, <1>4, <1>5, <1>6, PreviousReaches

\* sqli_result_relative of a move by an offset,
LEMMA RelativeServed ==
  ASSUME Context, Placed(res), NEW d \in Offsets, Relative(d)
  PROVE  S!Relative(d)
  <1>1. PICK o \in RelativeOf(res, d) : Returned("relative", d, o)
    BY ReturnedFrom DEF Relative
  <1>2. /\ d \in Int /\ n \in Nat /\ res.abs \in 0 .. n
        /\ Position = PlaceOf(res) /\ Position' = PlaceOf(o.r)
        /\ res.abs > 0 => Position = res.abs
        /\ res.abs = 0 => Position \in {-1, 0, n + 1}
        /\ res.abs = 0 /\ res.bf => Position \in {-1, 0}
    BY <1>1, PlaceKnown, SeenPlaces, ResultAssumption
  <1>3. S!Positioned <=> res.abs > 0
    BY <1>2 DEF S!Positioned
  <1>4. out'.op = "relative" /\ out'.arg = d /\ out'.ok = o.ok /\ n' = n
    BY <1>1 DEF Returned
  <1>5. CASE Closed
    BY <1>1, <1>5, ClosedRefuses, ClosedFail DEF S!Relative
  <1>6. CASE d = 0 /\ o.r = res /\ (o.ok <=> res.abs > 0)
    <2>1. CASE res.abs > 0
      <3>1. S!Reach("relative", d, Position + d)
        BY <1>2, <1>4, <1>6, <2>1 DEF S!Reach, S!Report
      <3> QED BY <1>3, <2>1, <3>1 DEF S!Relative
    <2>2. CASE res.abs = 0
      <3>1. S!Refuse("relative", d)
        BY <1>2, <1>4, <1>6, <2>2 DEF S!Refuse, S!Report
      <3> QED BY <1>2, <1>3, <2>2, <3>1 DEF S!Relative
    <2> QED BY <1>2, <2>1, <2>2
  <1>7. CASE res.abs = 0 /\ o.r = res /\ ~o.ok
    <2>1. S!Refuse("relative", d)
      BY <1>2, <1>4, <1>7 DEF S!Refuse, S!Report
    <2> QED BY <1>2, <1>3, <1>7, <2>1 DEF S!Relative
  <1>8. CASE res.abs > 0 /\ res.abs + d <= 0 /\ o.r = BeforeFirst(res) /\ ~o.ok
    <2>1. Position' = 0
      <3>1. BeforeFirst(res).bf /\ ~BeforeFirst(res).al /\ BeforeFirst(res).cursor = -1
        BY DEF BeforeFirst, Placed, Buffer, Result
      <3> QED BY <1>2, <1>8, <3>1 DEF PlaceOf
    <2>2. S!Reach("relative", d, Position + d)
      BY <1>2, <1>4, <1>8, <2>1 DEF S!Reach, S!Report
    <2> QED BY <1>3, <1>8, <2>2 DEF S!Relative
  <1>9. CASE res.abs > 0 /\ res.abs + d > 0 /\ Reaches(o, res.abs + d)
    <2>1. S!Reach("relative", d, res.abs + d) \/ S!Fail("relative", d)
      BY <1>1, <1>9, ReachesServed
    <2> QED BY <1>2, <1>3, <1>9, <2>1 DEF S!Relative
  <1>10. CASE res.abs = 0 /\ res.bf /\ d > 0 /\ Reaches(o, d)
    <2>1. S!Reach("relative", d, d) \/ S!Fail("relative", d)
      BY <1>1, <1>10, ReachesServed
    <2> QED BY <1>2, <1>10, <2>1 DEF S!Relative, S!Nowhere
  <1> QED BY <1>1, <1>2, <1>5, <1>6, <1>7, <1>8, <1>9, <1>10, RelativeReaches

\* and sqli_result_fetch of a move to the next row.
LEMMA FetchServed ==
  ASSUME Context, Placed(res), Fetch
  PROVE  S!Fetch
  <1>1. PICK o \in FetchOf(res) : Returned("fetch", 0, o)
    BY DEF Fetch, Returned
  <1>2. /\ n \in Nat /\ res.abs \in Nat
        /\ Position = PlaceOf(res) /\ Position' = PlaceOf(o.r)
        /\ ~res.al => Position = res.abs
        /\ res.al => Position \in {-1, n + 1}
    BY <1>1, PlaceKnown, SeenPlaces
  <1>3. CASE Halts(o)
    <2>1. Position' \in {-1, n + 1}
      BY <1>2, <1>3, PlaceKnown DEF Halts
    <2> QED BY <1>1, <1>3, <2>1 DEF S!Fetch, S!Fail, S!Report, S!Nowhere, Returned,
         Halts
  <1>4. CASE Steps(res, o) /\ res.al
    <2>1. Position' \in {-1, n + 1} /\ ~o.ok
      BY <1>2, <1>4 DEF Steps
    <2> QED BY <1>1, <2>1 DEF S!Fetch, S!Fail, S!Report, S!Nowhere, Returned
  <1>5. CASE Steps(res, o) /\ ~res.al
    <2>1. S!Reach("fetch", 0, res.abs + 1) \/ S!Fail("fetch", 0)
      BY <1>1, <1>5, ReachesServed DEF Steps
    <2>2. Position = res.abs /\ Position # -1
      BY <1>2, <1>5
    <2> QED BY <2>1, <2>2 DEF S!Fetch, S!Nowhere
  <1> QED BY <1>3, <1>4, <1>5, FetchReaches

\* A result just returned stands before its first row.
LEMMA InitServed == Init => S!Init
  <1> SUFFICES ASSUME Init PROVE S!Init
    OBVIOUS
  <1>1. n \in Nat /\ Position = 0
    BY ResultAssumption DEF Init, Position, PlaceOf
  <1> QED BY <1>1 DEF Init, S!Init

\* Every step of the cursor is one of the reader, or changes nothing it sees.
LEMMA NextServed ==
  ASSUME IInv, [Next]_vars
  PROVE  [S!Next]_S!vars
  <1>1. Context /\ Placed(res)
    BY DEF IInv
  <1>2. ASSUME NEW row \in Targets, Absolute(row) PROVE S!Next
    BY <1>1, <1>2, AbsoluteServed DEF S!Next
  <1>3. ASSUME NEW d \in Offsets, Relative(d) PROVE S!Next
    BY <1>1, <1>3, RelativeServed DEF S!Next
  <1>4. First \/ Last \/ Previous \/ Fetch => S!Next
    BY <1>1, FirstServed, LastServed, PreviousServed, FetchServed DEF S!Next
  <1>5. LoseLink \/ (\E how : EndTransaction(how)) \/ UNCHANGED vars => UNCHANGED S!vars
    BY DEF LoseLink, EndTransaction, vars, S!vars, Position, PlaceOf
  <1> QED BY <1>2, <1>3, <1>4, <1>5 DEF Next

\* The row cursor implements the positioned reader of module Scroll: an
\* operation that delivers a row delivers the row at its target.
THEOREM CursorServes == ASSUME Confined PROVE Spec => ScrollService
  BY InitIInv, NextIInv, InitServed, NextServed, PTL DEF Spec, ScrollService, S!Spec
=============================================================================
