------------------------------- MODULE Cursors -------------------------------
(***************************************************************************)
(* The cursors of one connection: gaussdb._cursor_base, cursor,            *)
(* server_cursor and their asyncio twins, and what they share of the       *)
(* connection: its lock, wait(), notifies().                               *)
(*                                                                         *)
(* Calls on the connection exclude each other by its lock.  execute()      *)
(* takes a step per exchange with the server, between which the user may   *)
(* interrupt it; stream() and notifies() are generators that hold the lock *)
(* while the user has the item; the other calls are atomic.  A result is   *)
(* its status and the number of its rows; rows and notifications are       *)
(* numbered in the order of the server.                                    *)
(***************************************************************************)
EXTENDS Integers, SequencesExt

CONSTANTS ClientCursors, ServerCursors,
          AsyncCursors,  \* the server cursors that are asyncio's
          Uses,          \* what the connection may be used for: sets of cursors, and "notifies"
          MaxRows,       \* bound: rows of a result
          MaxNotifies,   \* bound: notifications that the server sends
          MaxDrift       \* bound: how far out of the rows a position is moved

ASSUME CursorsAssumption == /\ MaxRows \in Nat \ {0} /\ MaxNotifies \in Nat /\ MaxDrift \in Nat
                            /\ ClientCursors \cap ServerCursors = {}
                            /\ AsyncCursors \subseteq ServerCursors
                            /\ \A u \in Uses : u \subseteq ClientCursors \cup ServerCursors
                                                             \cup {"notifies"}

VARIABLES
  used,         \* which of Uses: never changes
  autocommit,   \* the autocommit of the connection: never changes
  txn,          \* the transaction status of the server
  call,         \* what holds Connection.lock: kind, cursor, stage, whether interrupted
  flight,       \* results that libpq has to give; <<..., EndOfResults>>
  cursor,       \* the client cursors
  scursor,      \* the server cursors
  portal,       \* the portals of the server, one name per server cursor
  notifier      \* notifications: see NotifierInit

cursorsVars == <<used, autocommit, txn, call, flight, cursor, scursor, portal, notifier>>

-----------------------------------------------------------------------------
(* Results and transactions                                                 *)

Tuples(n)    == [status |-> "tuples", n |-> n]
Command(n)   == [status |-> "command", n |-> n]
Single(n)    == [status |-> "single", n |-> n]
Fatal        == [status |-> "fatal", n |-> 0]
CanceledErr  == [status |-> "canceled", n |-> 0]
EndOfResults == [status |-> "none", n |-> 0]
NoResult     == EndOfResults      \* pgresult is None

IsError(r) == r.status \in {"fatal", "canceled"}
ACTIVE == flight # <<>>
Free == call.kind = "free"
Released == [kind |-> "free", cur |-> "none", stage |-> "none", interrupted |-> FALSE]
Called(kind, cur, stage) == [Released EXCEPT !.kind = kind, !.cur = cur, !.stage = stage]

\* The server after a statement that fails, or not.
After(status, failed) == IF failed /\ status # "IDLE" THEN "INERROR" ELSE status
Begun == IF autocommit \/ txn # "IDLE" THEN txn ELSE "INTRANS"

\* What a query of one or two statements may answer: an error ends it.
Answers ==
  LET good == {Tuples(n) : n \in 0..MaxRows} \cup {Command(n) : n \in {-1, 1}}
  IN  IF txn = "INERROR" THEN {<<Fatal>>}
      ELSE {<<r>> : r \in good \cup {Fatal}} \cup {<<Tuples(MaxRows), r>> : r \in good \cup {Fatal}}
Failing(rs) == \E i \in 1..Len(rs) : IsError(rs[i])

\* cancel_safe, within _try_cancel, which only logs its failures: the query is
\* canceled wherever it is, or it is too late.
TryCancel ==
  \/ UNCHANGED <<flight, txn>>
  \/ /\ ~Failing(flight)
     /\ \E n \in 0..(Len(flight) - 1) :
          flight' = SubSeq(flight, 1, n) \o <<CanceledErr, EndOfResults>>
     /\ txn' = IF call.stage = "begin" THEN "IDLE" ELSE After(txn, TRUE)

-----------------------------------------------------------------------------
(* Client cursors: execute                                                  *)

\* BaseCursor._reset; returning is _execmany_returning; given: the rows that
\* the user was given, in sequence, from the current result.
Reset == [closed |-> FALSE, results |-> <<>>, pgresult |-> NoResult, iresult |-> 0, pos |-> 0,
          rowcount |-> -1, given |-> <<>>]

\* BaseCursor._select_current_result
Select(cur, i) ==
  LET r == cur.results[i]
  IN  [cur EXCEPT !.iresult = i, !.pgresult = r, !.pos = 0, !.rowcount = r.n, !.given = <<>>]
\* BaseCursor._set_results, of an execute()
SetResults(cur, rs) == Select([cur EXCEPT !.results = rs], 1)

\* Cursor.execute: BEGIN first, if there is no transaction.
execute(c) ==
  /\ Free /\ c \in used /\ ~cursor[c].closed
  /\ cursor' = [cursor EXCEPT ![c] = Reset]
  /\ IF Begun # txn
     THEN /\ txn' = Begun /\ flight' = <<Command(0), EndOfResults>>
          /\ call' = Called("execute", c, "begin")
     ELSE \E rs \in Answers :
            /\ flight' = Append(rs, EndOfResults) /\ txn' = After(txn, Failing(rs))
            /\ call' = Called("execute", c, "query")
  /\ UNCHANGED <<used, autocommit, scursor, portal, notifier>>

\* The notifications that come with the answers go to the handlers and, unless
\* notifies() is running, to the backlog.
Notified(k) ==
  notifier' = [notifier EXCEPT !.unread = @ - k, !.handled = @ + k,
                               !.backlog = @ \o [i \in 1..k |-> notifier.handled + i]]

\* fetch_many, then the next statement, the results, or the error of the first
\* result that is one.  A call that was interrupted goes on to its end.
fetched ==
  /\ call.kind = "execute" /\ ACTIVE
  /\ \E k \in 0..notifier.unread : Notified(k)
  /\ LET rs == Front(flight)
     IN  IF Failing(rs)
         THEN call' = Released /\ flight' = <<>> /\ UNCHANGED <<txn, cursor>>
         ELSE IF call.stage = "begin"
         THEN \E answer \in Answers :
                /\ flight' = Append(answer, EndOfResults) /\ txn' = After(txn, Failing(answer))
                /\ call' = [call EXCEPT !.stage = "query"]
                /\ UNCHANGED cursor
         ELSE /\ call' = Released /\ flight' = <<>> /\ UNCHANGED txn
              /\ cursor' = [cursor EXCEPT ![call.cur] = SetResults(@, rs)]
  /\ UNCHANGED <<used, autocommit, scursor, portal>>

\* Connection.wait, interrupted: the query is canceled and waited for again.
interrupt ==
  /\ call.kind = "execute" /\ ACTIVE /\ ~call.interrupted
  /\ call' = [call EXCEPT !.interrupted = TRUE]
  /\ TryCancel
  /\ UNCHANGED <<used, autocommit, cursor, scursor, portal, notifier>>

\* The rows of the results of an executemany(), and their total.
ManyRows == UNION {[1..m -> 0..1] : m \in 0..2}
Total(ns) == FoldLeft(LAMBDA acc, n : acc + n, 0, ns)

\* Cursor.executemany: a result per set of parameters, up to the first error.
\* Without returning only the total of the rows is kept.
executemany(c) ==
  /\ Free /\ c \in used /\ ~cursor[c].closed
  /\ \E ns \in ManyRows, returning, failing \in BOOLEAN :
       /\ txn = "INERROR" => ns = <<>>
       /\ LET rs  == [i \in 1..Len(ns) |-> IF returning THEN Tuples(ns[i]) ELSE Command(ns[i])]
              cur == IF ~returning THEN [Reset EXCEPT !.rowcount = Total(ns)]
                     ELSE IF rs = <<>> THEN Reset ELSE SetResults(Reset, rs)
          IN  /\ cursor' = [cursor EXCEPT ![c] = cur]
              /\ txn' = After(Begun, failing)
  /\ UNCHANGED <<used, autocommit, call, flight, scursor, portal, notifier>>

-----------------------------------------------------------------------------
(* Client cursors: fetch                                                    *)

\* BaseCursor._check_result_for_fetch
Fetchable(c) == Free /\ c \in used /\ ~cursor[c].closed /\ cursor[c].pgresult.status = "tuples"

\* Transformer.load_rows from the position on, at most n of them.
LoadRows(c, n) ==
  LET cur  == cursor[c]
      last == IF cur.pos + n < cur.pgresult.n THEN cur.pos + n ELSE cur.pgresult.n
  IN  [cur EXCEPT !.pos = last, !.given = @ \o [i \in 1..(last - cur.pos) |-> cur.pos + i]]

\* fetchone and iteration, fetchmany, fetchall
fetch(c) ==
  /\ Fetchable(c)
  /\ \E n \in 1..(MaxRows + 1) : cursor' = [cursor EXCEPT ![c] = LoadRows(c, n)]
  /\ UNCHANGED <<used, autocommit, txn, call, flight, scursor, portal, notifier>>

\* BaseCursor._scroll: the row to go to must be there.
scroll(c) ==
  /\ Fetchable(c)
  /\ \E p \in 0..MaxRows : /\ p < cursor[c].pgresult.n
                           /\ cursor' = [cursor EXCEPT ![c].pos = p, ![c].given = <<>>]
  /\ UNCHANGED <<used, autocommit, txn, call, flight, scursor, portal, notifier>>

\* BaseCursor.nextset
nextset(c) ==
  /\ Free /\ c \in used /\ cursor[c].iresult < Len(cursor[c].results)
  /\ cursor' = [cursor EXCEPT ![c] = Select(@, cursor[c].iresult + 1)]
  /\ UNCHANGED <<used, autocommit, txn, call, flight, scursor, portal, notifier>>

\* BaseCursor._close
close(c) ==
  /\ Free /\ c \in used /\ ~cursor[c].closed
  /\ cursor' = [cursor EXCEPT ![c] = [Reset EXCEPT !.closed = TRUE]]
  /\ UNCHANGED <<used, autocommit, txn, call, flight, scursor, portal, notifier>>

-----------------------------------------------------------------------------
(* Client cursors: stream                                                   *)

\* BaseCursor._stream_send_gen, after a BEGIN: rows one by one, and what ends them.
stream(c) ==
  /\ Free /\ c \in used /\ ~cursor[c].closed
  /\ cursor' = [cursor EXCEPT ![c] = Reset]
  /\ call' = Called("stream", c, "send")
  /\ \E n \in 0..MaxRows, last \in {Tuples(0), Command(0), Fatal} :
       /\ txn = "INERROR" => n = 0 /\ last = Fatal
       /\ last = Command(0) => n = 0
       /\ flight' = [i \in 1..n |-> Single(i)] \o <<last, EndOfResults>>
       /\ txn' = After(Begun, last = Fatal)
  /\ UNCHANGED <<used, autocommit, scursor, portal, notifier>>

\* What the loop at the end of stream() leaves of what libpq has: an error stops it.
DrainLoop(f) == IF Failing(f) THEN <<EndOfResults>> ELSE <<>>
\* Mutant of StreamDrained: the result after an error is not read.
StreamDrained_NoLast(f) == DrainLoop(f)
\* ... and what the fetch after the loop leaves.
StreamDrained(f) == IF DrainLoop(f) = <<>> THEN <<>> ELSE Tail(DrainLoop(f))

\* BaseCursor._stream_fetchone_gen, and the row for the user; or the end of the
\* stream; or an error, and then the result after it.
stream_next ==
  /\ call.kind = "stream" /\ call.stage # "leave"
  /\ \E k \in 0..notifier.unread : Notified(k)
  /\ LET r == flight[1]
     IN  IF r.status = "single"
         THEN /\ flight' = Tail(flight)
              /\ cursor' = [cursor EXCEPT ![call.cur].pgresult = r, ![call.cur].given = Append(@, r.n)]
              /\ call' = [call EXCEPT !.stage = "row"]
         ELSE flight' = (IF IsError(r) THEN StreamDrained(Tail(flight)) ELSE <<>>) /\ call' = Released /\ UNCHANGED cursor
  /\ UNCHANGED <<used, autocommit, txn, scursor, portal>>

\* The user leaves the loop at a row, or interrupts the wait for one.
stream_leave ==
  /\ call.kind = "stream" /\ call.stage # "leave"
  /\ call' = [call EXCEPT !.stage = "leave"]
  /\ TryCancel
  /\ UNCHANGED <<used, autocommit, cursor, scursor, portal, notifier>>
stream_drain ==
  /\ call.kind = "stream" /\ call.stage = "leave"
  /\ \E k \in 0..notifier.unread : Notified(k)
  /\ flight' = StreamDrained(flight) /\ call' = Released
  /\ UNCHANGED <<used, autocommit, txn, cursor, scursor, portal>>

-----------------------------------------------------------------------------
(* Server cursors                                                           *)

NoPortal == [open |-> FALSE, hold |-> FALSE, committed |-> FALSE, n |-> 0, at |-> 0]
\* A portal before its first row; at is the row it is on, n + 1 after the last.
Portal(n, hold) == [open |-> TRUE, hold |-> hold, committed |-> FALSE, n |-> n, at |-> 0]
Clip(p, n) == IF p < 0 THEN 0 ELSE IF p > n + 1 THEN n + 1 ELSE p
Usable(s) == portal[s].open /\ txn # "INERROR"
\* A server cursor: batch is how many rows an iteration over it has fetched and not
\* yielded yet; it strayed if its position does not tell where its portal is: moved
\* out of the rows or from after the last one, described elsewhere than before the
\* first, declared or moved to a row within an iteration, an iteration left within
\* a batch, a scroll of asyncio.  inerror is told at close_portal.  The bound on positions
\* is met only by a cursor that strayed.
Positions == -MaxDrift..(MaxRows + MaxDrift)

\* commit(), rollback(): the portals of the transaction go, but for those WITH
\* HOLD of a transaction that commits.
end_transaction ==
  /\ Free /\ txn # "IDLE" /\ txn' = "IDLE"
  /\ \E commit \in BOOLEAN :
       portal' = [s \in ServerCursors |->
         IF portal[s].hold /\ (portal[s].committed \/ (commit /\ txn = "INTRANS"))
         THEN [portal[s] EXCEPT !.committed = TRUE] ELSE NoPortal]
  /\ UNCHANGED <<used, autocommit, call, flight, cursor, scursor, notifier>>

\* ServerCursorMixin._close_gen: whether it sends a CLOSE.  pg_cursors is asked
\* about a portal that was not described.
ClosesPortal(s) == /\ txn # "INERROR" /\ (scursor[s].hold \/ txn # "IDLE")
                   /\ (scursor[s].described \/ portal[s].open)
CloseFails(s) == ClosesPortal(s) /\ ~portal[s].open

\* ServerCursor.execute: _declare_gen, which closes the portal it has described,
\* before it finds that the cursor is closed.  A portal that is not WITH HOLD
\* needs a transaction.
declare(s) ==
  LET sc      == scursor[s]
      closes  == sc.described /\ ClosesPortal(s)
      there   == portal[s].open /\ ~closes
      refused == there \/ txn = "INERROR" \/ (~sc.hold /\ Begun = "IDLE")
  IN  /\ Free /\ s \in used
      /\ UNCHANGED <<used, autocommit, call, flight, cursor, notifier>>
      /\ IF closes /\ CloseFails(s)
         THEN txn' = After(txn, TRUE) /\ UNCHANGED <<scursor, portal>>
         ELSE IF sc.closed
         THEN /\ scursor' = [scursor EXCEPT ![s].described = FALSE]
              /\ portal' = IF closes THEN [portal EXCEPT ![s] = NoPortal] ELSE portal
              /\ UNCHANGED txn
         ELSE /\ txn' = After(Begun, refused)
              /\ scursor' = [scursor EXCEPT ![s] =
                   [@ EXCEPT !.described = ~refused, !.pos = 0, !.strayed = sc.batch > 0]]
              /\ IF refused
                 THEN portal' = IF closes THEN [portal EXCEPT ![s] = NoPortal] ELSE portal
                 ELSE \E n \in 0..MaxRows :
                        portal' = [portal EXCEPT ![s] =
                          [Portal(n, sc.hold) EXCEPT !.committed = Begun = "IDLE"]]

\* Mutant of Given: fetchmany() counts the rows it asks for.
Given_Asked(s, n) == n
\* The rows that FETCH FORWARD n gives.
Given(s, n) == LET left == portal[s].n - portal[s].at
               IN  IF left < 0 THEN 0 ELSE IF n < left THEN n ELSE left

\* ServerCursor.fetchone, fetchmany, fetchall: _fetch_gen, and the position moves
\* over the rows; iterating, it moves as each is yielded.  A portal opened by
\* someone else is described first, wherever it is.
fetch_forward(s) ==
  LET sc    == scursor[s]
      begun == IF sc.described THEN txn ELSE Begun
      base  == IF sc.described THEN sc.pos ELSE 0
  IN  /\ Free /\ s \in used /\ ~sc.closed
      /\ IF ~Usable(s)
         THEN /\ txn' = After(begun, TRUE)
              /\ scursor' = [scursor EXCEPT ![s].pos = base]
              /\ UNCHANGED portal
         ELSE \E n \in 1..(MaxRows + 1), iterating \in BOOLEAN :
                /\ iterating => sc.batch = 0
                /\ base + Given(s, n) \in Positions
                /\ txn' = begun
                /\ portal' = [portal EXCEPT ![s].at = Clip(@ + n, portal[s].n)]
                /\ scursor' = [scursor EXCEPT ![s] =
                     [sc EXCEPT !.pos = IF iterating THEN base ELSE base + Given(s, n),
                                !.batch = IF iterating THEN Given(s, n) ELSE sc.batch,
                                !.strayed = IF sc.described THEN sc.strayed
                                            ELSE portal[s].at # 0 \/ sc.batch > 0,
                                !.described = TRUE]]
      /\ UNCHANGED <<used, autocommit, call, flight, cursor, notifier>>

\* ServerCursor.__iter__ between two fetches: the next row of the batch is yielded.
yield_row(s) ==
  LET sc == scursor[s]
  IN  /\ s \in used /\ sc.batch > 0 /\ sc.pos + 1 \in Positions
      /\ scursor' = [scursor EXCEPT ![s] =
           [sc EXCEPT !.pos = sc.pos + 1, !.batch = sc.batch - 1]]
      /\ UNCHANGED <<used, autocommit, txn, call, flight, cursor, portal, notifier>>
\* The user leaves the loop within a batch: its other rows are lost to him, and the
\* position stays behind the portal.
leave_loop(s) ==
  /\ s \in used /\ scursor[s].batch > 0
  /\ scursor' = [scursor EXCEPT ![s] = [@ EXCEPT !.batch = 0, !.strayed = TRUE]]
  /\ UNCHANGED <<used, autocommit, txn, call, flight, cursor, portal, notifier>>

\* ServerCursor.scroll, AsyncServerCursor.scroll: MOVE, of any cursor; backwards
\* only if the portal can.  An asyncio cursor does not move its position.
scroll_portal(s) ==
  /\ Free /\ s \in used
  /\ \E v \in -MaxDrift..(MaxRows + MaxDrift), absolute \in BOOLEAN :
       LET sc     == scursor[s]
           p      == portal[s]
           target == IF ~absolute THEN p.at + v ELSE IF v < 0 THEN p.n + 1 + v ELSE v
           moved  == IF s \in AsyncCursors THEN sc.pos ELSE IF absolute THEN v ELSE sc.pos + v
           strays == \/ s \in AsyncCursors
                     \/ absolute /\ (v \notin 0..p.n \/ sc.batch > 0)
                     \/ ~absolute /\ (sc.strayed \/ p.at > p.n \/ target \notin 0..p.n)
       IN  IF Usable(s)
           THEN \/ /\ moved \in Positions
                   /\ portal' = [portal EXCEPT ![s].at = Clip(target, p.n)]
                   /\ scursor' = [scursor EXCEPT ![s] = [sc EXCEPT !.pos = moved, !.strayed = strays]]
                   /\ UNCHANGED txn
                \/ target < p.at /\ txn' = After(txn, TRUE) /\ UNCHANGED <<scursor, portal>>
           ELSE txn' = After(txn, TRUE) /\ UNCHANGED <<scursor, portal>>
  /\ UNCHANGED <<used, autocommit, call, flight, cursor, notifier>>

\* ServerCursor.close; inerror: what it was closed in kept it from closing the portal.
close_portal(s) ==
  /\ Free /\ s \in used /\ ~scursor[s].closed
  /\ IF CloseFails(s) THEN txn' = After(txn, TRUE) /\ UNCHANGED <<scursor, portal>>
     ELSE /\ scursor' = [scursor EXCEPT ![s] = [@ EXCEPT !.closed = TRUE, !.pos = 0,
                                                        !.inerror = txn = "INERROR"]]
          /\ portal' = IF ClosesPortal(s) THEN [portal EXCEPT ![s] = NoPortal] ELSE portal
          /\ UNCHANGED txn
  /\ UNCHANGED <<used, autocommit, call, flight, cursor, notifier>>

-----------------------------------------------------------------------------
(* Notifications                                                            *)

\* unread: sent by the server; handled: read, and given to the handlers; batch:
\* what notifies() has to give, from the backlog or from the server; received
\* and stop: nreceived and stop_after; given: what the user was given; lost:
\* whether notifies() was closed with a part of a packet.
NotifierInit == [unread |-> 0, handled |-> 0, backlog |-> <<>>, batch |-> <<>>, old |-> FALSE,
                 received |-> 0, stop |-> 0, given |-> <<>>, lost |-> FALSE]
NoStop == MaxNotifies + 1

notify ==
  /\ "notifies" \in used /\ notifier.unread + notifier.handled < MaxNotifies
  /\ notifier' = [notifier EXCEPT !.unread = @ + 1]
  /\ UNCHANGED <<used, autocommit, txn, call, flight, cursor, scursor, portal>>

\* Connection.notifies: the backlog is taken, and nothing added to it meanwhile.
notifies ==
  /\ Free /\ "notifies" \in used
  /\ \E stop \in 0..NoStop :
       notifier' = [notifier EXCEPT !.batch = notifier.backlog, !.backlog = <<>>,
                                    !.old = TRUE, !.received = 0, !.stop = stop]
  /\ call' = Called("notifies", "none", IF notifier.backlog = <<>> THEN "wait" ELSE "batch")
  /\ UNCHANGED <<used, autocommit, txn, flight, cursor, scursor, portal>>

\* generators.notifies: what there is, if anything, within the interval.
notifies_wait ==
  /\ call.kind = "notifies" /\ call.stage = "wait"
  /\ \E k \in 0..notifier.unread :
       notifier' = [notifier EXCEPT !.unread = @ - k, !.handled = @ + k, !.old = FALSE,
                                    !.batch = [i \in 1..k |-> notifier.handled + i]]
  /\ call' = [call EXCEPT !.stage = "batch"]
  /\ UNCHANGED <<used, autocommit, txn, flight, cursor, scursor, portal>>

\* The user is given the next; after a batch there is an end, if enough were
\* received or the time has come, or another wait.
notifies_next ==
  /\ call.kind = "notifies" /\ call.stage = "batch"
  /\ IF notifier.batch # <<>>
     THEN /\ notifier' = [notifier EXCEPT !.batch = Tail(@), !.received = @ + 1,
                                          !.given = Append(@, notifier.batch[1])]
          /\ UNCHANGED call
     ELSE \/ call' = Released /\ UNCHANGED notifier
          \/ /\ notifier.received < notifier.stop \/ notifier.stop = NoStop
             /\ call' = [call EXCEPT !.stage = "wait"] /\ UNCHANGED notifier
  /\ UNCHANGED <<used, autocommit, txn, flight, cursor, scursor, portal>>

\* Mutant of BacklogLeft: the backlog starts anew.
BacklogLeft_None == <<>>
\* What notifies() leaves, closed at an item or interrupted in its wait.
BacklogLeft == IF notifier.old THEN notifier.batch ELSE <<>>
notifies_close ==
  /\ call.kind = "notifies" /\ (call.stage = "wait" \/ notifier.received > 0)
  /\ notifier' = [notifier EXCEPT !.backlog = BacklogLeft, !.batch = <<>>,
                                  !.lost = @ \/ (~notifier.old /\ notifier.batch # <<>>)]
  /\ call' = Released
  /\ UNCHANGED <<used, autocommit, txn, flight, cursor, scursor, portal>>

-----------------------------------------------------------------------------

CursorsInit ==
  /\ used \in Uses /\ autocommit \in BOOLEAN
  /\ cursor = [c \in ClientCursors |-> Reset]
  /\ \E holding \in SUBSET (ServerCursors \cap used) :
       /\ scursor = [s \in ServerCursors |->
            [closed |-> FALSE, described |-> FALSE, hold |-> s \in holding, pos |-> 0,
             batch |-> 0, strayed |-> FALSE, inerror |-> FALSE]]
       \* a portal may be there already, of an SQL statement of the transaction
       /\ \/ txn = "IDLE" /\ portal = [s \in ServerCursors |-> NoPortal]
          \/ /\ txn = "INTRANS"
             /\ \E n \in 0..MaxRows : \E at \in 0..n :
                  portal = [s \in ServerCursors |->
                    IF s \in used THEN [Portal(n, s \in holding) EXCEPT !.at = at] ELSE NoPortal]
  /\ call = Released /\ flight = <<>> /\ notifier = NotifierInit

CursorsNext ==
  \/ \E c \in ClientCursors : \/ execute(c) \/ executemany(c) \/ stream(c) \/ close(c)
                              \/ fetch(c) \/ scroll(c) \/ nextset(c)
  \/ fetched \/ interrupt \/ stream_next \/ stream_leave \/ stream_drain
  \/ \E s \in ServerCursors : declare(s) \/ fetch_forward(s) \/ scroll_portal(s) \/ close_portal(s)
                               \/ yield_row(s) \/ leave_loop(s)
  \/ end_transaction \/ notify \/ notifies \/ notifies_wait \/ notifies_next \/ notifies_close

CursorsSpec == CursorsInit /\ [][CursorsNext]_cursorsVars

-----------------------------------------------------------------------------
(* Properties                                                               *)

CursorsTypeOK ==
  /\ txn \in {"IDLE", "INTRANS", "INERROR"}
  /\ call.kind \in {"free", "execute", "stream", "notifies"}
  /\ \A i \in 1..Len(flight) : (flight[i] = EndOfResults) = (i = Len(flight))
  /\ \A c \in ClientCursors : cursor[c].iresult \in 0..Len(cursor[c].results)
  /\ \A s \in ServerCursors : portal[s].at \in 0..(portal[s].n + 1)
                              /\ scursor[s].pos \in Positions /\ scursor[s].batch \in 0..MaxRows

\* Whoever takes the connection finds nothing in flight on it: no call leaves a
\* result unread in libpq, by its end, an error, an interruption, the cancel
\* that it makes, or a stream() abandoned at any row.
NothingInFlight == Free \/ call.kind = "notifies" => flight = <<>>

\* A client cursor is given the rows of its current result one after the other,
\* none twice and none skipped, and its position is the row after the last one.
\* A server cursor is where its portal is, less the rows that an iteration has yet
\* to yield; unless it strayed.
ClientInOrder(c) ==
  LET cur == cursor[c]
  IN  /\ \A i \in 1..(Len(cur.given) - 1) : cur.given[i + 1] = cur.given[i] + 1
      /\ cur.pgresult.status = "tuples" =>
           cur.pos \in 0..cur.rowcount /\ (cur.given # <<>> => Last(cur.given) = cur.pos)
Agrees(s) == LET sc == scursor[s] p == portal[s]
             IN  sc.described /\ ~sc.closed /\ p.open =>
                  sc.pos + sc.batch = (IF p.at > p.n THEN p.n ELSE p.at)
PositionsAgree == /\ \A c \in ClientCursors : ClientInOrder(c)
                  /\ \A s \in ServerCursors : scursor[s].strayed \/ Agrees(s)

\* A server cursor that was closed, in a transaction or out of any, left no portal.
ClosedLeavesNothing ==
  \A s \in ServerCursors : scursor[s].closed /\ ~scursor[s].inerror => ~portal[s].open

\* Of the notifications, what the user was given, what notifies() is giving and
\* what is in the backlog are all that were read, each once and in order; those
\* of a packet may be lost when notifies() is closed within it.
NotifiedInOrder ==
  LET all == notifier.given \o notifier.batch \o notifier.backlog
  IN  /\ \A i \in 1..(Len(all) - 1) : all[i] < all[i + 1]
      /\ ~notifier.lost => all = [i \in 1..notifier.handled |-> i]
=============================================================================
