------------------------------- MODULE Server -------------------------------
(***************************************************************************)
(* The server's side of one session: the transaction in progress, as a     *)
(* stack of savepoints with the rows written under each, the rows that     *)
(* were committed, and the transactions that were prepared.  The server is *)
(* not part of the repository: these are the answers its code expects.     *)
(*                                                                         *)
(* A command maps a session to the set of its possible outcomes, a new     *)
(* session and whether the command succeeds.                               *)
(***************************************************************************)
EXTENDS Integers, Sequences

CONSTANT Losses    \* may the connection to the server be lost?

\* A savepoint, or, at the bottom of the stack, the transaction itself.
Level(n) == [name |-> n, rows |-> {}]

\* A new session in a database without rows.
NewSession == [status |-> "IDLE", levels |-> <<>>, committed |-> {},
               prepared |-> {}]

Done(s) == [srv |-> s, ok |-> TRUE]
Failed(s) == [srv |-> s, ok |-> FALSE]

Dead(s) == [s EXCEPT !.status = "UNKNOWN", !.levels = <<>>]
Ended(s) == [s EXCEPT !.status = "IDLE", !.levels = <<>>]

\* An error aborts the transaction in progress, if any.
Aborted(s) == IF s.status = "IDLE" THEN s ELSE [s EXCEPT !.status = "INERROR"]

RowsOf(levels) == UNION {levels[i].rows : i \in DOMAIN levels}
Pending(s) == RowsOf(s.levels)

\* The connection may be lost before the command is executed or after.
Outcomes(s, S) ==
  IF s.status = "UNKNOWN" THEN {Failed(s)}
  ELSE S \cup IF Losses THEN {Failed(Dead(s))} \cup {Failed(Dead(o.srv)) : o \in S}
                        ELSE {}

Begin(s) == Outcomes(s, {Done([s EXCEPT !.status = "INTRANS",
                                        !.levels = <<Level(0)>>])})

Savepoint(s, n) ==
  Outcomes(s, IF s.status = "INTRANS"
              THEN {Done([s EXCEPT !.levels = Append(@, Level(n))])}
              ELSE {Failed(Aborted(s))})

\* The most recent savepoint with name n.
Named(s, n) == {i \in DOMAIN s.levels : i > 1 /\ s.levels[i].name = n}
Latest(s, n) == CHOOSE i \in Named(s, n) : \A j \in Named(s, n) : j <= i

\* RELEASE: the rows under the savepoint join the level below.
Merged(levels, i) ==
  [j \in 1..(i - 1) |->
     IF j = i - 1 THEN [levels[j] EXCEPT !.rows =
                          RowsOf(SubSeq(levels, j, Len(levels)))]
                  ELSE levels[j]]
Release(s, n) ==
  Outcomes(s, IF s.status = "INTRANS" /\ Named(s, n) # {}
              THEN {Done([s EXCEPT !.levels = Merged(@, Latest(s, n))])}
              ELSE {Failed(Aborted(s))})

\* ROLLBACK TO: discard what was done since the savepoint, which remains.
RollbackTo(s, n) ==
  Outcomes(s, IF s.status # "IDLE" /\ Named(s, n) # {}
              THEN {Done([s EXCEPT !.status = "INTRANS", !.levels =
                            Append(SubSeq(@, 1, Latest(s, n) - 1), Level(n))])}
              ELSE {Failed(Aborted(s))})

\* COMMIT: may fail (a deferred constraint); on an aborted transaction it
\* rolls back, without an error.
Commit(s) ==
  Outcomes(s, CASE s.status = "INTRANS" ->
                     {Done([Ended(s) EXCEPT !.committed = @ \cup Pending(s)]),
                      Failed(Ended(s))}
                [] OTHER -> {Done(Ended(s))})

Rollback(s) == Outcomes(s, {Done(Ended(s))})

\* PREPARE TRANSACTION: ends the transaction in any case, as COMMIT does.
Prepare(s, x) ==
  Outcomes(s, CASE s.status = "INTRANS" ->
                     {Failed(Ended(s))}
                     \cup IF \E p \in s.prepared : p.xid = x THEN {}
                          ELSE {Done([Ended(s) EXCEPT !.prepared =
                                  @ \cup {[xid |-> x, rows |-> Pending(s)]}])}
                [] OTHER -> {Done(Ended(s))})

\* COMMIT PREPARED and ROLLBACK PREPARED: outside of a transaction only.
FinishPrepared(s, x, commits) ==
  Outcomes(s,
    IF s.status = "IDLE" /\ \E p \in s.prepared : p.xid = x
    THEN {Done([s EXCEPT !.prepared = {p \in @ : p.xid # x},
                         !.committed = IF commits
                           THEN @ \cup UNION {p.rows : p \in {q \in s.prepared :
                                                              q.xid = x}}
                           ELSE @])}
    ELSE {Failed(Aborted(s))})

\* A statement that writes the rows w, or fails.
Write(s, w) ==
  Outcomes(s,
    CASE s.status = "IDLE" ->
           {Done([s EXCEPT !.committed = @ \cup w]), Failed(s)}
      [] s.status = "INTRANS" ->
           {Done([s EXCEPT !.levels[Len(s.levels)].rows = @ \cup w]),
            Failed(Aborted(s))}
      [] OTHER -> {Failed(s)})

\* Go on with the next command if the ones before succeeded.
Then(S, Next(_)) == UNION {IF o.ok THEN Next(o.srv) ELSE {o} : o \in S}
=============================================================================
