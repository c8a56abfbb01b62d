------------------------------ MODULE Session ------------------------------
(***************************************************************************)
(* The transactions of one connection: gaussdb.Connection (commit,         *)
(* rollback, autocommit, two-phase commit) and the blocks of               *)
(* Connection.transaction(), used by threads that share it.  Every call    *)
(* holds the connection's lock, so it is one action.                       *)
(*                                                                         *)
(* Savepoint names are integers: 0 is no name, k > 0 is _pg3_k, negative   *)
(* ones are chosen by the program.  What a program writes is a set of      *)
(* rows, each written once.                                                *)
(***************************************************************************)
EXTENDS Server, FiniteSets

CONSTANTS
  Threads,   \* threads that use the connection
  Blocks,    \* Transaction objects
  Rows,      \* rows that are written
  Xids,      \* identifiers of two-phase transactions
  NameOf,    \* the savepoint name each is given: 0, or a negative integer
  Forced     \* those with force_rollback

NoBlock == "no block"
Unwritten == "unwritten"
NoXid == "no xid"

ASSUME SessionAssumption ==
  /\ NameOf \in [Blocks -> {n \in Int : n <= 0}]
  /\ Forced \subseteq Blocks /\ Losses \in BOOLEAN
  /\ NoBlock \notin Blocks /\ Unwritten \notin Blocks

VARIABLES
  server,            \* the server's side of the session
  autocommit,        \* _autocommit
  num_transactions,  \* _num_transactions
  tpc,               \* _tpc
  state,             \* _entered, _exited and how: the state of each block
  live,              \* the blocks entered and not exited, in order of entry
  raising,           \* the exception that propagates in each thread
  within,            \* the blocks that were live when each row was written
  orderly            \* has the program respected the nesting of its blocks?
calls == <<autocommit, num_transactions, tpc>>
history == <<within, orderly>>
vars == <<server, calls, state, live, raising, history>>

NoTpc == [xid |-> NoXid, prepared |-> FALSE]
Exc(k, b) == [kind |-> k, target |-> b]
NoExc == Exc("none", NoBlock)
Error == Exc("error", NoBlock)

Init ==
  /\ server = NewSession /\ autocommit \in BOOLEAN
  /\ num_transactions = 0 /\ tpc = NoTpc
  /\ state = [b \in Blocks |-> "new"] /\ live = <<>>
  /\ raising = [t \in Threads |-> NoExc]
  /\ within = [r \in Rows |-> {Unwritten}] /\ orderly = TRUE

Raise(t, e) == raising' = [raising EXCEPT ![t] = e]
Runs(t) == raising[t] = NoExc

\* A call whose command succeeds returns, one whose command fails raises.
Answer(t, o) == server' = o.srv /\ Raise(t, IF o.ok THEN NoExc ELSE Error)

\* A call refused by the client: it raises and changes nothing.
Refuse(t) == Raise(t, Error) /\ UNCHANGED <<server, calls>>

Written == {r \in Rows : within[r] # {Unwritten}}
LiveBlocks == {live[i].block : i \in DOMAIN live}

\* The blocks of thread t: their places in live.
Own(t) == {i \in DOMAIN live : live[i].by = t}

-----------------------------------------------------------------------------
(* Transaction blocks                                                       *)

\* _get_enter_commands.
EnterCommands(outer, n) ==
  LET began == IF outer THEN Begin(server) ELSE {Done(server)}
  IN  IF n # 0 THEN Then(began, LAMBDA s : Savepoint(s, n)) ELSE began

\* _push_savepoint: an inner block always has a name.
PushName(outer, n) == IF outer \/ n # 0 THEN n ELSE num_transactions + 1

\* __enter__: count the block, then send its commands.
enter(t, b) ==
  LET outer == server.status = "IDLE"
      name  == PushName(outer, NameOf[b])
  IN
  /\ Runs(t) /\ state[b] = "new"
  /\ IF outer /\ num_transactions # 0     \* the assertion of _push_savepoint
     THEN /\ state' = [state EXCEPT ![b] = "failed"]
          /\ Raise(t, Error)
          /\ UNCHANGED <<server, num_transactions, live, orderly>>
     ELSE \E o \in EnterCommands(outer, name) :
          /\ Answer(t, o)
          /\ num_transactions' = num_transactions + 1
          /\ state' = [state EXCEPT ![b] = IF o.ok THEN "live" ELSE "failed"]
          /\ live' = IF ~o.ok THEN live ELSE
               Append(live, [block |-> b, by |-> t, outer |-> outer,
                             name |-> name, index |-> num_transactions])
          /\ orderly' = (orderly /\ server.status # "INERROR")
  /\ UNCHANGED <<autocommit, tpc, within>>

\* _get_commit_commands.
CommitCommands(tx) ==
  IF tx.outer THEN Commit(server) ELSE Release(server, tx.name)

RollbackCommands_Release(tx) ==
  IF tx.outer THEN Rollback(server) ELSE Release(server, tx.name)

\* _get_rollback_commands.
RollbackCommands(tx) ==
  IF tx.outer THEN Rollback(server)
  ELSE Then(RollbackTo(server, tx.name), LAMBDA s : Release(s, tx.name))

\* Mutant of Popped: a block counts twice.
Popped_Twice == num_transactions - 2

\* _pop_savepoint: the number of blocks left ...
Popped == num_transactions - 1

\* Mutant of OutOfOrder: not detected.
OutOfOrder_Never(tx) == FALSE

\* ... which is the number there was when tx was entered, if all is well.
OutOfOrder(tx) == Popped # tx.index

\* Mutant of Swallows: whatever the target.
Swallows_Any(b, e) == e.kind = "rollback"

\* The end of _rollback_gen.
Swallows(b, e) == e.kind = "rollback" /\ e.target \in {NoBlock, b}

\* __exit__ without an exception: a COMMIT that the server answers with a
\* rollback, because the transaction had failed, is a success for the client.
ExitClean(t, tx) ==
  \E o \in CommitCommands(tx) :
     /\ Answer(t, o)
     /\ state' = [state EXCEPT ![tx.block] =
                    IF ~o.ok THEN "failed"
                    ELSE IF server.status = "INERROR" THEN "lost"
                    ELSE IF tx.outer THEN "committed" ELSE "kept"]

\* __exit__ with an exception, or with force_rollback: errors are ignored.
ExitUndo(t, tx) ==
  LET e == raising[t] IN
  \E o \in RollbackCommands(tx) :
     /\ server' = o.srv
     /\ Raise(t, IF o.ok /\ Swallows(tx.block, e) THEN NoExc ELSE e)
     /\ state' = [state EXCEPT ![tx.block] = IF o.ok THEN "undone" ELSE "failed"]

\* __exit__ of the i-th live block: a program may call it in any order.
exit(t, i) ==
  /\ LET tx == live[i]
         undo == raising[t] # NoExc \/ tx.block \in Forced
     IN
     /\ live' = SubSeq(live, 1, i - 1) \o SubSeq(live, i + 1, Len(live))
     /\ orderly' = (orderly /\ i = Len(live))
     /\ IF server.status = "UNKNOWN"
        THEN /\ state' = [state EXCEPT ![tx.block] = "failed"]
             /\ UNCHANGED <<server, num_transactions, raising>>
        ELSE /\ num_transactions' = Popped
             /\ \/ /\ OutOfOrder(tx)
                   /\ Raise(t, Error) /\ UNCHANGED server
                   /\ state' = [state EXCEPT ![tx.block] = "failed"]
                \/ ~OutOfOrder(tx) /\ ~undo /\ ExitClean(t, tx)
                \/ ~OutOfOrder(tx) /\ undo /\ ExitUndo(t, tx)
  /\ UNCHANGED <<autocommit, tpc, within>>

\* The program raises an exception, or Rollback(b) for a block it is in ...
raise(t, e) ==
  /\ Runs(t) /\ Raise(t, e)
  /\ UNCHANGED <<server, calls, state, live, history>>

\* ... and catches one, inside a block or outside.
catch(t) ==
  /\ ~Runs(t) /\ Raise(t, NoExc)
  /\ UNCHANGED <<server, calls, state, live, history>>

-----------------------------------------------------------------------------
(* The connection                                                           *)

\* Cursor.execute of a statement that writes the rows w, or none: _start_query
\* begins a transaction if there is none.
execute(t, w) ==
  LET starts == ~autocommit /\ server.status = "IDLE"
      began  == IF starts THEN Begin(server) ELSE {Done(server)}
  IN
  /\ Runs(t)
  /\ \E o \in Then(began, LAMBDA s : Write(s, w)) :
       /\ Answer(t, o)
       /\ within' = IF o.ok THEN [r \in Rows |-> IF r \in w THEN LiveBlocks
                                                 ELSE within[r]]
                    ELSE within
  /\ UNCHANGED <<calls, state, live, orderly>>

InBlock == num_transactions # 0
InTpc == tpc # NoTpc

\* Mutants of Forbidden: inside a block, or in a two-phase transaction, only.
Forbidden_InBlock == InBlock
\* When commit() and rollback() are refused.
Forbidden == InBlock \/ InTpc

\* commit() and rollback(), which the context of the connection calls too.
commit(t) ==
  /\ Runs(t)
  /\ IF Forbidden THEN Refuse(t)
     ELSE /\ \E o \in IF server.status = "IDLE" THEN {Done(server)}
                                               ELSE Commit(server) : Answer(t, o)
          /\ UNCHANGED calls
  /\ UNCHANGED <<state, live, history>>

rollback(t) ==
  /\ Runs(t)
  /\ IF Forbidden THEN Refuse(t)
     ELSE /\ \E o \in IF server.status = "IDLE" THEN {Done(server)}
                                               ELSE Rollback(server) : Answer(t, o)
          /\ UNCHANGED calls
  /\ UNCHANGED <<state, live, history>>

set_autocommit(t, value) ==
  /\ Runs(t)
  /\ IF server.status # "IDLE" THEN Refuse(t)
     ELSE /\ autocommit' = value
          /\ UNCHANGED <<server, num_transactions, tpc, raising>>
  /\ UNCHANGED <<state, live, history>>

close(t) ==
  /\ Runs(t) /\ server' = Dead(server)
  /\ UNCHANGED <<calls, state, live, raising, history>>

-----------------------------------------------------------------------------
(* Two-phase transactions                                                   *)

\* A two-phase call; the program should not make one inside a block.
TpcCall(t) ==
  /\ Runs(t) /\ orderly' = (orderly /\ live = <<>>)
  /\ UNCHANGED <<state, live, within>>

tpc_begin(t, x) ==
  /\ TpcCall(t)
  /\ IF server.status # "IDLE" \/ autocommit THEN Refuse(t)
     ELSE /\ tpc' = [xid |-> x, prepared |-> FALSE]
          /\ \E o \in Begin(server) : Answer(t, o)
          /\ UNCHANGED <<autocommit, num_transactions>>

\* The transaction counts as prepared before the command is sent.
tpc_prepare(t) ==
  /\ TpcCall(t)
  /\ IF ~InTpc \/ tpc.prepared THEN Refuse(t)
     ELSE /\ tpc' = [tpc EXCEPT !.prepared = TRUE]
          /\ \E o \in Prepare(server, tpc.xid) : Answer(t, o)
          /\ UNCHANGED <<autocommit, num_transactions>>

\* Before tpc_prepare(): forget the transaction, then commit() or rollback().
FinishOnePhase(t, commits) ==
  /\ InTpc /\ ~tpc.prepared
  /\ tpc' = NoTpc
  /\ \/ InBlock /\ Raise(t, Error) /\ UNCHANGED server
     \/ /\ ~InBlock
        /\ \E o \in IF server.status = "IDLE" THEN {Done(server)}
                    ELSE IF commits THEN Commit(server)
                    ELSE Rollback(server) : Answer(t, o)

\* After it, or for the identifier of another session's transaction: only a
\* success ends the transaction.
FinishTwoPhase(t, x, commits) ==
  \E o \in FinishPrepared(server, x, commits) :
     Answer(t, o) /\ tpc' = IF o.ok THEN NoTpc ELSE tpc

\* tpc_commit() and tpc_rollback(): _tpc_finish_gen without an identifier ...
tpc_finish(t, commits) ==
  /\ TpcCall(t)
  /\ \/ ~InTpc /\ Refuse(t)
     \/ /\ FinishOnePhase(t, commits)
        /\ UNCHANGED <<autocommit, num_transactions>>
     \/ /\ InTpc /\ tpc.prepared /\ FinishTwoPhase(t, tpc.xid, commits)
        /\ UNCHANGED <<autocommit, num_transactions>>

\* ... and with one.
tpc_recovered(t, x, commits) ==
  /\ TpcCall(t)
  /\ \/ InTpc /\ Refuse(t)
     \/ /\ ~InTpc /\ FinishTwoPhase(t, x, commits)
        /\ UNCHANGED <<autocommit, num_transactions>>

-----------------------------------------------------------------------------
Raised(t) == {Error, Exc("rollback", NoBlock)}
             \cup {Exc("rollback", live[i].block) : i \in Own(t)}
Next ==
  \E t \in Threads :
     \/ \E b \in Blocks : enter(t, b)
     \/ \E i \in Own(t) : exit(t, i)
     \/ \E e \in Raised(t) : raise(t, e)
     \/ catch(t)
     \/ \E w \in {{}} \cup {{r} : r \in Rows \ Written} : execute(t, w)
     \/ commit(t) \/ rollback(t) \/ close(t)
     \/ \E value \in BOOLEAN : set_autocommit(t, value)
     \/ tpc_prepare(t)
     \/ \E x \in Xids : tpc_begin(t, x)
     \/ \E commits \in BOOLEAN :
           \/ tpc_finish(t, commits)
           \/ \E x \in Xids : tpc_recovered(t, x, commits)

Spec == Init /\ [][Next]_vars

-----------------------------------------------------------------------------
(* Properties                                                               *)

Tx == [block : Blocks, by : Threads, outer : BOOLEAN, name : Int, index : Nat]
ExcType == [kind : {"none", "error", "rollback"}, target : Blocks \cup {NoBlock}]
States == {"new", "live", "kept", "committed", "lost", "undone", "failed"}

\* Type invariant: the attributes of the connection and of its blocks.
TypeOK ==
  /\ server.status \in {"IDLE", "INTRANS", "INERROR", "UNKNOWN"}
  /\ autocommit \in BOOLEAN /\ num_transactions \in Nat
  /\ tpc \in [xid : Xids \cup {NoXid}, prepared : BOOLEAN]
  /\ state \in [Blocks -> States]
  /\ live \in Seq(Tx) /\ raising \in [Threads -> ExcType]
  /\ orderly \in BOOLEAN

PreparedRows == UNION {p.rows : p \in server.prepared}

\* Whatever was written in a block that was undone, that failed or that is
\* still open is not in the database, nor in a prepared transaction, nor will
\* it be committed later: _get_rollback_commands against _get_enter_commands.
UndoneIsGone ==
  orderly /\ server.status # "UNKNOWN" =>
    \A r \in Written, b \in Blocks : b \in within[r] =>
      /\ r \in server.committed \cup PreparedRows =>
           state[b] \in {"kept", "committed"}
      /\ r \in Pending(server) /\ server.status = "INTRANS" =>
           state[b] \in {"kept", "live"}

\* What was written in a transaction block is in the database once the blocks
\* around it have exited without an error; no call in between loses it.
KeptIsCommitted ==
  orderly /\ server.status # "UNKNOWN" =>
    \A r \in Written :
      /\ \E b \in within[r] : state[b] = "committed"
      /\ \A b \in within[r] : state[b] \in {"kept", "committed"}
      => r \in server.committed

\* The first block has no savepoint if it has no name: it is the transaction.
Nameless == IF live # <<>> /\ live[1].name = 0 THEN 1 ELSE 0

\* The savepoints of the server are those of the blocks the program is in, in
\* the same order: a block neither leaves its savepoint nor takes another's.
SavepointsMatch ==
  orderly /\ server.status = "INTRANS" =>
    /\ Len(server.levels) = 1 + Len(live) - Nameless
    /\ \A i \in 1 + Nameless .. Len(live) :
         server.levels[1 + i - Nameless].name = live[i].name

\* Work is committed or undone with the blocks it was written in, and the
\* blocks and the savepoints correspond, whatever fails and in whatever order.
WorkFollowsBlocks == UndoneIsGone /\ KeptIsCommitted /\ SavepointsMatch

\* The transaction does not end at the exit of a block while the program is in
\* another one, however it mixes its threads' blocks: _pop_savepoint.
EndsAlone ==
  [][live' # live /\ server.status \in {"INTRANS", "INERROR"}
     /\ server'.status = "IDLE" => Len(live) = 1]_vars

\* Rollback(b) leaves the blocks inside b, undoes b and stops there: the blocks
\* on its way do not swallow it, and b does not let it through (_rollback_gen).
RollbackReachesTarget ==
  [][LET tx == live[Len(live)]
         e  == raising[tx.by]
     IN  /\ Len(live') < Len(live) /\ orderly' /\ server'.status # "UNKNOWN"
         /\ e.kind = "rollback"
         => raising'[tx.by] = IF e.target \in {tx.block, NoBlock} THEN NoExc
                              ELSE e]_vars

\* A two-phase transaction that is not prepared is in progress: neither
\* commit(), rollback() nor a block can end it behind its back.
TpcIsOpen == InTpc /\ ~tpc.prepared => server.status # "IDLE"
=============================================================================
